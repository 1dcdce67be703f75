# Beout_OS Client: a verification project in TLA+

This directory models the control software of the Beout_OS appliance: the C++
daemon and console, the shell scripts that apply network settings, check the
licence and install updates, the dashboard with its session and its five pages,
and the disk installer. TLC checks each model on a small instance; TLAPS proves
the central safety properties of console, daemon and sync script, alone and
together, of updater, dashboard, activation, installer and machine identity, for
every instance. Paths are relative to the repository's root.

Contents: 1 inventory, 2 plan, 3 the modules and the code, 4 the runs and their
bounds, 5 fairness, 6 what is proved, 7 what the code does not guarantee,
8 what is not modelled.

## 1. Inventory

### Parts, state and interaction

The appliance is a Debian machine. Four kinds of process act on it, all through
one SQLite table of texts by key; a browser and the vendor's server are outside.

| Part | Source | State it keeps | Operations |
|---|---|---|---|
| Configuration database | `database/database_manager.cpp` | table `config` of key and text | `set_config`, `get_config`, one key each |
| Console | `provisioning/cli_engine.cpp` | locals of one operation | configure one of three roles, factory reset, leave |
| API daemon | `api/api_server.cpp` | session token; locals of each handler | GET and POST `/api/config`, licence, update, login, time, health, debug |
| Network sync | `packaging/sync_network.sh` | the interfaces file, addresses of live adapters | one run: read the store, rewrite the file, set adapters, restart networking |
| Activation | `activation/activation_manager.cpp` and the daemon | five licence keys of the database | activate; heartbeat in `check_updates.sh` |
| Machine identity | `activation/machine_id.cpp`, `check_updates.sh` | `/etc/machine-id` or a file of its own | read, else generate and persist |
| Netmask conversion | `cli_engine.cpp`, `sync_network.sh` | none | netmask to prefix length, by count and by table |
| Updater | `packaging/check_updates.sh`, `packaging/debian/DEBIAN` | `/etc/beout_os_version`, dpkg's state, the daemon's unit | fetch, download, compare, install, record |
| Dashboard session | `dashboard/src/App.tsx`, `check_auth` | token in React state of each tab and in localStorage | login, logout, reload, guarded calls |
| Dashboard pages | `dashboard/src/App.tsx` | the page shown: its lists, forms, messages and disabled buttons; requests under way | open, leave, edit, save, hear answers |
| Time settings | `api/api_server.cpp` | two keys, `/etc/timezone` | GET and POST `/api/time` |
| Installer | `installer/beout_installer.sh` | partitions, mounts and files of the target disk | nine phases, two traps |
| Crypto | `crypto/crypto_utils.cpp` | none | sign, verify, hash |
| Licensing server | `licensing/server.py` | keys and their status (stand-in for tests) | activate, heartbeat, metadata |

How they touch each other:

- Console, daemon and both scripts share the database, key by key. The mutex of
  `DatabaseManager` covers one statement of one process; nothing spans two keys.
- The network configuration is stored twice: eleven "legacy" keys
  (`network_<role>_<field>`) and one JSON array (`network_interfaces_json`).
  The console writes the keys and rebuilds the array; the daemon writes the
  array and copies it to the keys; the script prefers the array.
- The console starts `sync_network.sh` and waits; the daemon starts it in the
  background. The daemon also starts `check_updates.sh`, as does a timer.
- `check_updates.sh` runs dpkg, whose `preinst` stops the daemon and thereby
  every process of the daemon's unit, and whose `postinst` starts it again.
- Tabs of a browser share localStorage and hold a copy of the token each.
- A page asks the daemon when it is opened, and again after some of its saves.
  React drops the page's state when another one is chosen; the requests it sent
  go on, and their answers find nobody, except that a 401 logs the tab out.

### What is hard

- **Interleaving.** cpp-httplib runs handlers on a pool of threads, the scripts
  run beside them, and every operation is a dozen separate single-key steps.
- **Death in the middle.** An upgrade stops console and daemon at any step,
  power can go, and no multi-key write is a transaction.
- **Two forms of one fact.** Array and keys, version file and dpkg, status and
  token, React state and localStorage: each pair is written in two steps.
- **Late and lost answers.** Heartbeats, activations, downloads and guarded
  calls of the dashboard.
- **Pages that outlive or do not outlive their requests.** An answer may come
  after the list it replaces was edited, after the page was left and opened
  again, or after another login; each `await` in a handler is such a gap.
- **Ignored failures.** The result of `set_config`, commands in the installer's
  chroot, `ip` commands.

### What makes each part correct

| Part | Properties wanted |
|---|---|
| Console | no adapter in two roles at any instant; the array mirrors the keys; a cut-off operation is repaired by the next |
| Daemon, configuration | what is acknowledged is stored; only a POST replaces a stored array; the keys follow it; every request is answered |
| Network sync | file and adapters end up at the last configuration, whichever form holds it |
| All three together | all views of the configuration agree when nothing is in progress |
| Activation | ACTIVE only by the vendor's signature, backed by the token, ended by nothing but a REVOKED or INACTIVE, and always by the vendor's |
| Machine identity | an id that stands never changes, and all who look find it |
| Netmask | both conversions give every mask its length |
| Updater | only checked packages installed, the version file tells the truth, a published version arrives, the daemon comes back |
| Session | a dead token is noticed; after a login older tokens are refused |
| Pages | no button stays disabled for nothing; the form edits a row that exists; a success message is true; WAN, LAN and MGMT are not taken out of the array |
| Installer | the completion screen means an installed disk; a retry succeeds |

`PROJECT.json` lists each hazard at its line with the properties that cover it.

## 2. Plan

Order of writing, most important behaviour first:

1. `Database`, `ConfigStore`: vocabulary shared by everything that stores.
2. `RoleAssignment` (abstract) and `Provisioning` (detailed), with
   `ProvisioningProofs` about both. **Done.**
3. `ApiConfig`, `NetworkSync`, and the closed system `SyncClients`. **Done.**
4. `Appliance`: console, daemon and script composed over one machine. **Done.**
5. `Activation`, `Updater`, `Session`, `Installer`. **Done.**
6. `UpdaterProofs`, `InstallerProofs`, `ActivationProofs`. **Done.**
7. `AppShell`, the five pages and `Dashboard`, which composes them with
   `Session`; `DashboardProofs` about all of them. **Done.**
8. `MachineIdentity` and `Netmask`, small and apart from the rest. **Done.**
9. `ApiConfigProofs` and `SyncProofs`. **Done.**
10. `ApplianceProofs`, from the invariants of the three components. **Done.**

Abstract specifications worth stating: `RoleAssignment`, implemented by the
console; later, an atomic register for the array that POST and seeding implement
on one thread.

## 3. The modules and the code

`PROJECT.json` maps each definition to its lines. In all modules one action is
one externally visible step of the code: one statement on the database, one
command, one request or one answer; the control between two of them is the
action's guard and its choice of the next step. Definitions whose comment says
*variant ... with a mistake* are copies of an action with one plausible error;
no specification uses them. They exist so that it can be shown, by putting one
in place of the action it varies, that the properties are able to fail.

**Database** (`db`, `SetConfig`, `GetConfig`). `SetConfig` is one upsert. It may
leave the table unchanged when `"write" \in StoreFaults`, as the code returns
`false` and no caller looks; `GetConfig` may say "no such key" when
`"read" \in StoreFaults`. `Files` are the database files of the deployment. A
single key is atomic in SQLite whatever the number of processes.

**ConfigStore**. The keys, the fields of a role in the order all writers walk
them (LAN has no gateway), array elements, and the two forms' converters. JSON is
a sequence of records. Texts that pass format validation are model values.

**Provisioning** (extends ConfigStore). One console process.

| Code | Actions |
|---|---|
| menu 1-3, `configure_interface`, input accepted | `ConfigureInterface` |
| loop that takes the adapter from other roles | `ClearCheck`, `ClearErase` |
| `set_config` of the role's keys | `StoreField` |
| `sync_legacy_to_json`: eleven reads, one write | `GatherField`, `PublishJson` |
| `ip addr flush`, `ip addr add` | `FlushLive`, `AssignLive` |
| menu 5, `factory_reset` | `FactoryReset`, `WipeField`, `WipeJson` |
| `std::system(sync_network.sh)` | `LaunchSync`, `SyncReturns` |
| menu 6-8 | `Exit` |
| unit stopped, power lost; `Restart=always` | `Kill`, `Restart` |

`torn` is a history variable: an operation was cut short since the last one
that reached its end. Input that is refused changes nothing and is no action.

**ApiConfig** (extends ConfigStore). Handlers on `Workers` threads. GET:
`GetConfigRequest`, `ReadStored`, `ReadLegacy` (eleven times), `SaveSeed`. POST:
`PostConfigRequest`, `Validate`, `SaveJson`, `SaveLegacy` (per key),
`LaunchSync`. `Valid` is the validation loop, `NextRole` the search for the next
element that stands for a role. Requests that fail `check_auth` change nothing.
`HandlersTypeOK` is checked as part of Appliance's type invariant.

**NetworkSync** (extends ConfigStore). Runs of the script in `Jobs` slots.
`ReadJson`, then `ReadKey` per key if there is no array; `Truncate`, and for each
stanza `AppendHead`, `AppendBody`, `Flush`, `Assign`; `RestartNetworking`. The
file is a sequence of lines, written in place, so overlapping runs mix.
ifupdown is external: it takes the file's addresses for adapters the file names,
and refuses a file with two address lines in a stanza or one outside. **SyncClients** closes
the system with clients that change the store and launch a run.

**Appliance** instantiates the previous three over shared variables: a step is a
step of one of them with the others' variables unchanged. The `job` variable is
the interface; each component's own abstraction of the script (`SyncEnds`) is
replaced by NetworkSync's steps. `ApiFile`, `CliFile`, `SysFile` decide whether
the daemon's database is the one the others use.

**Activation** (extends Database). Handler of `POST /api/license/activate`:
`CheckKey`, `SaveUrl`, `SaveVerify`, `ReadUrl`, `Contact`, `CheckToken`,
`WriteToken`, `WriteActive`, `WriteKey`. Heartbeat of `check_updates.sh`:
`ReadLicenceKey`, `ReadServerUrl`, `BeatAnswered`, `OtherRevokes` or `BeatLost`,
`WriteInactive`, `EraseToken`. The vendor's records (`licence`, `Revoke`) and
other servers (`ServerAt`) are the environment. Signatures are ideal. A third
text for the verify setting would make the daemon (which insists on a
certificate only for `1`) and the script (for everything but `0`) differ; the
dashboard sends only these two, so `Flags` holds them.

**Updater**. Runs of `check_updates.sh`: `Start`, `Beat`/`BeatFails`, `Fetch`,
`Download`, `NetworkFails`, `CheckSum`, `DpkgLock`, `Preinst`, `Unpack`,
`Postinst`, `DpkgFails`, `WriteVersion`. Stopping the daemon's unit kills the
manual runs (`KillManual`). The vendor publishes and withdraws; `ApiCrash` and
`PowerLoss` can fall anywhere.

**Session**. `session` and `issued` are the daemon's; `stored` is localStorage;
`tab` and `login` each tab's state; `calls` the requests on their way out or
back. `CheckAuth` is `check_auth`, `CallAnswered` is what `fetchWithAuth` does with the
answer. `Polling` are the tabs left on the debug page: only that page calls a
guarded path by itself (`App.tsx:1458`); the health poll goes through
`fetchWithAuth` too, but `/api/health` is open and never answers 401.

**AppShell** (extends Session). What the pages of one tab (`PageTab`) share:
`page`, the state of the page shown, a record whose fields are the React states
of that component, or `Closed` on the login form; `sent`, the requests under way in
`Slots`, each with the token its closure holds, the button it keeps disabled and
who still hears the answer (`"page"`, `"app"` after the page was left,
`"nobody"` after a reload). `Refuse` is `check_auth`'s 401, `ConnectionFails` a
request or answer lost before or after the daemon handled it, `LoggedOut` and
`Unheard` what `fetchWithAuth` and the handlers do for a page that is gone.

| Module | Page | User | Daemon | Answers |
|---|---|---|---|---|
| InterfacesPage | `Interfaces` | `SelectInterface`, `EditForm`, `HandleAddNew`, `HandleDelete`, `HandleUpdateCurrent`, `HandleApply` | `HandleGetConfig`, `HandlePostConfig` | `GetConfigAnswered`, `PostConfigAnswered` |
| LicencePage | `License` | `TypeUrl`, `TypeKey`, `HandleActivate`, `HandleCheckUpdates` | `HandleGetLicence`, `HandlePostActivate`, `HandleUpdateCheck`, `Withdraw` | `GetLicenceAnswered`, `ActivateAnswered`, `UpdateCheckAnswered` |
| TimePage | `TimeSettings` | `ChooseZone`, `TypeServer`, `HandleSave` | `HandleGetTime`, `SaveZone`, `SaveServer` | `GetTimeAnswered`, `PostTimeAnswered` |
| DebugPage | `DebugPanel` | `SelectTest`, `RunDiag`; `LoadResources` by its interval | `HandleDiag` | `DiagAnswered`, `ResourcesAnswered` |
| StatusPage | `DashboardStatus` | | `HandleHealth` | `HealthAnswered`, `StatusLicenceAnswered` |

The daemon's handlers are single steps here where their own modules have them
step by step (ApiConfig, Activation), since these pages send to one daemon and the
hazards are the pages'. POST `/api/time` has no module of its own: its two
stores and two checks are `SaveZone` and `SaveServer`, between which other
requests run. The fields `posted`, `alone` and `loaded` are history: what the
page's last save said, whether an older save was then under way, and whether an
array with the three system interfaces has arrived.

**Dashboard** composes session, shell and pages: `SetActiveTab`, `SignedIn`,
`SignOut` and `ReloadTab` open and close pages; `LoginElsewhere` is what other
tabs and browsers do to the session.

**MachineIdentity**. `Threads` of the daemon and `Scripts` look for the id with
the same steps: `ReadEtc`, `ReadFile`, `OpenFile` (which empties the file),
`WriteFile`. Where daemon and script differ the action's guard or choice says
so: `MayOpen` (the daemon is `beout_api`, and a file of root's is closed to it
until postinst's `Chown`), `OpenFails` and `WriteFails` (the daemon goes on with
an id no file has, the script ends), `NoUuid`. `Stop` ends the daemon or a
script at any step. `since` is history: the id that stood when a search began.

**Netmask** has no state: `CountBits` is the console's loop, `MaskTable` and
`MaskToCidr` the script's table with its default. Its assumption
`ConversionsAgree` says that both give each of the 33 masks with a length that
length, which is why the other modules may keep a netmask as a value. MCSync
extends it, so TLC evaluates the assumption with the run *sync*.

**Installer**. One action per phase. `Done`, `Abort`, `Die` and `Masked` are the
four ways a command's failure is treated: not failing; plain, under `set -e`
with the EXIT trap; `|| die`, which replaces the script by a shell so that the
trap never runs; and a status nobody looks at. `Cleanup` is the trap, in which
each `umount` may fail unseen.

**FirstBoot** puts Installer and MachineIdentity in sequence: the installer copies
the running live system (`install_base_system`), `/etc/machine-id` with it, and
the machine that is then started looks for its identity with what it got.

The MC modules extend a module with the values a configuration needs.

## 4. The runs and their bounds

`tlc -config X.cfg M` from this directory. The numbers are distinct states.

| Run | Module / cfg | States | Shows |
|---|---|---|---|
| console | MCProvisioning | 176 k | see below; `SYMMETRY` on adapters and on addresses |
| api_config | MCApiConfig | 19 k | requests one after the other, from fresh and from left-over keys |
| sync | MCSync | 13 k | the store changes under the running script |
| appliance | MCAppliance | 385 k | the three components, one operation at a time |
| activation | MCActivation | 117 k | two scenes: revocation under all interleavings; servers, settings, stops of the daemon |
| updater | MCUpdater | 31 k | overlapping runs, faults, one power loss |
| dashboard | MCDashboard | 252 k | six scenes: the session of two tabs, and each of the five pages |
| installer | MCInstaller | 392 k | up to three faults in any phases; then the machine id |
| seed_race | MCApiConfig / MCApiSeedRace | violation | finding 1 |
| split_file | MCAppliance / MCSplitFile | violation | finding 2 |
| manual_update | MCUpdater / MCUpdaterManual | violation | finding 3 |
| lost_interfaces | MCDashboard / MCLostInterfaces | violation | finding 4 |

**console.** Two adapters and three roles are the smallest case in which roles
compete; two addresses tell records apart; three operations let an adapter move
twice or a torn operation be followed by a whole one and a reset; one kill falls
between any two steps. `DevicesDistinct` and `PublishedDistinct`: no adapter in
two roles of the keys or of the array. `MirrorWhenWhole`: after an operation
that ran to its end with none cut short since, the array is the keys.
`PublishRepairs`: every array ever written is a copy of the keys, also after a
kill. `ImplementsAssignment`: the keys refine `RoleAssignment`. Symmetry is
used because no property of this run is a liveness property and no constant
singles out an adapter or address.

**api_config.** Nine bodies: two good ones that swap adapters, one with a port
that is no role first, one that names a role twice, one for each way to be
refused, and the one `docs/API_CLI.md:78` shows, which has no array. The store
starts without an array and with one of five sets of keys (`StoredKeys`): none, or
adapters an older version or a killed console left, which a GET completes from the
machine's. Four requests allow a GET that seeds, a POST, a refused POST and a GET
in any order. One thread; with two the run is *seed_race*, and what else two
threads break is in section 7. `SavedDistinct`: no stored array has an adapter
twice, if the keys the daemon started with are `Unclaimed`, that is, if detection
gives no role an adapter another role has; from the others a first GET may store
one. `OnlyPostReplaces`. `AckMeansSaved`: a success means that the array sent is
stored; the documented body is answered success as well and leaves the stored
array as it was, against `docs/API_CLI.md:76`. `LegacyFollows`: from the launch of
the script until the thread takes another request, the array is the body posted
and the keys of every role in it are those of its last element.

**sync.** Four contents (array, array that moves an address and names an absent
adapter, old keys without array, reset) and four changes reach every transition
between contents. The changes fall anywhere in a run. `Synchronized`: file and
adapters follow the store when the last run has ended. `Converges`.

**appliance.** Two console operations and two requests in any order, each
started when the appliance is quiet. That is what an administrator does, and
what the code needs: section 7 lists what simultaneous operations break.
`FileFollowsApi` and `KernelFollowsApi`: the interfaces file and the adapters are
the configuration the daemon shows. `ViewsAgree`: keys and array describe the same
ports. `AdaptersDistinct`: neither has an adapter twice, although the console
compares adapters in the keys only and a POST in its array only, and each writes
both. The last two are about bodies that name each role once.

**activation.** A behaviour plays one of two scenes. *Overlap*: two keys and two
overlapping runs of the script beside two requests of an administrator who never
changes a setting that works, for the interleavings of the old key's revocation
with a new activation. *Alone*: requests and runs one after the other, all three
servers, absent and present settings and a stop of the daemon at every write. A
heartbeat that reaches another server may be answered REVOKED or INACTIVE
(`OtherRevokes`), which the script believes (`check_updates.sh:79`).
`RevocationReaches` and `OnlyVendorActivates` hold in both. `ActiveIsBackedAlone`
and `StandingKeyIsActiveAlone` are about behaviours in which no request and no run
of the script ever overlap (`[]OneAtATime`), so about every behaviour of the
second scene: section 7 has the overlap that breaks them. `StandingKeyIsActiveAlone`
is moreover about behaviours in which only the vendor's server says REVOKED or
INACTIVE (`[]OnlyVendorRevokes`): the code does not keep it from any other.

**updater.** Three versions and two publications: the vendor publishes again
while the first is being installed. One fault (corrupt download, dpkg failing,
daemon crash) and one power loss.

**dashboard.** Six scenes, again one per behaviour. *Tabs* is Session itself with
two tabs, two tokens and a restart: an older token, a newer one and none;
`Polling = {t2}`, so that the other tab is not assumed to poll. The other five play
one page of tab `t1` beside the status page that every login shows first; the
sidebar leads back and forth between the two, so that requests of the page left
meet the page opened again. Two requests under way (`MaxSent`) let an old
answer overtake a new one. `Limit` bounds the user's actions: four on the
Interfaces page are create, apply, leave and return, or create, delete, update,
apply; five on the time page are edit, save, leave, return, save, which is the
shortest way for two saves to cross, with one login (`Logins`). Restarts, reloads
and tokens another tab has stored do the same to every page: the *status* scene
has them. One created port, two zones, a server that is refused, and a test
named like a tool are the values that pages tell apart. `BusyIsWaiting` and
`SavingEnds`: a disabled button waits for something, and not for ever.
`FormEditsRow`: the form edits a row of the list. `SuccessIsStored`: after a
success message the daemon holds what this page sent last, unless an older save
was under way. `SystemInterfacesKept`: only a page that never received the system
interfaces posts an array without them. `NewestTokenOnly` and `DeadSessionEnds`
are Session's.

**installer.** Three faults allow two failed attempts with a failing cleanup. An
installation without a fault is followed to the machine's first searches for its
identity: four by three processes, with an id for each and one in `/etc`, so
three may find the file empty at once and a fourth comes later. One stop falls
between any two steps; the file may fail at every opening and writing. An id
*stands* when it is in `/etc`, or in the file with nobody past finding it empty.
`IdentityStays`: it then never changes. `AllFindIt`: whoever starts to look from
then on finds it, if anything.

Deadlock is checked in *updater*, *dashboard* and *manual_update*. The other
configurations set `CHECK_DEADLOCK FALSE`, since there the bounded system stops:
the operations, requests, searches or changes are used up and everything is idle, or the
completion screen is reached. `Converges`, `Settles`,
`RevocationReaches` and `RetryCompletes` state that nothing is stuck half-way.

Every property has a variant of a mapped definition (`mutants` in
`PROJECT.json`) under which the same run refutes it.

### Findings

1. *seed_race*: `GET /api/config` on an empty store seeds the array and stores it
   without looking again (`api_server.cpp:446`, `:476`); a POST acknowledged in
   between is overwritten.
2. *split_file*: the daemon opens `./config.db` (`api/main.cpp:5`) in
   `/opt/beout_os/bin`, everything else `/var/lib/beout_os/config.db`; what the
   dashboard stores does not reach the network, against
   `docs/ARCHITECTURE.md:41`.
3. *manual_update*: a manual update is killed by its own package's `preinst`
   (`DEBIAN/preinst:6`); if the version file is already the new one, no later run
   starts the daemon again.
4. *lost_interfaces*: the Interfaces page posts its list as the whole array
   (`App.tsx:905`) also when no answer to its first GET has come; a port created
   meanwhile replaces WAN, LAN and MGMT, which `App.tsx:855` says cannot be
   deleted.

## 5. Fairness

- Handlers, console operations and scripts that have started take further
  steps (weak fairness per thread, process or run): the operating system
  schedules them and none waits for another, except the console for its script.
- *Activation*: the timer starts the script again and again, and not every
  heartbeat of the timer's run is lost (strong fairness of `StartRun` and
  `BeatAnswered`): `beout_os-updater.timer` repeats for ever. Nothing is assumed
  of manual runs, of requests or of the vendor.
- *Updater*: likewise strong fairness of `Fetch` and `Download`, and of `Unpack`
  and `Postinst`: an installation that could succeed is not refused for ever. The
  consequence is stated only for runs in which the licence is not withdrawn.
- *Session*: weak fairness of the poll on the debug page (an interval of 30
  seconds), strong fairness of handling it and of hearing a 401. Nothing is assumed
  of tabs on other pages.
- *Dashboard*: weak fairness of each request (`GoesOn`): it is handled or its
  connection fails, and the browser then runs the code that awaited it. Which of
  these happens is left open; nothing is assumed of the user.
- *Installer*: the operator runs the installer again after a failure.

No fairness is assumed of kills, faults, losses, requests or operator's choices.

## 6. What is proved

Each `...Proofs` module extends the module it is about; `tlapm M.tla` proves all
obligations with SMT, Zenon and LS4. The theorems hold for every value of the
constants that satisfies the modules' named assumptions, so for every set of
adapters, addresses, tabs, ports, zones, diagnostic tools, threads, script runs,
servers and licence keys, and for every bound on operations, requests under way,
kills, failures, logins and outages. The dashboard's theorems are about all pages
and the whole session at once, where the run takes them one scene at a time.

| Module | Theorem | States | Assumes besides |
|---|---|---|---|
| ProvisioningProofs | `OneRole` | `Assignment!Spec => []Assignment!OneRoleEach` | |
| | `TypeCorrect` | `Spec => []TypeOK` | |
| | `NoAdapterTwice` | `Spec => []DevicesDistinct` | `StoreFaults = {}` |
| | `NoAdapterPublishedTwice` | `Spec => []PublishedDistinct` | `StoreFaults = {}` |
| | `ConsoleImplementsAssignment` | `Spec => ImplementsAssignment` | `StoreFaults = {}` |
| | `ArrayMirrorsKeys` | `Spec => []MirrorWhenWhole` | `StoreFaults = {}` |
| | `LaterArrayRepairs` | `Spec => PublishRepairs` | `StoreFaults = {}` |
| ApiConfigProofs | `TypeCorrect` | `Spec => [](StoreTypeOK /\ HandlersTypeOK)` | |
| | `StoredIsDistinct` | `Spec => SavedDistinct` | `SeedSafe` |
| | `PostAloneReplaces` | `Spec => OnlyPostReplaces` | `SeedSafe` |
| | `KeysFollowPost` | `Spec => []LegacyFollows` | `OneThread`, `"write" \notin StoreFaults` |
| | `SuccessMeansSaved` | `Spec => AckMeansSaved` | the same |
| SyncProofs | `TypeCorrect` | `Spec => [](StoreTypeOK /\ SyncTypeOK)` | |
| | `RunsSynchronize` | `Spec => []Synchronized` | `OneSlot`, `"read" \notin StoreFaults` |
| ApplianceProofs | `TypeCorrect` | `Spec => []TypeOK` | |
| | `FileIsWhatApiShows` | `Spec => []FileFollowsApi` | `OneAtATime` |
| | `AdaptersCarryWhatApiShows` | `Spec => []KernelFollowsApi` | `OneAtATime` |
| | `TwoFormsAgree` | `Spec => []ViewsAgree` | `OneAtATime`, `EveryRoleOnce` |
| | `OneInterfacePerAdapter` | `Spec => []AdaptersDistinct` | `OneAtATime`, `EveryRoleOnce` |
| UpdaterProofs | `TypeCorrect` | `Spec => []TypeOK` | |
| | `CheckedInstalled` | `Spec => []OnlyCheckedInstalled` | `ChecksumGiven = TRUE` |
| | `VersionRecorded` | `Spec => []VersionFileTrue` | |
| DashboardProofs | `TypeCorrect` | `Spec => []TypeOK`, of Session | |
| | `OnlyNewestAccepted` | `Spec => NewestTokenOnly` | |
| | `DashboardTypes` | `DashSpec => []PagesTypeOK` | |
| | `DisabledIsWaiting` | `DashSpec => []BusyIsWaiting` | |
| | `EditsListedRow` | `DashSpec => []FormEditsRow` | |
| | `SystemKept` | `DashSpec => SystemInterfacesKept` | |
| | `SavedIsStored` | `DashSpec => []SuccessIsStored` | |
| InstallerProofs | `TypeCorrect` | `BootSpec => []BootTypeOK` | |
| | `BaseOnDisk` | `BootSpec => []CompleteHasBase` | |
| | `IdentityKept` | `BootSpec => IdentityStays` | |
| | `AllAgree` | `BootSpec => []AllFindIt` | |
| ActivationProofs | `TypeCorrect` | `Spec => []TypeOK` | |
| | `VendorActivates` | `Spec => OnlyVendorActivates` | |
| | `ActiveIsBackedByToken` | `Spec => ActiveIsBackedAlone` | `"write" \notin StoreFaults` |
| | `OnlyRevocationEnds` | `Spec => StandingKeyIsActiveAlone` | `"write" \notin StoreFaults` |

The named assumptions say that the empty text, the missing row and the other
texts are different things, that the files a process opens are files of the
deployment, that the timer's run is none of the manual ones, that `ls` prints an
adapter once, that a body's array, the array and keys the daemon starts with and
what clients leave in the store are what `json::parse` and the writers can produce, that
a forged token is not the vendor's, and that bounds are naturals. What a theorem
assumes besides is needed: without it TLC refutes the property (section 7), so it
is a hypothesis of the theorem and not of the module. Some of these have names.
`OneThread`: requests are handled one after the other. `SeedSafe`: reads do not
fail, and GET has nothing to seed, since an array is stored when the daemon starts,
or else there is one thread and writes do not fail. With an array stored
the daemon's two theorems hold for any number of threads at once: validation
alone keeps adapters apart, and no GET ever writes. What keys must be like for a
seed to keep adapters apart, `Unclaimed`, is part of the property `SavedDistinct`. `OneSlot`: one run of the
script at a time. `OneAtATime`, of the appliance: the three programs open one file,
operator and clients wait until all is quiet (`Serial`), and store statements do not
fail. `EveryRoleOnce`: a body names each role once, and no gateway for LAN, which
has no key for one; a role it leaves out keeps its keys, and then the two forms
differ. Ports that are no role may stand anywhere in a body. `VendorActivates` needs nothing: a store that fails can only
keep the status from becoming ACTIVE.

The arguments:

- **Console.** `Typed` adds to `TypeOK` that the operator's input is complete
  from the last prompt to the last live command; without that a stored text
  might be the empty one where an address is meant.
- `DevicesDistinct` is not inductive: `StoreField` gives the adapter to the role
  and relies on the clearing loop before it. `DistinctInv` adds what the loop
  has achieved so far: roles already passed do not hold the chosen adapter,
  neither does the one being erased once its first key is gone, and when the
  role's own keys are written no other role holds it. The lemmas `EraseHeld`,
  `WipeHeld`, `StoreHeld` and `OtherHeld` say what each action does to the
  interface keys (release one, give one, or nothing), and the step proof uses
  only them. Kill and restart lose the locals and keep the keys, which preserves
  the invariant wherever the kill falls.
- `PublishInv` adds that the locals of `sync_legacy_to_json` agree with the
  keys read so far in the adapter, so the array built from distinct keys is
  distinct.
- The refinement maps `holds[r]` to the role's interface key. `ClearErase` and
  `WipeField` on an interface key are `Release`, `StoreField` on it is `Assign`
  (its guard is the last conjunct of `DistinctInv`), all else stutters.
- `MirrorInv` extends the agreement to all eleven keys. Its part about the walks,
  `WalkInv`, says that those behind the cursor of the reading walk are copied,
  those behind the cursor of a reset are empty, and the cursor never rests on the
  gateway LAN does not have. That key is why the invariant also says it stays out
  of keys and locals. `WalkStep` says how a walk's step moves the cursor,
  `WriteOwn` what a write leaves alone; with them the array written last equals the
  keys, and `PublishRepairs` follows for every array, since the invariant says
  nothing of how the keys came about.
- **Daemon.** `SeedInv`: while there is no array one thread is alone with the store
  (`Alone`), and a handler that is rebuilding the array has seen that there is none
  (`Rebuilds`); with an array stored no handler is, whatever the threads do.
  `DistinctInv`, for the array: `ValidBody` says that the validation loop refuses
  every body with an adapter twice, and until the first array is stored the keys
  are still `Unclaimed` and what a rebuilding handler has read is what stands in
  them (`Gathered`), so that `SeedDistinct` applies to what it stores.
  `SavedDistinct` alone is not inductive: it does not say what a handler about to
  save holds.
- `FollowInv`, for the keys, says how far the walk over the body has come: the
  roles of elements passed over agree with the last of them for that role
  (`FollowedTo`), the keys of the element it is at are written up to the cursor
  (`FieldsDone`), and the array is already the body. `NextRoleIs` says that the
  walk passes over elements that are no role and nothing else; it needs the least
  element of a set of naturals, which `LeastNatural` gets from the library's
  theorem that `<` on them is well-founded.
- **Sync script.** A change to the store makes another launch due, so a run it
  overtakes need not be right. `SyncInv` says what holds while none is due: the
  keys the run has read are those of the store (`ReadSoFar`), past them the
  stanzas it holds are the wanted ones, and the file has the lines of those behind it
  (`Copied`); when it is over, file and adapters follow the store, and nothing but a
  change disturbs that. `WholeFile`: from a file of whole stanzas ifupdown gives
  each adapter the addresses of all its stanzas. The two filters of the
  script are stated by `Nth`, the n-th of a set of places, since a recursive one
  is beyond the prover; `NthIs` shows by counting that it numbers the places in
  order.
- **Appliance.** `ApplianceProofs` instantiates the three components' proof
  modules over the machine's variables; to the console a run of the script is just
  started or ended (`CliView`). `ConsoleIs`, `HandlerIs` and `RunIs` show that a
  step of the machine is a step of a component, whose lemmas say what becomes of
  its invariant. What is new is what one component's step leaves of the others'.
  For types that is `ConsoleKept`, `HandlersKept` and `RunsKept`.
- `SerialInv`, for file and adapters. `Alone`: a handler, the console or one run is
  at work, never two of them, since whoever launches a run leaves it behind as the
  only one. `Machine`: a run has got as far as its cursor (`Progress`, of
  SyncProofs), and file and adapters follow the store unless a run is owed, which
  is between a POST's writes and its launch, and from the console's first write to
  its launch. The one write that owes no run is a GET's seed: `Fresh` says that a
  store without an array has nothing in the keys, so neither the empty keys nor the
  seed built from them asks anything of the machine (`SeedWantsNothing`). `Fresh`
  in turn needs the console's `WalkInv` (what a reset leaves) and the handlers'
  `Following` (an array is stored before the keys are).
- `NamesInv`, for the two forms: outside their walks, the array is a copy of the
  keys or a body whose keys have all been written (`SavedAgrees`), and the console's
  `DistinctInv` and `PublishInv` hold. The console's clearing loop only keeps keys
  distinct that were distinct before, so every POST has to hand them over so.
- **Updater.** `LockHeld`: a run is inside dpkg exactly while it holds the
  lock. `CheckedInv`: past the comparison a run's package is the published one.
  `RecordInv`: no manual run gets past preinst, which stops its own unit, so only
  the timer's run unpacks, and until it has written the file the target it holds
  is the version installed.
- **Session.** `Carried`: the daemon's token is the last one issued or none, so
  whatever call it accepts carries that one.
- **Dashboard.** `DashInv` joins Session's `Typed`, the types, `SlotsOK` and
  `PageGood`. `SlotsOK` is what the pages rely on without saying so: a request
  whose answer the page hears was sent by a page of this name (`HomeOf`), says
  what that page could say, and its answer has the shape the page stores; a page
  that is left hands its requests to nobody (`LeftBehind`). `PageGood` adds that
  the form's port is in the list and that a page which has received the system
  interfaces still lists them, since delete refuses them; so what it posts
  contains them (`Posts`). Five lemmas say once what sending, answering, settling,
  asking again and typing do to the invariant; each handler then only has to show
  that its page is good. `DevicesSuffice` counts: a list that lacks an id has a
  device left for the port that is added.
- `SuccessIsStored` needs a second invariant, `SaveInv`, beside `DashInv`: while
  a page waits for its save at most one request of that kind is its own; if no
  older one was under way when it was sent (`alone`) there is no other, so no
  other save can be handled between this one and its answer; and a good answer
  on its way back says what the daemon holds.
- **Installer.** `BaseInv`: what every phase may rely on the earlier ones to have
  put on the disk, although the status of some of their commands is not seen.
- **Machine identity**, after the installation. That an id which stands goes on
  standing needs nothing but the types (`StandsOn`): readers of a file with text
  go home, and nobody left could empty it. `AllFindIt` is not inductive, since it
  speaks only of searches that are over; `FindInv` adds that the id which stood
  when a search began still stands, and that nobody gets past an id in `/etc`.
- **Activation.** `SignedInv`: a handler past the check of the token holds the
  vendor's signature, and one that holds it got it in this request from the
  vendor's server.
- `AloneInv` is what the two theorems about behaviours without overlap rest on: at
  each of the writes that activate or revoke it says which of token, status and
  key are already there. The order matters: the token is stored before ACTIVE and
  INACTIVE before the token is erased, so a stop between two of them leaves
  ACTIVE backed. `[]OneAtATime` is a hypothesis on the behaviour, so the step
  proof has it before and after each step. `AloneInv(kept)` serves both theorems:
  only with `kept`, for which `OnlyVendorRevokes` is needed, does it say that a
  recorded key that stands is ACTIVE; the token backs ACTIVE whoever answers.

Only model-checked: all liveness properties, since fairness and `ENABLED` are
outside what the prover handles.

## 7. What the code does not guarantee

Each line names the constants under which TLC refutes a property that a reader
may expect, or the part of a property without which it does. No run records these,
because they are one change of a constant or a condition away from a run, or concern
a failure that no document promises to survive. The results of section 4 hold only
without them.

| Change | Refuted | Why |
|---|---|---|
| MCProvisioning, `StoreFaults = {"write"}` or `{"read"}` | `DevicesDistinct` | a skipped erase, or a holder read as "no row", leaves the adapter with two roles |
| MCApiConfig, two `Workers` | `SavedDistinct`, `LegacyFollows`, `AckMeansSaved` | two handlers' key writes interleave; a seed mixes two configurations |
| MCApiConfig, without the `IF` of `AckMeansSaved` | `AckMeansSaved` | the body of `docs/API_CLI.md:80` has no array: answered success, nothing stored |
| MCApiConfig, without `Unclaimed` | `SavedDistinct` | the keys give WAN the second adapter, and a GET gives it to LAN too (`api_server.cpp:466`) |
| MCApiConfig, `StoreFaults = {"write"}` | `AckMeansSaved`, `LegacyFollows`, `SavedDistinct` | the result of `set_config` is dropped; keys without an array, which a GET then completes with adapters already in them |
| MCApiConfig, `StoreFaults = {"read"}`, `StoredJson <- Plain` | `OnlyPostReplaces` | a failed read is taken for an empty store and seeded over |
| MCSync, `Jobs = {cli, bg}` | `Synchronized` | two runs append to one file |
| MCSync, `StoreFaults = {"read"}` | `Synchronized` | a read that fails is an empty text |
| MCSync | `AddressesDistinct` | an adapter no longer named keeps its address |
| MCAppliance, `Serial = FALSE` | all of its invariants but `TypeOK` | console and POST interleave, and so do the runs they launch (found by `tlc -simulate -depth 150`) |
| MCAppliance, two `Files` | `FileFollowsApi`, `KernelFollowsApi` | finding 2 |
| MCAppliance, `StoreFaults = {"read"}`; or `{"write"}` and a body with an address for MGMT alone | `FileFollowsApi` | a failed read is an empty store; keys without an array name `eth2`, the seed a GET makes of them no adapter |
| MCAppliance, `Bodies <- PartialBodies` | `AdaptersDistinct`, `ViewsAgree` | a POST without a role leaves that role's keys, which the console rebuilds the array from |
| MCAppliance, `Bodies <- PortBodies` | `CustomPortsKept` | the console's rebuild has three roles only |
| MCActivation, also in the overlap scene | `StandingKeyIsActive`, `ActiveIsBacked` | the heartbeat's two writes for an old key fall among the three of a new activation |
| MCActivation, without `[]OnlyVendorRevokes` | `StandingKeyIsActiveAlone` | an address of another server is stored, a heartbeat reaches it, and its REVOKED is believed |
| MCActivation, `StoreFaults = {"write"}` | `ActiveIsBackedAlone`, `StandingKeyIsActiveAlone` | one of the three writes of an activation is missing |
| MCActivation, a kill in the overlap scene | `RevocationReaches` | stopped before the key is recorded: ACTIVE, and no heartbeat |
| MCActivation, `Emptied` for the overlap scene's requests | `RevocationReaches` | an empty address is stored, and the script then exits |
| MCActivation, two `Files` | `RevocationReaches` | the script reads another database |
| MCUpdater, `Rollback = TRUE` | `UpdateArrives` | a failed downgrade, then the old version published again |
| MCUpdater, `ChecksumGiven = FALSE` | `OnlyCheckedInstalled` | no checksum, no comparison |
| MCDashboard, tabs scene | `LiveSessionKept` | a late 401 of the old token logs the new session out |
| MCDashboard, tabs scene, `DeadSessionEnds` for all `Tabs` | `DeadSessionEnds` | only the debug page polls a guarded path |
| MCDashboard, `SuccessIsStored` without `alone` | `SuccessIsStored` | the save of a page left while saving is handled after the new page's |
| MCInstaller, `AllFindIt` without `since` | `got` of two processes differ | both found the file empty: the daemon activates one id and the heartbeat reports another |
| MCInstaller, `MaxFaults = 1` | `CompleteIsInstalled`, `NothingLeftMounted` | masked failures in the chroot; `die` skips the trap |

Seen in the code and not expressible in these models:

- `docs/ARCHITECTURE.md:62` says the console "immediately locks up" on a
  revocation and `:55` that activation opens configuration routes;
  `is_activated()` has no caller.
- `255.0.255.0`, and `255.255.000.0`, are 16 for the console and 24 for the script
  that follows it; a stanza without a netmask leaves the length to ifupdown.
- `install_base_system` copies `/etc/machine-id` of the live system: an image that
  has one, or two installations from one session, give two appliances one identity.
- `postinst:22` deletes the stored password hash at every upgrade.
- What the user types or creates before an answer arrives is replaced by it, on
  every page with a form; on the debug page an older output replaces a newer.
- After a stop of the daemon between status and key (`api_server.cpp:757`) the
  licensing page shows ACTIVE, hides the key's input and sends an empty key: the
  page cannot repair it.
- On the debug page one name, `running`, stands for all buttons: an answer to one
  enables another that still runs.
- A health request that fails leaves the status page without licence until it is
  opened again.

## 8. What is not modelled

- Routes, metrics, DNS and link state of the network scripts: no property needs
  them, and their commands' failures are ignored.
- What health, debug and status endpoints measure and print, the debug log, the
  charts (drawn from random numbers), the header's health line and the titles:
  an answer is good, refused or lost, and nothing depends on more.
- React's double effects of development builds, and the proxy of
  `vite.config.ts`: neither is in the appliance.
- The verify flag of a licence request is part of its address in LicencePage;
  Activation has it. A machine without `/etc/timezone`, where GET answers the
  stored zone, and answers that are no JSON are left out.
- NetworkSync and Provisioning keep a netmask as a value: both converters map the
  33 masks one to one to lengths (`Netmask`). ifupdown's conversion when
  networking restarts is external.
- Activation takes the machine's identity as fixed, as it is wherever
  `/etc/machine-id` exists and once an id stands (`MachineIdentity`).
- Password storage and comparison: logging in is one action of Session.
- The package's users, permissions and certificate; hardening beyond one step;
  build and ISO scripts; the mock server; vendored libraries; placeholder
  directories (`cli`, `config-engine`, `logging`, `common`, `appliance-cli`).
- SQLite, OpenSSL, systemd, dpkg and ifupdown are external and taken to do what
  the code relies on: a statement is atomic, a signature verifies exactly when
  the vendor made it, stopping a unit kills its processes, a second dpkg fails
  on the lock. The database's fallback to `:memory:` when the file cannot be
  opened would make each process its own store, like the split of finding 2.
