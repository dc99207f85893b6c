# IoT-MD in TLA+

TLA+ specifications of IoT-MD, a MicroPython application for ESP32-S3 devices that
connects field devices (Modbus, sensors, switches) to Home Assistant, updates itself
from signed bundles and is administered through a portal of its own.  The repository's
code is the reference; a definition below names the function it stands for, and
`PROJECT.json` gives its lines.

The device is administered from afar and must never become unreachable: an update, a
change of the network, a new certificate or a restore may be interrupted by a loss of
power after any write to flash.  The interleavings of asyncio tasks come second.  The
models follow this order.

Contents: [the system](#1-the-system), [modules](#2-the-modules),
[runs](#3-what-is-checked), [bounds and fairness](#4-bounds-and-fairness),
[exposures](#5-exposures), [proofs](#6-what-is-proved),
[divergences met](#7-where-code-and-documents-differ), [not modelled](#8-what-is-not-modelled),
[plan](#9-plan), [running the tools](#10-running-the-tools).

## 1. The system

One asyncio loop runs everything after boot; there are no threads.  Two pieces of code
interleave only at an `await`.  State that survives a reset is in files (FAT or
littlefs), in NVS, and in the two OTA partitions with ESP-IDF's `otadata`.

| Part | State | Operations | Interacts with | What is hard | Correct when |
|---|---|---|---|---|---|
| Application updater `app_update.py`, `application_storage.py` | transaction record, bundle, two slots, slot record, release sequence, shared `module_settings.json` and its backup | stage, configure, discard, activate, roll back, confirm, manual rollback, reclaim | boot supervisor, portal, console, universal update | loss of power inside any handler, remove-then-rename replacement, uploads over an unfinished transaction | the installed pair (application, settings) changes as a whole and only after a healthy trial |
| Core updater `firmware_update.py` | OTA record, version file, partitions, `otadata` | receive, activate, boot status, confirm, discard | ESP-IDF bootloader, supervisor | record and boot selection are two writes | a fallback exists until a core is confirmed |
| Universal update `universal_update.py` | transaction record naming one release and the components it needs | stage, activate, reconcile, confirm, discard | both updaters | two transactions that end at different boots | core and application match |
| Boot supervisor `recovery_boot.py` | recovery record: mode, count, pending | run, mark healthy, request recovery | everything at boot, watchdog timer | reset loops, counting of unhealthy boots | the device returns to a portal or to the console |
| Health confirmation `services/startup_service.py`, `application/boot_health.py` | none | health gate, confirm core, application, pair | updaters | order of three confirmations | no trial is left undecided |
| Recovery console `wifi_recovery.py` | none of its own | Wi-Fi, uploads, rollback, retry | updaters, credential store | writes without the portal's guards | it can always be left and reached again |
| Upload store `resumable_upload.py` | one session record and payload per identifier | begin, append, complete, handoff, remove | update service | retries, several clients, truncation, full flash | the installer gets exactly the declared bytes |
| Update service `services/update_service.py` | `_installing` | begin, append, complete | store, plan, installers, lock | awaits while it installs | one installer at a time |
| Universal transport `universal_upload.py` | plan in flash | prepare, authorise, mark complete, finalise | store, both updaters | the plan outlives what it was made from | only a signed pair is offered |
| Release check and download `release_update.py`, `update_orchestrator.py` | orchestrator's plan | check, stage, refresh, activate | installers, lock, fleet | three records for one release | a plan ends |
| Credential store `credential_store.py` | NVS: two configuration slots and a selector, trial record, reset flag, setup password | load, save, trial, confirm, roll back, factory reset | supervisor, portal, console, setup | several NVS writes per operation, saves of stale loads | the device keeps a network it can be reached on |
| Certificate transaction `certificate_manager.py` | files, backups, marker | commit, recover | supervisor, enrolment, restore | certificate and key are two files | they belong together |
| Import, restore `iotmd_runtime.py`, `configuration_manager.py` | pending import | preview, apply | store, certificates, modules | one of several writes fails | nothing is lost |
| Setup `setup_wizard.py`, `setup_workflow.py` | wizard state | configure, certificates, provision | store, transports | long awaits between load and save | setup can be finished |
| Enrolment `iot_ca_enrollment.py`, `certificate_enrollment_service.py` | task status, account state | enrol, renew | certificates, store | certificates first, settings later | a renewal is not lost |
| Command broker `message_broker.py` | operations, queue, current | submit, run, complete, time out | API, MQTT, drivers | outcome after timeout, reused identifiers, retention | outcomes are true and final |
| Modbus driver `device_modules/modbus_transport.py` | bus flag, readings | poll, command tasks | UART, slaves, broker | late answers, unfair lock | a value belongs to its register |
| Publish queue `message_broker.py`, MQTT worker, connection and discovery `iotmd_runtime.py`, `services/home_assistant_service.py` | critical list, coalesced state, `up` event, running discoveries | put, get, publish, configure, discover | drivers, `lib/mqtt_as.py`, Home Assistant | overflow, breaks during a configuration, snapshots put after a sleep | the last state of each module is shown, an announced device is subscribed |
| Module configuration `device_modules/validation.py`, `resources.py`, `iotmd_runtime.py` | `module_settings.json`, its backup, reserved hardware, pending import | edit, calibrate, import, restore, read at start | store, drivers, portal | a list that passed the check and stops the start, a preview that is out of date | the device runs the modules stored last, each with hardware of its own |
| MQTT client `lib/mqtt_as.py` | identifiers in flight, ring of received messages, connection | publish, subscribe, acknowledge, keep alive, connect again | worker, broker | late and repeated acknowledgements, silence, a full ring | a call returns when the broker has it, or when it cannot |
| Boiler driver `device_modules/ems.py` | receive buffer, frames, values | interrupt of a break, read loop | UART | an interrupt between two statements of the loop | no value of two telegrams |
| AC voltage driver `device_modules/grove_ac_voltage.py` | factor, last voltage, presence | measure, calibrate | module settings, broker | readings older than the signal or the factor | the factor in force is the saved and the true one |
| Inverter driver `device_modules/whes.py` | register values, energies of the day | poll, add up, publish | Modbus, clock | midnight, wrapping ticks, groups read apart | nothing is counted twice |
| Remote logging `remote_logging.py` | bounded queue | log, deliver | network | removal after an await | no unsent message is dropped uncounted |
| Health, events `runtime_health.py`, `services/event_*.py` | numbered events | record, page, checkpoint | all | numbers reused after a crash | a reader notices gaps |
| Device API `api_security.py`, `device_api*.py` | client registry and its cache | enrol, revoke, restore, connect | portal, events | a save that fails, a file replaced behind the cache | a revoked client stays out |
| Boot state, lifecycle `boot_state.py`, `application/*` | record in RTC and in flash, stage, tasks | begin, stage, checkpoint | supervisor | two copies | the newer copy wins |
| Fleet `fleet_management.py` | policy, completed commands, rollout | apply, execute, record | orchestrator, portal | executed, then recorded | each command once |
| Clock and schedule `timezone_rules.py`, `release_update.py` | last slot | local time, due, window | monitor, fleet | weekends that set the clock | dates get their check, once |
| Portal access `portal_auth.py`, `portal_sessions.py`, `web_portal.py` | users, sessions, tokens | sign in, edit, revoke | portal | awaits in password checks | an administrator remains |
| USB tools `tools/*_usb.py` | none on the host | reseed, stage an application, stage a core | updaters, store, bootloader | the cable or the power lost between two scripts | the device starts and can be set up |
| Pages, views, display, hardware, transports, other drivers | request parsing, pins | render, set, read | all | I/O | - |
| Validation of settings, crypto, codecs, host tools | none | pure functions | all | - | - |

`PROJECT.json` lists each of them with its status.

## 2. The modules

| Module | Role |
|---|---|
| `AtomicRelease` | abstract specification: what an application update promises |
| `AppUpdate` | the application updater write by write; implements `AtomicRelease` |
| `DeviceUpdate` | supervisor, core, application and universal update at the granularity of handlers; its application half implements `AtomicRelease`, too |
| `Settings` | credential store, network trial, certificate transaction, module settings, import, restore, setup, factory reset |
| `Upload` | upload store, update service, universal plan, release download, several browsers |
| `Commands` | command broker and Modbus driver on one bus |
| `Delivery` | publish queue, MQTT worker, configuration of a connection, discovery, with breaks and restarts of Home Assistant |
| `MqttLink` | the MQTT client below `Delivery`: calls, acknowledgements, repeats, the ring, keep-alive |
| `Fleet` | policies, commands, the plan of a release from check to confirmation, restarts |
| `PortalAccess` | accounts, sessions, roles and the requests of several connections |
| `DeviceApi`, `EventHistory` | clients of the API and what they may ask; numbered events, their checkpoints and pages, the remote log |
| `ModuleSettings` | the list of modules from the editor and the imports to the start that runs it |
| `BootState` | the boot record and its two copies |
| `Schedule` | calendar, time zone rules, the daily check and the maintenance window |
| `Enrolment` | certificate methods, renewal monitors and the reload of the listeners |
| `Setup` | the first-boot wizard, several requests at a time |
| `UsbTools` | the three USB tools and the device they work on |
| `EmsDriver`, `AcVoltage`, `WhesEnergy` | three drivers |
| `MC*` | instances for TLC, and sums of components |
| `AppUpdateProofs`, `DeviceUpdateProofs`, `SettingsProofs`, `DeliveryProofs`, `FleetProofs`, `PortalProofs`, `SetupProofs`, `UpkeepProofs` | theorems; `PortalProofs` is about `PortalAccess`, `Upload`, `DeviceApi` and `EventHistory`, `DeliveryProofs` about `Delivery`, `MqttLink` and `Commands`, `SetupProofs` about `Setup`, `AcVoltage`, `WhesEnergy` and `EmsDriver`, `UpkeepProofs` about `BootState`, `Enrolment` and `ModuleSettings` |

*Composition.*  Components that act on each other are in one module: the updaters and the
supervisor in `DeviceUpdate`, the store, the plan and the installers in `Upload`, broker and
bus in `Commands`, queue and connection in `Delivery`, events and log in `EventHistory`,
which `DeviceApi` extends with the clients that read them.  `MCUpkeep`, `MCDrivers`,
`MCDeviceApi` and `MCAppUpdate` are *sums*: components without a common variable, of which
one moves while the others stay in one initial state.  A sum checks each of them as a run of
its own would, at the cost of their states added up; it says nothing of two at once, and
there is nothing to say, because they share nothing.

How state and actions correspond to the code:

**Granularity.**  A handler without an await between its writes is still several actions
when a loss of power between two writes matters: `pc` walks through the writes of one
handler, and no other handler runs meanwhile (`AppUpdate`, `Settings`).  In `DeviceUpdate`
the handlers of the application updater are single actions, because `AppUpdate` has
looked inside them; the pairs of writes of the core updater (boot selection and record,
mark and record) are apart.  In `Upload` a request is an action whose writes are a
sequence of store values, and `PowerLoss` may stop it after any of them.  In `Commands`
an action is what happens between two awaits.

**AppUpdate.**  `txn` is `.app-update-state.json`, `slot` the two directories under
`.app-slots`, reduced to three parts (the entry file, the rest, the integrity list),
because these are what the code tells apart; `chosen`, `seq` the slot record, `relSeq`
the sequence file, `shared` and `backup` the module settings.  `Stage` … `DropState` are
`receive_bundle`, `stage_bundle`, `configure_pending`, `discard`; `BootActivate` …
`BeginTrial` are `activate_pending`; `Rb*` are `rollback_update`; `Confirm`, `Commit*`
are `confirm_update` and `_finish_commit`.  `TearTransaction` and its kin are a loss of
power between the remove and the rename of `_replace_file`; the boot's cleanup then
deletes the temporary file.

**DeviceUpdate.**  `boot` is `otadata`, `fw`, `app`, `uni`, `recovery` are the records.
`Bootloader` is external, from ESP-IDF's rollback states as the code uses them.
`Reconcile` to `StartApplication` are `recovery_boot.run`; `ConfirmCore` to `MarkHealthy`
are `StartupService.confirm_updates`; requests come from portal or console.

**Settings.**  A configuration is its network and its `provisioned` mark, all that boot
and trial look at.  `WriteBlob` and `Select` are `save`; `WriteTrial`, `ClearTrial` the
trial record; `BackUp` to `Clean` are `commit_certificate_files` and its recovery, over
the two files certificate and key; `DropModules` to `PlaceModules` are
`commit_file_with_backup`.

**Upload.**  `meta`, `part` are the store's files, `plan`, `uni`, `comp` the records of
plan, pair and components.  An upload page is a sequence of requests (`tab`); a page or
another client may use any identifier.

**Commands.**  `ops` are the operations, `table` and `order` the two containers that the
code retains them in.  `task` is a driver task, `line` and `rx` what the slaves and the
UART hold (external).

**Delivery.**  `critical` and `states` are the queue's containers, `hand` the message the
worker awaits, `conf` and `disc` the positions of the configuring task and of the running
discoveries, `upEvent` is `client.up`.  `ReadsModule` and `PutsModule` are the two halves
of the loop in `publish_discovery`, before and after its sleep.  `Break`, `Lost` and
`Unacked` are what `lib/mqtt_as.py` and a socket do to the message in hand.  `subs`,
`avail`, `seen`, `kept` are the broker and Home Assistant (external); `avail` is the number
of the connection on which the pass began that announced the device.

**MqttLink.**  `Worker` and `Subscriber` are the callers, `pids` the identifiers
`rcv_pids`; the ring of size n holds n - 1.  The bytes of a packet are left out.

**Fleet.**  A policy is a sequence of commands; `monitor` is the task of
`iotmd_runtime.py` that carries them out: `list` and `todo` are what its loop goes through
(the commands that were pending when the round began, in the order of the policy of then),
`command` is the loop's variable.  `job` is each caller's check or download at its awaits,
`plan` the orchestrator's file.

**PortalAccess.**  `reading` is what a request has read at its last await: the session it
found, the account whose password is hashed.  Whose a session is, with which password and
how long it has really been idle are histories.

**DeviceApi, EventHistory.**  `cache` is the registry in memory and `file` what is
stored, which are apart since a save may fail; a
crash may come at any point of a checkpoint.

**ModuleSettings.**  A list of modules is a sequence of records of what matters to the
start: whether it is packaged, listed and has entities, what it claims, touches and asks for.

**BootState, Schedule.**  A boot passes the stages of `recovery_boot.run` and `main`; the
local clock is a wall clock that somebody puts forward and back by the rule of the zone,
compared with the arithmetic of the code at every half hour.

**Enrolment, Setup.**  A handler or task is cut where it awaits: an enrolment and a renewal
have everything decided before they await the network, and install it afterwards.  A set of
files is installed in one step (`Settings` has its crashes).  In `Setup` the portal's
certificate and its key each have an origin: who makes a pair replaces both, `/certificate`
(`WritesFile`) replaces one, at any time, and a pair loads when both are of one origin.

**UsbTools.**  The scripts that a tool has the device execute are sequences of steps of one
write each; `Boots` and `Starts` are what the device does at every reset between them.

**EmsDriver.**  A telegram is its head, its tail and the byte of the break; the interrupt's
handler may run between any two statements of the loop that touch the buffer.

**AcVoltage, WhesEnergy.**  A voltage is an exact fraction; the energies are the integrals
the code computes, between bounds of what the installation really used.

Definitions that begin with a comment "Mutant" are never used by the specification.  Each
is a plausible bug of the definition that follows; substituting it must violate a
property, which shows that the property depends on that piece of code.

## 3. What is checked

| Run | Module | Properties | States | What it shows |
|---|---|---|---|---|
| `app_update` | `MCAppUpdate` | `UpdateIsAtomic` `ActiveSlotUntouched` `OnlyWholeAndNewer` `UsbHolds` | 1.81 M | interrupted anywhere, an application update is whole or absent; a device cut off under a USB tool starts, and is provisioned or can be |
| `device_update` | `MCDeviceUpdate` | `ResetIsSafe` `NoOrphanedComponent` `Recovers` | 109,138 | core and application stay compatible, the device returns to portal or console, trials end |
| `settings` | `MCSettings` | `WithinReach` `PairMatches` `ResetIsComplete` `KeepsConfiguration` `ComesBack` | 347,482 | settings survive every single loss of power; a network trial is decided |
| `upload` | `MCUpload` | `StoreIsSound` `OwnerServed` | 380,960 | competing clients, retries, losses: installers get whole artifacts, pairs match, the owner is served |
| `drivers` | `MCDrivers` | `ReadsTheBus` `OutcomesStand` `Answered` `VoltageHolds` `EnergyHolds` | 996,597 | outcomes of commands are true, final and come; a boiler's values are of one telegram; a voltage is by the saved and true factor; energies are the day's |
| `delivery` | `MCDelivery` | `OnlineMeansSubscribed` `Fresh` `Settles` | 620,832 | no message but an out-of-date snapshot goes back in time; after breaks the device is connected, subscribed, announced and its last states shown, or known to be missing |
| `fleet` | `MCFleet` | `ApplicationHasItsCore` `AsAsked` `Completes` | 147,534 | commands are carried out once and get a result, what the channel offers ends up installed |
| `portal` | `MCPortal` | `AdminRemains` `SessionsHold` | 180,170 | an administrator remains; requests act only for accounts that may |
| `api` | `MCDeviceApi` | `HistoryKept` `AccessHolds` `RunsAsConfigured` `AppliesWhatIsAsked` `NobodyWaitsForever` `LinkIsTrue` | 784,922 | a reader notices every gap, a revoked client stays out; the device runs the modules stored last; the MQTT client waits for nothing that cannot come |
| `upkeep` | `MCUpkeep` | `Remembers` `ClockHolds` `KeepsChoice` `IdentityLasts` | 215,457 | boot record, local clock and certificates over years |
| `setup` | `MCSetup` | `SetUp` `Reachable` `Ends` | 410,647 | first-boot setup can be finished, by requests in any order |
| `modules_start` | `MCModules` | `SavedStarts` (violated) | - | a list of modules that was checked and stored keeps the application from starting |

`TypeOK`, `SlotPointers` of `AppUpdate` and `AppIsAtomic` of `DeviceUpdate` are proved for
every instance (section 6), so no run repeats them.

Refinements.  `UpdateIsAtomic` maps the files of `AppUpdate` to `AtomicRelease`: what is
installed is what a boot would end up with, so the mapping reads the transaction record
(while it is `committing` the target slot counts as installed, while it is `activating` or
on `trial` the settings in the backup do).  `AppIsAtomic` maps `DeviceUpdate`'s record of
the application to the same specification.

## 4. Bounds and fairness

| Constant | Value | Why it is enough |
|---|---|---|
| `MaxRelease` (updates) | 3 | the delivered release and two updates: an update replaces an update, and a second is staged over the first; slots are reused from the second update on |
| `MinCore` | `MCMinCore` | application 3 needs core 3, so a core that falls back under it is noticed; 2 runs on 1 |
| `MaxLosses` (device, settings) | 2, 1 | a loss while the consequences of one are handled; one loss inside any handler and any sequence of handlers afterwards |
| `MaxRuns`, `MaxCuts` (USB) | 2, 2 | a tool run again after it was cut off, or another one after it |
| `Net`, `MaxPair` (settings) | 3, 1 | a working network, another, and one that does not lead to the portal; two generations of a pair to mix up |
| `Tab`, `Id` | 2, 2 | the owner and one other client, sessions of both components; identifiers may collide |
| `Size`, `MaxTries`, `MaxFaults` (upload) | 2, 2, 1 | one chunk acknowledged and one to come; two disturbances by others, one fault anywhere |
| `QueueLimit`, `OperationLimit` | 1, 2 | the code has 16 and 32; only their order matters, and small ones are reached |
| `MaxCommands`, `MaxLine` | 3, 1 | an operation running, one queued, one forgotten |
| `MaxTelegrams`, `FrameLimit`, `BufferLimit` | 3, 1, 6 | a telegram between two others, a frame that makes room for another; two whole telegrams in the buffer |
| `Level`, `Gain`, `MaxCalibrations` | 0..3, 2, 2 | levels below, in and above the band of the hysteresis; a second calibration on the first |
| `Period`, `MaxTicks`, `Days`, `MaxTroubles` (inverter) | 6, 4, 2, 2 | an interval of half a period; the same day again after another; a failed read and a restart |
| `Devices`, `CriticalLimit`, `StateLimit` | 1, 2, 1 | the code has limits of 96 and 64; one module already has two places in the queue, its driver's and a discovery's, and both limits overflow |
| `MaxValue`, `MaxFaults`, `MaxBirths` (delivery) | 2, 1, 2 | an older and a newer state; a break in any step; a restart of Home Assistant while the refresh for another runs |
| `RingSize`, `MaxMessages`, `MaxTroubles` (MQTT client) | 2, 2, 2 | a ring that is full with one message; two publishes in flight beside a subscription; a break while the consequences of one last |
| `Policies`, `CompletedLimit`, `MaxRelease` (fleet) | 3, 2, 2 | policies that keep, withdraw and repeat a command; the code keeps 64 completed commands of policies of at most 16, here it is 2 of policies of 2, so that one in force can be forgotten |
| `Name`, `MaxSessions`, `Connection`, `MaxRequests` | 2, 2, 2, 4 | two administrators against each other; a session evicted by another; a request begun before and ended after another one. Connections are symmetric: no property tells them apart |
| `Timeout`, `Period` (portal) | 1, 4 | sessions that expire, and a clock that wraps |
| `MaxEvents`, `PageLimit`, `Changes` (events) | 2, 1, 2 | a history that forgets, pages that take turns with it, a change that is not yet saved |
| `Client`, `MaxClients`, `MaxSteps` | 2, 1, 4 | a revoked client and another in its place |
| `Plan`, `MaxSaves` (modules) | 8, 2 | one list for each way in which a start may differ from the check; a list stored over one that is about to be applied |
| `MaxBoots`, `MaxFaults` (boot) | 5, 2 | a cleared record and four boots after it; both copies fail |
| `Starts`, `Horizon` | 11, 104 half hours | two days around each change of the clock in six zones, of all four rule families and two hemispheres; a leap day, a year of no leap, a new year |
| `MaxChanges`, `MaxAges`, `MaxCrashes` | 3, 3, 2 | a method changed while a renewal of another is under way, and changed back |
| `Conn`, `MaxRequests`, `MaxConfigures` (setup) | 2, 4, 2 | a request that awaits while another ends; a configuration entered again; setup that is resumed in each certificate mode, with three requests left: certificate, key, install |
| `BoundedExposure`, `FewGaps` | | a behaviour ends when several exposures have happened |

Histories (`exposed`, `losses`, `proven`, `executed`, `least`, `hit` and others that their
module says are one) are never read by a guard of the code they watch; `losses`, `tries`,
`faults` bound the environment.

Fairness.  Straight-line code is weakly fair: the supervisor, the writes of a handler, the
installer, the broker's loop, a task between two awaits.  `Reconcile` (strong): a device
whose capability check fails at every boot is broken hardware.  `Deadline` and the time-outs
of guard, console and broker are timers.  Their weak fairness in `DeviceUpdate` is for a timer
that stays armed; the strong fairness of the guard and of the console's end in `Settings` says
that requests do not hold a timer up.  In `Upload` the requests a browser has made are served,
and the owner, who retries for ever, gets its request in between those of others (strong).  In
`Delivery` the worker, the tasks and the discoveries go on and a lost connection comes back
(strictly, `_keep_connected` catches `OSError` only, so a `ValueError` of TLS would end it);
breaks, failures and readings need not happen.  In `Fleet` the monitor, boots and the callers
of a download move on, and a channel that is asked again and again answers in the end (strong:
check, opening, download, and a trial boot that is healthy); in `Enrolment` the same is said of
a certificate authority that is asked again by a monitor that runs.  In `Setup` handlers and
tasks go on.  An application need not get healthy, an administrator need not act, a slave need
not answer, and nobody is promised the bus: `_acquire_bus` polls a flag.  `AppUpdate`,
`PortalAccess`, `DeviceApi`, `ModuleSettings`, `MqttLink`, `BootState`, `Schedule`, `UsbTools`,
`EmsDriver`, `AcVoltage` and `WhesEnergy` state no fairness and have safety properties only.
`CHECK_DEADLOCK FALSE` is set where the system rests with the model's bounds used up.

## 5. Exposures

The code has windows it does not cover.  A specification records such an event in
`exposed` when it happens; `Excused` lists the ones after which a run expects nothing.
A property is thus checked for every behaviour up to the first exposure, and each exposure
is an explicit assumption.

| Module | Exposure | Event | Consequence |
|---|---|---|---|
| AppUpdate | `torn` | power lost between remove and rename of the record or of the slot record | the transaction or the selection is forgotten |
| | `overwritten` | a bundle staged while a transaction is activating, on trial or committing | its rollback is lost |
| | `mismatched` | the bundle replaced, its record not | the record speaks of another bundle |
| | `unconfirmed slot` | manual rollback to a slot that is not whole or was never confirmed | only its entry file is looked at |
| | `commit undone` | a failed commit rolled back | half of the commit stays |
| DeviceUpdate | `unrecorded` | a core boots on trial and no record says so | the application is activated against a core that may be rolled back |
| | `halfConfirmed` | a core marked valid, its record still on trial | failures of the application clear the count of unhealthy boots for ever |
| | `fallback` | an upload into the partition a trial would return to | no way back |
| | `unmarked` | `mark_app_valid_cancel_rollback` fails | the confirmed application meets the old core |
| Settings | `early` | a sign-in during the seconds between save and restart | the trial is confirmed over the old network |
| | `chained` | a trial begun on a network nobody was served over | its rollback leads to an unproven network |
| | `unguarded` | restore, console and setup save a network without a trial | nothing goes back |
| | `stale` | settings saved from `load()` while the active slot is older than the provisioned one | the provisioned configuration is overwritten |
| Upload | `missing` | power lost while a payload is copied to its acknowledged length | the session stays, its payload does not, and `begin` refuses |
| | `planLost` | power lost while the plan is rewritten | the plan is gone, its components stay |
| | `booted` | a component of the plan activated before the plan is finalised | the plan is out of date |
| | `replaced` | a component of a finalised pair staged over | the pair does not match until the next reconciliation |
| | `overTrial` | a component staged while it is on trial | `fallback`, `overwritten` |
| Commands | `reused` | a `request_id` submitted again while its operation is unsettled (MQTT QoS 1 redelivery) | two operations share an entry |
| | `late` | the driver goes on with an operation the broker has given up | its effect and its answer come after `failed` |
| | `slow` | a request sent while a slave still holds an older one | the late answer can fit the newer request |
| UsbTools | `keyless` | power lost between the erasure of the keys and the commit of the new ones | neither setup nor application starts |
| | `leftover` | reseeding ends after the commit and before the last file is removed | setup goes on over files of before |
| | `fell back` | the new core is reset before the tool has marked it valid | the tool goes on with the old one: it does not look at which partition runs |
| | `early` | a tool run with `--activate` | see section 7 |
| EmsDriver | none | | |
| AcVoltage | `mistyped` | any number is accepted for the meter's, zero, too | a factor of zero cannot be calibrated any more |
| | `moved` | the signal moved since the reading | the factor is wrong by as much |
| | `compounded` | a second calibration before the next reading | the factor is scaled twice |
| | `offset` | an offset is configured | the formula scales it with the rest |
| | `unsaved` | a calibration by command | it ends with the next restart |
| | `overwritten` | an editor's page from before the calibration is saved | the next start has the old factor |
| WhesEnergy | `zeroed` | a group did not answer | its power is taken to be zero, and published |
| | `stale` | another error of one group while the other is read | an old power counts for the interval |
| | `mixed` | power changes between the reads of two groups | the power of the home is of neither moment |
| | `wrapped` | no publication for half a period of `ticks_ms` | the interval counts as nothing, or as a shorter one |
| | `set back` | the clock is set to the day of the last publication again | the energies go on instead of beginning again |
| Fleet | `stale` | a policy or a result that comes while the monitor awaits withdraws a command on its list | it is carried out, and its record fails |
| | `torn` | power lost while the state is replaced | the state begins again |
| | `forgotten` | the list of completed commands, at its limit, loses one that is in force | it is pending again, and carried out again |
| PortalAccess | `kept` | an account disabled or removed while it is signed in | its sessions stay (section 7) |
| | `late` | an account edited while a request of it is read or its password hashed | the request acts by what it found |
| | `wrapped` | the clock wraps while somebody is signed in | sessions look younger than they are |
| DeviceApi | `unsaved` | the registry could not be saved | memory and file differ until the restart |
| | `overwritten` | a backup replaces the file behind the cache | the same |
| EventHistory | `reused` | a crash takes the numbering back behind a cursor | numbers are given twice |
| | `cleared` | the history is cleared while a reader holds a cursor | no gap is reported |
| | `torn` | power lost between remove and rename | the history is empty |
| ModuleSettings | `undeclared` | a driver uses default pins that are not reserved | two modules share hardware |
| | `incomplete` | a list without `entities` | the application does not start (run `modules_start`) |
| | `stale` | an import is applied to modules that changed since its preview | the change is lost |
| | `wrapped` | a preview is so old that the counter of its age has wrapped | it is applied all the same |
| | `halfway` | a restore fails after its modules are in place | they run from the next start although it was reported to have failed |
| | `unreadable` | the previous list cannot be copied back | the device starts without modules |
| BootState | `lost` | a checkpoint reached no copy, or only the one that was lost | the count of failures is behind |
| | `stale` | a copy with higher numbers could not be removed | it wins over the record that begins again |
| Enrolment | `between` | power lost, or the store fails, after an identity is installed and before its method is saved | settings speak of another one |
| | `overtaken` | a renewal begun for one enrolment installed over a later one | the older comes back |
| | `unwatched` | a certificate of the present method is of age and its monitor does not run | nobody renews it |
| | `unscheduled` | a reload that waits makes the next call raise | the other listener serves the old identity |
| | `postponed` | an upload changes outbound trust as well | nothing is reloaded until a restart |
| Setup | `stale` | a request that awaited an application saves the configuration it had read before | a later one is lost |
| | `orphaned` | the answer to an enrolment request fails | its task is not created, its status says "running" |
| | `superseded` | an enrolment ends after its configuration was replaced | the certificate is of the older one |
| | `halfway` | an ACME certificate is installed, its trust anchor is not | settings of another method |
| | `loose` | a single certificate file written after the selection was validated | pair and settings differ |
| | `unfinished` | a configuration entered between the end of setup and the restart | neither provisioned nor a password: `_run_initial_setup` refuses to start |
| | `waiting` | the answer that setup is finished fails | no restart |
| | `cut off` | a handler that cannot join switches the station off while the access point is off | the device is not reached until it restarts |

`MqttLink` and `Schedule` need no exposure.  `MqttLink` says instead what it takes for
granted: the broker grants a subscription (a refused one is asked for again by connecting
again, for ever); an identifier does not come round, after 65,535 calls, while a packet with
it is still under way on the same connection; and a caller notices a cleared identifier, for
which it looks every 100 ms, before the next connection is made, which takes seconds.

In `Delivery` the history `behind` plays this part; its events are in `Receive`,
`PutCritical`, `PutState`, `PublishFails` and `Refreshes`:

| Module | Exposure | Event | Consequence |
|---|---|---|---|
| Delivery | snapshot | a driver publishes during the sleep of a discovery | the older snapshot replaces or follows the newer state, until the next reading |
| | two places | states are retained or have QoS 1, snapshots neither | the two are not coalesced, and the older may be sent last |
| | empty | a driver fails in a discovery | an empty state is published |
| | dropped, failed | a full queue, an error other than a lost connection | the message is counted, not repeated |
| | refused | Home Assistant restarts while the refresh for its last restart runs | modules the refresh has passed stay unknown until their next state |
| | carried | an announcement queued on an earlier connection is sent on this one | the device is shown as available before it is subscribed again (`avail # epoch`) |
| | given up | the first connection fails | no MQTT until the device restarts (`phase = "failed"`) |

## 6. What is proved

`tlapm` checks the following for every value of the constants that satisfies the named
assumptions of the modules (`MaxReleaseAssumption`, `MinCoreAssumption`,
`MaxLossesAssumption` of the updates; `NetAssumption`, `BoundsAssumption` of `Settings`;
`DevicesAssumption`, `LimitAssumption`, `ModeAssumption`, `BoundAssumption` of the delivery;
`CommandAssumption`, `QueueAssumption` of `Commands`; `PolicyAssumption`, `BoundAssumption` of
`Fleet`; `VoltageAssumption`, `WhesAssumption`, `EmsAssumption` of the drivers;
`AccessAssumption`, `BootAssumption`, `EnrolmentAssumption`, `SetupAssumption`;
`PlanAssumption`, `ModBounds` of `ModuleSettings`; `ApiAssumption` of `DeviceApi`,
`HistoryAssumption` of `EventHistory`; `CallersAssumption`, `RingAssumption` of
`MqttLink`; `TabAssumption`, `IdAssumption`, `SizeAssumption`, `ReleaseAssumption` of `Upload`), and of `ReadsTheBus` that the driver's buffer holds at least three parts, which is a
telegram with its break: the code has 128 bytes (`ems.py`) where a telegram has 32.  There is
no other assumption.  So the theorems hold for any number of releases, losses of power,
networks, handlers, accounts, uploads, commands, telegrams or boots, where a run has two or
three.

Where the third column says *excused*, the theorem assumes of the constant `Excused`
(`BootExcused` of the boot record, `PortalExcused` of the sessions, `ApiExcused` of the API) that it
has the exposures of section 5, as every run does: it then says that what is promised holds
until one of them happens.  It is a statement about all behaviours, those with an exposure
included, since the properties themselves name what is excused.

| Theorem | Statement | Under |
|---|---|---|
| `AppUpdateProofs!TypeCorrect` | `Spec => []TypeOK` | |
| `AppUpdateProofs!SlotPointersHold` | `Spec => []SlotPointers` | |
| `AppUpdateProofs!ActiveSlotSafe` | `Spec => ActiveSlotUntouched` | |
| `AppUpdateProofs!UpdateIsAtomicHolds` | `Spec => UpdateIsAtomic` (refines `AtomicRelease`) | *excused*: `Uncovered` |
| `AppUpdateProofs!OnlyWholeAndNewerHolds` | `Spec => OnlyWholeAndNewer` | *excused* |
| `DeviceUpdateProofs!TypeCorrect` | `Spec => []TypeOK` | |
| `DeviceUpdateProofs!AppIsAtomicHolds` | `Spec => AppIsAtomic` (refines `AtomicRelease`) | |
| `DeviceUpdateProofs!ResetIsSafeHolds` | `Spec => []ResetIsSafe` | *excused* |
| `DeviceUpdateProofs!NoOrphanedComponentHolds` | `Spec => NoOrphanedComponent` | *excused* |
| `SettingsProofs!PairMatchesHolds` | `Spec => []PairMatches` | |
| `SettingsProofs!WithinReachHolds` | `Spec => []WithinReach` | *excused* |
| `SettingsProofs!ResetIsCompleteHolds` | `Spec => ResetIsComplete` | |
| `SettingsProofs!KeepsConfigurationHolds` | `Spec => KeepsConfiguration` | *excused* |
| `DeliveryProofs!TypeCorrect` | `Spec => []TypeOK` | |
| `DeliveryProofs!OnlineMeansSubscribedHolds` | `Spec => []OnlineMeansSubscribed` | |
| `DeliveryProofs!FreshHolds` | `Spec => Fresh` | |
| `DeliveryProofs!LinkIsTrueThroughout` | `LinkSpec => LinkIsTrue` | |
| `DeliveryProofs!OutcomesStandHolds` | `CommandSpec => OutcomesStand` | *excused*: all |
| `FleetProofs!ApplicationHasItsCoreHolds` | `Spec => []ApplicationHasItsCore` | |
| `FleetProofs!CoreOnlyAskedHolds` | `Spec => CoreOnlyAsked` (a part of `AsAsked`) | |
| `FleetProofs!AsAskedHolds` | `Spec => AsAsked` | *excused*: `torn`, `forgotten` |
| `PortalProofs!AdminRemainsHolds` | `PortalSpec => []AdminRemains` | |
| `PortalProofs!SessionsHoldThroughout` | `PortalSpec => SessionsHold` | *excused*: all |
| `PortalProofs!StoreIsSoundHolds` | `Spec => []StoreIsSound` of `Upload` | *excused*: `missing`, `planLost`, `replaced` |
| `PortalProofs!AccessHoldsThroughout` | `ApiSpec => AccessHolds` | *excused*: `unsaved`, `overwritten` |
| `PortalProofs!HistoryKeptHolds` | `ApiSpec => []HistoryKept` | *excused*: `cleared`, `reused` |
| `SetupProofs!SetUpHolds` | `Spec => []SetUp` | *excused* |
| `SetupProofs!ReachableHolds` | `Spec => []Reachable` | *excused* |
| `SetupProofs!VoltageHoldsThroughout` | `AcSpec => VoltageHolds` | |
| `SetupProofs!EnergyHoldsThroughout` | `WhesSpec => EnergyHolds` | |
| `SetupProofs!ReadsTheBusHolds` | `EmsSpec => []ReadsTheBus` | a buffer of three parts |
| `UpkeepProofs!RemembersHolds` | `BootSpec => []Remembers` | *excused*: `lost`, `stale` |
| `UpkeepProofs!TypeCorrect` | `Spec => []TypeOK` of `Enrolment` | |
| `UpkeepProofs!KeepsChoiceHolds` | `Spec => []KeepsChoice` | *excused*: `between`, `overtaken` |
| `UpkeepProofs!RunsAsConfiguredHolds` | `ModSpec => []RunsAsConfigured` | |
| `UpkeepProofs!AppliesWhatIsAskedHolds` | `ModSpec => AppliesWhatIsAsked` | |

*Slot pointers.*  `IInv == TypeOK /\ SlotPointers /\ ManualPointer`.  That the slot record
names a slot that can boot is needed to know that the slot activation and reclaiming empty
is another one: `ActiveSlot` follows the record only while the named slot has its entry
file.  So `SlotPointers` carries, beside that, that no step of a transaction that writes
to or empties its target has the target selected, and that the target differs from the
slot to return to; `ManualPointer` adds that a manual rollback has selected a slot when it
writes the sequence.  Every step that removes a file preserves the entry file of the
selected slot by these facts, and `ActiveSlotUntouched` follows from the same invariant.

*Refinement of the application updater.*  `RInv` adds to `IInv` what connects the slots, the
record and the files between two writes.  `Table` lists for each step of the program the
states the record may be in; `Recorded` says what each state of the record means for the slot
it names; `Filed`, `Saved` and `Placed` say where the files and the settings of the two
releases are while they are moved.  With these every step is `Try`, `Keep`, `Abandon`,
`SwitchBack` or `Forget` of `AtomicRelease`, or a stutter.  `WholeOnes` (a slot that can be
selected is sealed, and complete) and `Numbered` (a staged release is newer than the one that
runs) give `OnlyWholeAndNewer`.

*Refinement of the device.*  `IInv == TypeOK /\ RecordAndStep /\ Running`.
`RecordAndStep` says that a record that is not idle names a release, that a trial has no
other generation to return to than the installed one, and that the record agrees with the
step where the record is written next (`activating`, `commitApp`); without it a commit
could install release 0, and a rollback could lose a generation that the abstract
specification keeps.  `Running` says that a core runs unless the power is off.  With it
each action maps to `Try`, `Keep`, `Abandon`, `SwitchBack`, `Forget` or a stutter.

*A reset during a core update.*  `CoreInv == IInv /\ Paced /\ (exposed = {} => Covered)`.
`Covered` has four parts: whichever partition a reset selects holds a core that the installed
application can run with (`Selected`), one that is written or marked is newer than the one it
replaces (`Uploaded`, `Marked`), and a release that waits suits the core it was staged for
(`Suited`).  A good core is only ever replaced by a newer one, so nothing that suited ceases
to.  `Paced` ties the records of the two updaters and the coordinator to the step of the boot
that reads them, which is what keeps a component from being left behind by its transaction.

*Settings.*  `IInv == TypeOK /\ Paired /\ Wiped /\ Handled /\ Keyed /\ Moved /\ (exposed = {}
=> Guarded)`.  `Paired` is the certificate transaction: while its marker is open the backups
say what to go back to, and each loop leaves behind it the files it has to, so the marker
never closes over a mixed pair.  `Wiped` says the same of a factory reset, which is armed
until its last step and leaves each place it has passed empty.  `Handled` and `Keyed` say
what a handler carries from step to step; a save writes the slot that is not selected, so a
loss between the two leaves what was there.  `Moved` follows the module settings through the
three renames.  `Guarded` is about networks: what is selected can be joined, or a trial that
remembers one that can is armed, and the rollback finds it.

*Announcement.*  `IInv == TypeOK /\ Positions /\ Connections /\ Announcements /\ Pass /\
OnlineMeansSubscribed`.  The announcement waits in the critical queue, or in the worker's
hand, while connections come and go, so the property needs to know which pass each waiting
announcement belongs to: a message carries the number of the connection its pass began on.
`Pass` says that a pass that is still on its own connection has subscribed every topic
before the one it is at, and all of them when it announces.  `Announcements` says the same
of each announcement that waits: none carries a number above the present one, and one that
carries the present number finds everything subscribed.  `Connections` ties the numbers to
the breaks, so that a new connection, which starts with no subscription, has a number that
no waiting announcement carries.  `Positions` keeps each task that works at a module or a
topic.  Each action then disturbs one or two of the parts, and taking or adding a message
keeps what is said of all messages of a sequence (`TailFacts`, `AppendFacts`).

*No message goes back in time.*  `FreshInv == Contents /\ Readings /\ Placed /\ Sorted`: what
waits of a module in the queue and in the worker's hand is in the order it was read, with at
most one coalesced state in its place, and nothing that waits is older than what the broker has,
unless a discovery's snapshot was out of date when it was put (`behind`).  A dropped, failed or
repeated message only takes something out of that order, or sends again what was sent last.

*Commands.*  `CommandInv == Recorded /\ Wired /\ Turns /\ OneOnTheBus /\ (exposed = {} =>
Unexposed)`.  `Turns` and `OneOnTheBus` hold whatever happens: commands are taken in the order of
their submission, and `_bus_busy` is held by one of the poll loop and the tasks.  Until an
exposure, an entry of the table is that of its own operation, the request on the bus is that of
the task that holds it and so is the answer (`OwnBus`), and a status that is final was reached by
what the slave did (`TrueOutcome`).  Each of the three exposures breaks one link of this chain:
the entry, the one operation, the answer.

*The MQTT client.*  `LinkInv == Linked /\ Ringed /\ Calling /\ Outgoing /\ Incoming`.  `Calling`
is what an acknowledgement means: an identifier that is no longer awaited is that of a call
that has achieved what it is about.  For that, `Outgoing` says of each packet on its way to the
broker that carries the identifier of a call that it is that call's, and that messages leave in
the order they were made; `Incoming` says that an acknowledgement arrives after what it
acknowledges was done, and that what the broker publishes comes after all that the ring holds.
Each call has an identifier of its own (`EntersKeeps`; section 5 says what that takes for
granted), so a late acknowledgement is never another call's.
`Ringed` keeps the ring in the order of the broker; the lemmas before it (`PutInRingFacts`,
`TakeFromRingFacts`) show of the two indices modulo the size of the ring that they implement a
sequence of at most `RingSize - 1` messages.

*Fleet.*  `Suiting`: the installed application, the previous one, the staged one and the one
a caller is writing all run with the installed core, and a staged core is newer than it.
Compatibility is checked once, when a release is opened; a core that is replaced afterwards
is replaced by a newer one, so the check stays good however long the release waits.
`OnceInv`: what was carried out is of the policy in force, its result is stored or the monitor
is at it, and none of it is due on the list of the round.  The list is older than the policy when
one came while the monitor awaited; that a command is on it once is what keeps it from being
carried out twice then.

*Accounts.*  `AdminRemains` is inductive with the types: an edit that
`removes_last_administrator` lets through leaves somebody else, or the edited account goes on
administering (`NotTheLast`).  What makes it more than one guard is that requests wait
between the check of who sent them and the edit; the check of the last administrator is on
the other side of that wait.

*Sessions.*  `SessionInv == IInv /\ Tables /\ Signed`.  `Signed` says, until an exposure, that
what a session says of its account fits (`Fits`: the account is there, enabled, with that role
and password) and so does what a request that is being read took from its session; that a
session has not been idle for longer than the clock shows (`Fresh`), which holds until the
clock wraps; and that a request which goes on to hash a
password was allowed to (`Admitted`).  Each handler then changes an account and the sessions
that speak of it in one step (`EditKeeps`, `RemoveKeeps`, `PasswordKeeps`), or leaves a request
under way that speaks of it, which is the exposure `late`.

*Uploads.*  `UploadInv == UploadTypes /\ Shelf /\ HandedWhole /\ WrittenCore /\ Paired`.  An
operation of the store is a sequence of values, and power may be lost at each, so `Shelf` is
proved of all of them: at every value there is one payload at most, and the payload of a
session holds what that session acknowledged, or is gone and that shows (`Safe`).  What
`begin`, `append`, `complete`, `handoff`, `remove` and the reconciliation write is built from
a few pieces, each `Within` the value it starts from.  `HandedWhole` rests
on `complete`, which verifies every chunk, and on `handoff`, which removes the session before
the installer has its payload, so that no client can go on writing to it.  `WrittenCore` keeps
a core that is being written from being one that is ready, and `Paired` says that a plan's components which are ready are of its
release, though each is staged by a request of its own.

*Clients of the API.*  `AccessInv == Registering /\ Barred /\ AccessAsTold`.  `Barred` says of
a client whose revocation was confirmed that neither the registry in memory nor the file lets
it in: a restart reads the one into the other, so either alone would not do.  It needs no
exposure; what the owner was told of everybody else does.

*Events.*  `HistoryInv` speaks of the device while it runs (`Kept`) and of the file while it is
down (`Asleep`).  Both say that the events are a run of consecutive numbers which ends at the
newest (`Follows`, with an authentic count of what was dropped), that what a reader is owed is
beyond its cursor or a page will show it a gap (`Owing`), and that a forced event is in the file
or was displaced by later ones (`OnFile`, `Known`).  A crash takes the memory back to the file;
what was numbered since is lost, which is `reused` when a reader has seen it.  `LogInv` says of
the queue of the remote log that what it holds is the newest of the messages, in order.

*Voltage.*  `VoltageInv`: until an exposure the factor is the first or the true one and is the
saved one, and a voltage was measured by a level and such a factor (`MeasuredBy`).  A calibration
then divides by the factor it multiplies with, so that it lands on the true one exactly.

*Energies.*  `EnergyInv == Reading /\ Extremes /\ (WhesPromised => OnePower /\ Adding)`.  A round
in which nothing went wrong has read one power (`OnePower`); the bounds of an interval are flows of
powers that there were (`Extremes`), so the power that was read lies between them, and a
product with the time, which the counter's difference gives as long as it has not wrapped
(`TicksDiffFacts`), lies between theirs.  `Adding` carries this from interval to interval.

*The boiler's bus.*  `BusInv == EmsTyped /\ Late /\ Coming /\ Queued /\ Somewhere /\ ValuesAreReal
/\ Showing`.  The interrupt cannot know where a telegram ends, and the loop takes the buffer
away between two of its parts; so `Coming` says what the driver has in hand: of a telegram to
which nothing happened all parts that were sent, and only those, and otherwise only parts of
telegrams that may be lost, for which `Late` follows the breaks.  A telegram that comes after a
lost one finds the driver empty, since a late break ends what is left of the lost one.  `Queued`
says that frames wait in the order of the bus, so values do not go back, and `Somewhere` that a
telegram that may not be lost is in hand or in a frame, was decoded, or made room for a later one.

*Boot record.*  `BootInv` says that the newer of two copies is the record in memory
(`Latest`), that it counts each boot that did not end well once (`Counted`), that what was
written durably is in the file (`Durable`), and that a confirmed boot has none open
(`Finishes`).

*Certificates.*  `Choice` says for each place where a change waits - the settings, a task, a
renewal, a listener - that it is not older than the identity the portal was last asked to use.

*First-boot setup.*  `IInv == Typed /\ (exposed = {} => Working)`.  Several handlers and tasks
work on one configuration, so `Working` relates all of them.  The pair in place is the one the
settings speak of, or the owner has replaced a part of it, or it is what a refused trust anchor
left (`Matching`).  Once somebody has selected it, in whatever handler (`Selected`), it is
`Right`: the one the settings speak of, or a whole pair of the owner's, self-issued or not as
they say.  The lemma `Checked` is why: a file of the owner's passes `Valid` only with its other
half, and what a refused anchor left is not self-issued.  Further, a handler that fetches
an application is one that has selected; the station is on wherever an owner was let go.
What a handler had read before it waited is then the same as what is stored, or a later
configuration was lost, which is the exposure `stale`.

*Modules.*  `Accepted` says of everything that is stored, or may be, that the portal's checks
let it through, `Admitted` says it of what runs, so that what two modules share both declare
shared (`Owners`).  `Lasting` says that what the next start finds is what was stored last,
in the one file or the other, `Shown` that a preview is of the document that is stored, and
`Aged` that its age, computed modulo the clock's period, is its age (`Clock`).

In all cases TLC checked the parts as invariants before they were proved.  Attempts that
failed found what was wrong: the model of `Settings` let an owner enter the value that stands
for no network (`NetAssumption` now excludes it); `EventHistory` went on owing a reader the
events that a crash had taken from the device; `EmsDriver` counted a telegram as hit where the
loop had taken nothing away; `VoltageHolds` asked for the same presence from one reading to the
next, which an accepted configuration without hysteresis does not give at the threshold; and
`AsAsked` is not true of every sequence of policies, because a command that stays in force while
64 others are completed is forgotten (`forgotten`, section 5), nor of a policy with one
identifier twice, which `validate_policy_structure` refuses and `PolicyAssumption` now says.

Only model-checked: everything under fairness (`Recovers`, `ComesBack`, `UsbHolds`,
`OwnerServed`, `Settles`, `Completes`, `Answered`, `IdentityLasts`, `Ends`) and
`NobodyWaitsForever`, which speaks of ENABLED, because the provers cannot; and `ClockHolds`,
which rests on the arithmetic of a calendar (leap years, the days of the week, the last Sunday of a
month) and not on an invariant of steps: the run compares the code's with the wall clock at every
half hour of eleven periods.

## 7. Where code and documents differ

Shown by a run (its counterexample is a behaviour of the code):

* `modules_start` - `device_modules/validation.py` does not ask for `entities`, which
  `docs/modules/README.md:4-8` says every entry needs; such a list is "saved and verified", and
  `iotmd_runtime.py:3329` then fails at every start.

Exposures of section 5 that contradict a document.  Each had a run of its own while its
module was written, or is where a run's counterexamples ended before it was excused:

* `app_update.py:343` writes its record over any status: a bundle received or staged while a
  transaction is activating, on trial or committing removes what it would be rolled back from
  (`overwritten`).  The console serves uploads before `activate_pending` has rolled back, so
  the old application may run with the new module settings; `README.md:130` promises that a
  failed update is rolled back.
* `firmware_update.py:338` selects the boot partition before `:339-340` record the trial
  (`unrecorded`): after a reset between them the image runs while its record says `ready`, is
  never marked valid, and a staged application is committed on it; the next reset returns to
  the old core, on which that application refuses to run (`iotmd.py:9`).
* `iotmd_runtime.py:1466` confirms a network trial by a sign-in before the restart, that is
  over the network the device is about to leave (`early`); the portal says that the previous
  network is restored unless one signs in *after restarting*.
* `update_certificate_settings` reads `load()`, which may return the older slot (`stale`), and
  the rollback of a trial undoes every other save made while it ran.
* `iot_ca_enrollment.py:482` and `certificate_manager.renewal_monitor` return after their first
  successful renewal; the callback of `iotmd_runtime.py:3098-3104` only reloads listeners.
  Nobody renews until the next restart (`unwatched`), while `docs/CERTIFICATES.md:98-100` has
  the complete set rotated automatically, and `:100-101` has a change of the method obeyed
  (`overtaken`: a monitor that was under way installs the identity of the old one).
* `tools/stage_application_usb.py --activate` calls `activate_pending` from the REPL, which
  leaves the record on `trial`; the start that follows takes a trial for one that failed and
  rolls it back (`early`).  Its help (lines 22-25) says that recovery activates the application.
  A bundle that was staged before the tool began is activated by the tool's own restart, and the
  tool then refuses and leaves the device at the REPL.
* `grove_ac_voltage.py:209` scales the present factor by the *last* voltage: calibrating twice
  within a poll interval scales twice (`compounded`).  `known_voltage` may be zero, after which
  no calibration is accepted any more.  The portal's button speaks of an "in-memory" multiplier
  (`portal_live_views.py:190`), which `portal_action` saves; by a module command it is not saved
  (`docs/modules/grove-ac-voltage.md:19-20`).
* `modbus_transport.py:343-344` and `:410-411`: a register that does not answer is published
  as 0, and `whes.py` integrates the zero.
* `resources.py:141-150` and `:198-204` give every pin of `gpio.input` or `gpio.output` one
  name, so `reserve` refuses the second pin ("logical resource ... already maps to ..."): the
  modules HC-SR04, dimmer and RGB light of `docs/modules/` cannot be configured.
* `docs/FLEET_PROTOCOL.md:38-39` has a monotonic cursor of events and gaps that are reported;
  after a crash numbers are given again, so a reader's cursor is ahead and nobody reports what
  it missed (`reused`).
* `iotmd_runtime.py:2143` executes "only bounded commands carried by a verified fleet policy";
  one that a newer policy has withdrawn, but that is on the monitor's list, is executed, recording
  it raises, and the monitor is gone until the restart (`stale`).
* `portal_sessions.py:66` keeps "active sessions coherent after an administrator edits a user":
  it takes over name and role, and the session of a user who was disabled goes on (`kept`).
* `docs/ARCHITECTURE.md:35-40` has every module reserve its hardware; the PT1000 driver's
  default pins are not reserved (`undeclared`).

Met while reading or modelling, without a run:

* `universal_update.py:500`: a bundle uploaded or downloaded after `finalize` replaces one
  half of the pair that was verified together (exposure `replaced`), while
  `docs/UPGRADE_GUIDE.md:53-55` offers paired activation "only after" both match.
* `docs/MESSAGING.md:59` republishes discovery when Home Assistant restarts; a second
  restart during the refresh is refused by the task supervisor
  (`application/context.py:84`).
* `services/home_assistant_service.py:175-182` publishes a state read a second earlier; on
  a broker with retained states it is not retained and comes after the newer one.
* `firmware_update.py:366/375`: a core marked valid whose record was not removed
  (`halfConfirmed`); from then on each failure of the application clears the count of
  unhealthy boots (`recovery_boot.py:471`), and the console of `docs/BOOT_LIFECYCLE.md:83`
  is not reached.
* Replacements called atomic in `docs/BOOT_LIFECYCLE.md:41`, `docs/ARCHITECTURE.md:21` and
  `application_storage.py:1` remove the target before they rename.
* `app_update.py:427-432` replaces the staged bundle before the new one has a record;
  `README.md:129` promises otherwise.
* `services/startup_service.py:58` confirms the core of a universal update by itself and
  never reads `rollback_policy` (`CHANGELOG.md:149-151`).
* A staged application is activated by any restart, not only on request
  (`docs/UPGRADE_GUIDE.md`).
* `resumable_upload.py:130-136`: a loss of power between remove and rename of the session
  record loses the upload that `docs/UPGRADE_GUIDE.md:43-44` promises to resume; in
  `:124-128` it leaves a session without a payload, and `begin` of that identifier is
  refused until somebody removes it.
* `services/update_service.py:164-168`: `complete` of an upload that is not complete, or
  that meets the download's lock, removes what was received.
* `universal_upload.py:168-173` returns a plan whose component has been activated since;
  `:42-46` may lose a plan while one of its components is staged, and `prepare` then
  refuses; nothing calls `discard`.  `docs/UPGRADE_GUIDE.md:58-61` describes neither.
* A command reported `failed` by timeout can turn `complete` (`message_broker.py:246`;
  `docs/API.md:73-75` calls both final).  The poll loop keeps the bus for a whole round:
  thirty groups without an answer are fifteen seconds, the broker's patience.
* A maintenance window does not reach past midnight (`fleet_management.py:219`).
* `max31865_pt1000.py` configures the chip before its loop's `try`: an SPI error at the start
  ends its task for good.  A reading with a fault code is published as valid; after a failed
  one nothing is published.
* `lib/mqtt_as.py`: a second acknowledgement of a repeated publish is an "invalid pid" and
  costs the connection; a ring of size n holds n - 1 messages; `isconnected()` is true while
  the client is connecting.
* A failed `ClientRegistry._save` leaves the change in memory; restoring a backup replaces the
  file behind the cache, and `revoke` of a client that is only in the file is "not found".
* A syslog queue that overflows during an awaited send drops a message that was never sent.
* `fleet_management.py:235`: `completed[-64:]` may forget a command that five policies of sixteen
  have kept, and it is carried out again (exposure `forgotten`; without it TLC finds `AsAsked`
  violated).  A new policy clears `paused` and not `failures`; a core staged outside the window
  waits for somebody.
* A boot that ends in setup or in a console session counts as failed; one that was confirmed
  and raises afterwards does not.
* `setup_workflow.py:204-237`: two `/certificate` requests leave a pair that no route of
  `docs/CERTIFICATES.md:42-55` installed, and it completes setup: a selection compares subject
  and issuer, not the name, the origin or the trust anchor.  "installed portal certificate is
  not the self-signed fallback" (`:219-220`) is said only of one that is not self-issued.
  `SetUp` has this as its second alternative; without it TLC finds the property violated by
  Configures, WritesFile (certificate), WritesFile (key), Installs.
* A restart within the slot of the daily check repeats it; a time changed after the check skips
  that day; a time that daylight saving skips has no check that day.

## 8. What is not modelled

* Bytes: formats, signatures, digests, CRC, certificate coding, HTML.  Their verdicts are
  inputs: a bundle is newer or not, an artifact is whole or not, a reply fits or not.
* In `Settings`: the failure of the save inside a rollback; which fields a validation
  refuses; the enrolment task that runs beside first-boot setup.
* In `AppUpdate`: the format-2 bundle that is compacted while it is received, and the
  space computation, of which only the refusal is left.
* In `Delivery`: discovery switched off, a `retain_state` of a single module, several
  messages lost in one socket, the diagnostics of the device itself, and the content of
  entity documents.  A message with QoS 1 that the client repeats on one connection is
  taken for one.
* In `Commands`: adjacent registers read in one group (a group is a register; `WhesEnergy` has
  groups), the publication of results.
* In `MqttLink`: bytes of packets, unsubscribe, sessions that are not clean; liveness, which
  would be the broker's.
* In `Fleet`: signatures and targets of a policy, which refuse it; HTTP.
* In `PortalAccess`: password rules, the delay after failures; what a handler does to the rest
  of the device is in that part's module.
* In `DeviceApi`: the trust store of CA certificates and the inventory documents.
* In `ModuleSettings`: the differences that a preview shows, exports, encryption of a backup.
* In `BootState`, `Schedule`: reasons and heap figures; offsets of a quarter of an hour; a
  clock that was never set.
* In `Enrolment`, `Setup`: the exchange with an authority (one answer or failure), expiry
  alerts, pages and forms.
* In `UsbTools`: the inside of installing and confirming a release (`AppUpdate`), signatures.
* In the drivers: scaling, rounding, discovery and texts; the inverter's battery.
* Out of reach or without a state of their own: views and parsing, the checks of
  `update_security.py` over bytes, hardware and transports, the display, the light, switch and
  PT1000 drivers, the build tools and vendored libraries; see the notes in `PROJECT.json`.

## 9. Plan

Done, most important behaviour first: the updates (`AtomicRelease`, `AppUpdate`,
`DeviceUpdate`), `Settings`, `Upload`, `Commands`, `Delivery`, `Fleet`, `PortalAccess`,
`Enrolment`, `EventHistory` and `DeviceApi`, `BootState`, `Schedule`, `Setup`,
`ModuleSettings`, `MqttLink`, the drivers, `UsbTools`; the theorems of section 6.

What is left:

1. Proofs: `NobodyWaitsForever` with its guards spelled out instead of ENABLED, and the
   calendar of `Schedule` month by month.
2. `Delivery` over `MqttLink`: the worker's publish as the call of the client, with the
   client's promise as the abstract specification.
3. The orders of ACME (`certificate_manager.issue`): nonces, an order that is taken up again,
   the shared token of the HTTP challenge.
4. A second instance of `Delivery` with two modules in a discovery.

## 10. Running the tools

    tlc -workers 2 -config AppUpdate.cfg MCAppUpdate.tla
    tlapm AppUpdateProofs.tla

Every run ends within five minutes on two cores; a proof module needs a few minutes.
