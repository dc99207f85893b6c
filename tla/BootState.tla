-------------------------------- MODULE BootState --------------------------------
(***************************************************************************)
(* The boot record (boot_state.py) and who writes it: the supervisor of    *)
(* recovery_boot.py, the application's import and main() of                *)
(* iotmd_runtime.py, and StartupService.                                   *)
(*                                                                         *)
(* The record has two copies.  The one in backup memory is written at      *)
(* every checkpoint and lost with the power; the one in flash is written   *)
(* at the durable checkpoints, and whenever the other could not be.  The   *)
(* newer copy is loaded.  Whether an application gets healthy, raises,     *)
(* returns or hangs, and whether the supervisor wants the console or the   *)
(* setup, is any of these here: DeviceUpdate and Settings say when.        *)
(***************************************************************************)
EXTENDS Integers, FiniteSets

CONSTANTS
  MaxBoots,   \* a bound of the model: boots
  MaxFaults,  \* a bound of the model: writes that fail
  BootExcused     \* the exposures after which nothing is guaranteed

ASSUME BootAssumption == MaxBoots \in Nat \ {0} /\ MaxFaults \in Nat

VARIABLES
  provider,  \* this firmware has a backup memory
  at,        \* the point of the boot the device is at, or off
  memory,    \* store().data; while the device is off, the last of it to reach a copy
  backup,    \* the copy in backup memory
  flash,     \* the copy in .boot-state.json
  settled,   \* history: the last durable checkpoint is in flash
  confirmed, \* history: this boot was confirmed healthy, or cleared the record
  unhealthy, \* history: the boots before this one, since one was, that were not
  faults,    \* writes that failed
  bootExposed

bootVars == <<provider, at, memory, backup, flash, settled, confirmed, unhealthy, faults, bootExposed>>

(***************************************************************************)
(* What the code does not cover (README, Exposures):                       *)
(*   lost   a checkpoint reached no copy, or only the one that was lost    *)
(*   stale  clear() could not remove a copy, whose numbers are higher than *)
(*          those the counting starts again with                           *)
(***************************************************************************)
BootExposure == {"lost", "stale"}
BootPromised == bootExposed \cap BootExcused = {}

Record(boots, generation, failures, incomplete, healthy, stage) ==
  [boots |-> boots, generation |-> generation, failures |-> failures,
   incomplete |-> incomplete, healthy |-> healthy, stage |-> stage]

\* _empty()
Empty == Record(0, 0, 0, FALSE, FALSE, "reset")

\* A copy that is missing or does not decode
None == Record(-1, -1, 0, FALSE, FALSE, "reset")

\* The stages a boot passes: the supervisor's, and from "configuration" on the application's.
\* Those of persistent-state and essential-services are not durable.
Steps == {<<"reset", "platform", TRUE>>, <<"platform", "persistent-state", FALSE>>,
          <<"persistent-state", "update-reconcile", TRUE>>,
          <<"update-reconcile", "filesystem", TRUE>>,
          <<"filesystem", "configuration", TRUE>>, <<"configuration", "certificates", TRUE>>,
          <<"certificates", "hardware", TRUE>>, <<"hardware", "network", TRUE>>,
          <<"network", "portal", TRUE>>, <<"portal", "essential-services", FALSE>>,
          <<"essential-services", "health-check", TRUE>>}

\* Where the application runs, and the supervisor waits for it to return or to raise
Application == {"filesystem", "configuration", "certificates", "hardware", "network", "portal",
                "essential-services", "health-check", "confirmed", "running"}

BootInit ==
  /\ provider \in BOOLEAN
  /\ at = "off" /\ memory = Empty /\ backup = None /\ flash = None
  /\ settled = TRUE /\ confirmed = TRUE /\ unhealthy = 0
  /\ faults = 0 /\ bootExposed = {}

-----------------------------------------------------------------------------
(* BootStateStore.                                                         *)

NotOlder(a, b) ==
  \/ a.boots > b.boots
  \/ a.boots = b.boots /\ a.generation >= b.generation

\* _load(): the copy with the higher boot count, and generation within the boot
Load == IF backup # None /\ NotOlder(backup, flash) THEN backup
        ELSE IF flash # None THEN flash ELSE Empty

\* Every checkpoint of a boot has a number of its own.
Numbered(r) ==
  Record(r.boots, r.generation + 1, r.failures, r.incomplete, r.healthy, r.stage)

\* checkpoint(): backup memory first; flash if it is durable or backup memory did not take it.
\* A write of flash that fails leaves the old file, or none when the renaming failed.
Checkpoint(record, durable, next) ==
  LET new == Numbered(record)
  IN \E backupTakes, flashTakes \in BOOLEAN :
       LET backed == provider /\ backupTakes
           writes == durable \/ ~backed
           failed == (IF provider /\ ~backupTakes THEN 1 ELSE 0)
                     + (IF writes /\ ~flashTakes THEN 1 ELSE 0)
       IN /\ (~provider => backupTakes) /\ (~writes => flashTakes)
          /\ faults' = faults + failed /\ faults' <= MaxFaults
          /\ backup' = IF backed THEN new ELSE backup
          /\ flash' \in IF ~writes THEN {flash}
                        ELSE IF flashTakes THEN {new} ELSE {flash, None}
          /\ settled' = IF writes THEN flashTakes ELSE settled
          /\ bootExposed' = bootExposed \cup IF failed > 0 /\ ~backed /\ ~flashTakes
                                     THEN {"lost"} ELSE {}
          /\ memory' = new /\ at' = next

\* The same, cut off by a reset before flash has the new record: it has the old one, or none.
CutOff(record, durable) ==
  LET new == Numbered(record)
  IN /\ at' = "off"
     /\ IF provider
        THEN /\ backup' = new /\ memory' = new
             /\ flash' \in IF durable THEN {flash, None} ELSE {flash}
             /\ settled' = (settled /\ ~durable) /\ UNCHANGED bootExposed
        ELSE /\ UNCHANGED <<backup, memory>> /\ flash' = None
             /\ settled' = FALSE /\ bootExposed' = bootExposed \cup {"lost"}
     /\ UNCHANGED faults

Keeps(record, durable, next) ==
  /\ Checkpoint(record, durable, next) \/ CutOff(record, durable)
  /\ UNCHANGED provider

\* begin(), of the record that was loaded
Begun(r) ==
  Record(r.boots + 1, 0, r.failures + IF r.incomplete THEN 1 ELSE 0, TRUE, FALSE, "reset")

Staged(r, stage) == Record(r.boots, r.generation, r.failures, r.incomplete, r.healthy, stage)

Reported(r, safe, incomplete) ==
  Record(r.boots, r.generation, r.failures + IF r.incomplete THEN 1 ELSE 0, incomplete, FALSE,
         IF safe THEN "safe-mode" ELSE r.stage)

\* Mutant: a failure that was reported is still open for the next boot to count.
FailedOpen(record, safe) == Reported(record, safe, record.incomplete)

\* fail(): counted once, however often it is called
Failed(record, safe) == Reported(record, safe, FALSE)

\* confirm_health() and healthy()
Confirmed(r, stage) == Record(r.boots, r.generation, 0, FALSE, TRUE, stage)

-----------------------------------------------------------------------------
(* The boot.                                                               *)

\* The record of the boot before is loaded, and this one begins.
Begin ==
  /\ at = "off" /\ Load.boots < MaxBoots
  /\ unhealthy' = unhealthy + IF confirmed THEN 0 ELSE 1
  /\ confirmed' = FALSE
  /\ Keeps(Begun(Load), TRUE, "reset")

Stage ==
  /\ \E s \in Steps : at = s[1] /\ Keeps(Staged(memory, s[2]), s[3], s[2])
  /\ UNCHANGED <<confirmed, unhealthy>>

\* _complete_factory_reset() clears the record, and the setup begins.  A file that cannot be
\* removed and a memory that cannot be cleared are left.
FactoryReset ==
  /\ at = "platform" /\ at' = "setup"
  /\ memory' = Empty
  /\ flash' \in IF faults < MaxFaults THEN {None, flash} ELSE {None}
  /\ backup' \in IF faults < MaxFaults THEN {None, backup} ELSE {None}
  /\ LET remains == IF flash' # None \/ backup' # None THEN 1 ELSE 0
     IN /\ faults' = faults + remains
        /\ bootExposed' = bootExposed \cup IF remains = 1 THEN {"stale"} ELSE {}
  /\ confirmed' = TRUE /\ unhealthy' = 0 /\ settled' = TRUE
  /\ UNCHANGED provider

\* request_recovery(): of a missing capability, of too many boots, of the Wi-Fi station
\* that was not found, of an application that raised or returned
RequestsRecovery ==
  /\ \/ at = "platform" /\ \E next \in {"console", "setup"} :
          Keeps(Failed(memory, TRUE), TRUE, next)
     \/ at = "update-reconcile" /\ Keeps(Failed(memory, TRUE), TRUE, "console")
     \/ at \in {"hardware", "failed", "returned"} /\ Keeps(Failed(memory, TRUE), TRUE, "off")
  /\ UNCHANGED <<confirmed, unhealthy>>

\* An unprovisioned device stages its configuration and sets up; one whose recovery was
\* requested before goes to the console; a network trial that was rolled back, and later a
\* trial that failed, resets.
TurnsAside ==
  /\ \/ at = "update-reconcile" /\ Keeps(Staged(memory, "configuration"), FALSE, "setup")
     \/ /\ \/ at = "update-reconcile" /\ at' \in {"console", "off"}
           \/ at \in {"failed", "returned"} /\ at' = "off"
        /\ UNCHANGED <<provider, memory, backup, flash, settled, faults, bootExposed>>
  /\ UNCHANGED <<confirmed, unhealthy>>

\* The application raises, while it is imported or in main().
Raises ==
  /\ at \in Application
  /\ Keeps(Failed(memory, FALSE), TRUE, "failed")
  /\ UNCHANGED <<confirmed, unhealthy>>

\* main() returns: the network or the portal is not there, or the health check failed, which
\* is recorded first.
Returns ==
  /\ \/ /\ at \in {"hardware", "network"} /\ at' = "returned"
        /\ UNCHANGED <<provider, memory, backup, flash, settled, faults, bootExposed>>
     \/ at = "health-check" /\ Keeps(Failed(memory, FALSE), TRUE, "returned")
  /\ UNCHANGED <<confirmed, unhealthy>>

\* confirm_updates(), mark_application_healthy().  Cut off, it may have been recorded.
ConfirmsHealth ==
  /\ at = "health-check"
  /\ Keeps(Confirmed(memory, "health-check"), TRUE, "confirmed")
  /\ IF memory'.healthy THEN confirmed' = TRUE /\ unhealthy' = 0
                        ELSE UNCHANGED <<confirmed, unhealthy>>

\* finalise(): running, or degraded without a new stage
Finalises ==
  /\ at = "confirmed"
  /\ \/ Keeps(Confirmed(memory, "running"), TRUE, "running")
     \/ Keeps(memory, TRUE, "running")
  /\ UNCHANGED <<confirmed, unhealthy>>

-----------------------------------------------------------------------------
\* The watchdog, the trial deadline, the console, the setup or the owner resets the device.
Reset ==
  /\ at # "off" /\ at' = "off"
  /\ UNCHANGED <<provider, memory, backup, flash, settled, confirmed, unhealthy, faults,
                 bootExposed>>

\* The power fails, and backup memory with it.
PowerLoss ==
  /\ at' = "off"
  /\ backup' = None /\ memory' = IF flash = None THEN Empty ELSE flash
  /\ bootExposed' = bootExposed \cup IF settled THEN {} ELSE {"lost"}
  /\ UNCHANGED <<provider, flash, settled, confirmed, unhealthy, faults>>

BootNext ==
  \/ Begin \/ Stage \/ FactoryReset \/ RequestsRecovery \/ TurnsAside
  \/ Raises \/ Returns \/ ConfirmsHealth \/ Finalises \/ Reset \/ PowerLoss

BootSpec == BootInit /\ [][BootNext]_bootVars

-----------------------------------------------------------------------------
BootTypeOK ==
  /\ provider \in BOOLEAN /\ settled \in BOOLEAN /\ confirmed \in BOOLEAN
  /\ at \in {"off", "reset", "console", "setup", "failed", "returned"} \cup Application
            \cup {s[2] : s \in Steps}
  /\ \A r \in {memory, backup, flash} : r.boots \in -1 .. MaxBoots /\ r.generation >= -1
  /\ unhealthy \in Nat /\ faults \in 0 .. MaxFaults /\ bootExposed \subseteq BootExposure

\* After a reset the next boot finds the exact point the last one reached, and after a loss of
\* power the last durable one (boot_state.py:196-199), whichever copy has it.
ExactPoint == (at = "off" /\ BootPromised) => Load = memory

\* The record counts every boot since the last healthy one that did not become healthy, and
\* each of them once: the one that reported its failure, and the one that only stopped.
FailuresCounted ==
  (at # "off" /\ BootPromised) =>
    memory.failures = unhealthy + IF memory.incomplete \/ confirmed THEN 0 ELSE 1

\* The boot record can be trusted: it is the last point reached, and it counts what failed.
Remembers == BootTypeOK /\ ExactPoint /\ FailuresCounted
=============================================================================
