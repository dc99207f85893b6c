---------------------------- MODULE DeviceUpdate ----------------------------
(***************************************************************************)
(* The boot supervisor (recovery_boot.py) with the three updaters it       *)
(* coordinates: the application (app_update.py, here one action per        *)
(* handler; AppUpdate has the steps inside), the core firmware in two OTA  *)
(* partitions (firmware_update.py) and the universal update that pairs     *)
(* them (universal_update.py), the requests of the portal and the recovery *)
(* console, and the ESP-IDF bootloader, which is external.                 *)
(*                                                                         *)
(* A release is a number; the device is delivered with release 1 as core   *)
(* and as application.  Release r of the application runs on a core of     *)
(* release MinCore[r] or later (the check at the top of iotmd.py).         *)
(***************************************************************************)
EXTENDS Naturals

CONSTANTS
  MaxRelease,    \* a bound of the model: the last release
  MinCore,       \* the core release an application release needs
  MaxLosses,     \* a bound of the model: losses of power
  Excused        \* the exposures after which the guarantees end

ASSUME MaxReleaseAssumption == MaxRelease \in Nat /\ MaxRelease >= 1
ASSUME MaxLossesAssumption  == MaxLosses \in Nat
ASSUME MinCoreAssumption    ==
  /\ MinCore \in [1 .. MaxRelease -> 1 .. MaxRelease]
  /\ MinCore[1] = 1

VARIABLES
  image,      \* the core release a partition holds, 0 when it is not whole
  boot,       \* the boot selection (otadata) and its rollback state
  core,       \* the partition the running core was booted from, or Off
  fw,         \* .firmware-update-state.json
  app,        \* the application's transaction and its two generations
  uni,        \* .universal-update-state.json
  recovery,   \* .recovery-state.json: the count of unhealthy boots
  pc,         \* where the supervisor and the application are
  upload,     \* the core release that is being written, or 0
  timer,      \* the trial deadline is running
  asked,      \* the activation request that is being served
  losses,     \* history: how often power was lost
  exposed     \* history: the uncovered events that have happened

vars == <<image, boot, core, fw, app, uni, recovery, pc, upload, timer, asked,
          losses, exposed>>
ram  == <<core, upload, timer, asked>>
disk == <<image, boot, fw, app, uni, recovery>>

Partition == {"ota0", "ota1"}
Off       == "off"
Release   == 1 .. MaxRelease
Image     == 0 .. MaxRelease

Step == {"off", "platform", "attempt", "activate", "activating", "load",
         "starting", "confirmCore", "recordCore", "confirmApp", "commitApp",
         "confirmUni", "healthy", "up", "console", "recordTrial", "recordUni"}

(***************************************************************************)
(* What the code does not cover (README, Exposures):                       *)
(*   unrecorded     a core is on its first boot and no record says so      *)
(*   halfConfirmed  a core is marked valid and its record says trial       *)
(*   fallback       an upload into the partition a trial would return to   *)
(*   unmarked       the core could not be marked valid                     *)
(***************************************************************************)
Exposure == {"unrecorded", "halfConfirmed", "fallback", "unmarked"}

NoFw       == [status |-> "idle", release |-> 0, target |-> "ota0"]
NoUni      == [status |-> "idle", release |-> 0, app |-> FALSE, core |-> FALSE]
NoRecovery == [mode |-> "none", failures |-> 0, pending |-> FALSE]

BootSelection == [part : Partition, state : {"valid", "new", "pending"}]
FwRecord  == [status : {"idle", "ready", "trial"}, release : Image,
              target : Partition]
AppRecord == [status : {"idle", "ready", "activating", "trial", "committing"},
              release : Image, installed : Release, other : Image]
UniRecord == [status : {"idle", "ready", "activating"}, release : Image,
              app : BOOLEAN, core : BOOLEAN]
RecoveryRecord == [mode : {"none", "booting", "recovery"}, failures : 0 .. 2,
                   pending : BOOLEAN]
Asked == [from : {"up", "console"}, paired : BOOLEAN]

TypeOK ==
  /\ image \in [Partition -> Image]
  /\ boot \in BootSelection
  /\ core \in Partition \cup {Off}
  /\ fw \in FwRecord
  /\ app \in AppRecord
  /\ uni \in UniRecord
  /\ recovery \in RecoveryRecord
  /\ pc \in Step
  /\ upload \in Image
  /\ timer \in BOOLEAN
  /\ asked \in Asked
  /\ losses \in 0 .. MaxLosses
  /\ exposed \in SUBSET Exposure

-----------------------------------------------------------------------------
OtherPart(p) == IF p = "ota0" THEN "ota1" ELSE "ota0"

\* ESP-IDF: an image that was booted once and not marked valid is not booted
\* again, and neither is one that is not whole.
WouldBoot ==
  IF boot.state = "pending" \/ image[boot.part] = 0 THEN OtherPart(boot.part)
  ELSE boot.part

RunningCore == image[core]

OnTrial(a) == a.status \in {"activating", "trial", "committing"}

\* rollback_update: the slot of the trial, the bundle and the record go.
RolledBack(a) ==
  [a EXCEPT !.status = "idle", !.release = 0,
            !.other = IF OnTrial(a) THEN 0 ELSE @]

\* _finish_commit.  Generation 1 is in the root directory, not in a slot.
Committed(a) ==
  [status |-> "idle", release |-> 0, installed |-> a.release,
   other |-> IF a.installed = 1 THEN 0 ELSE a.installed]

Discarded(a) == [a EXCEPT !.status = "idle", !.release = 0]

\* universal_update.reconcile_pending: a staged transaction that has lost a
\* component is discarded, unless a component is in the middle of its own.
Discards(a, f, u) ==
  /\ u.status = "ready"
  /\ \/ u.app /\ a.status # "ready"
     \/ u.core /\ f.status # "ready"
  /\ a.status \in {"idle", "ready"} /\ f.status \in {"idle", "ready"}

\* Mutant: an activating transaction waits for its application only.
ForgetsAppOnly(a, f, u) ==
  u.status = "activating" /\ (u.app => a.status = "idle")

\* An activating one is forgotten when its components have nothing left to do.
Forgets(a, f, u) ==
  /\ u.status = "activating"
  /\ u.app => a.status = "idle"
  /\ u.core => f.status = "idle"

ReconciledApp(a, f, u) == IF Discards(a, f, u) /\ u.app THEN Discarded(a) ELSE a
ReconciledFw(a, f, u)  == IF Discards(a, f, u) /\ u.core THEN NoFw ELSE f
ReconciledUni(a, f, u) ==
  IF Discards(a, f, u) \/ Forgets(a, f, u) THEN NoUni ELSE u

\* firmware_update.boot_status
CoreRolledBack == fw.status = "trial" /\ core # fw.target
BootStatus     == IF CoreRolledBack THEN NoFw ELSE fw

-----------------------------------------------------------------------------
Init ==
  /\ image = [p \in Partition |-> IF p = "ota0" THEN 1 ELSE 0]
  /\ boot = [part |-> "ota0", state |-> "valid"]
  /\ core = Off
  /\ fw = NoFw
  /\ app = [status |-> "idle", release |-> 0, installed |-> 1, other |-> 0]
  /\ uni = NoUni
  /\ recovery = NoRecovery
  /\ pc = "off"
  /\ upload = 0
  /\ timer = FALSE
  /\ asked = [from |-> "up", paired |-> FALSE]
  /\ losses = 0
  /\ exposed = {}

Goto(p) == pc' = p

PowerDown ==
  /\ Goto("off")
  /\ core' = Off
  /\ upload' = 0
  /\ timer' = FALSE
  /\ asked' = [from |-> "up", paired |-> FALSE]

\* request_recovery keeps the count it finds.
AskForRecovery ==
  recovery' = [recovery EXCEPT !.mode = "recovery", !.pending = FALSE]

-----------------------------------------------------------------------------
(* The bootloader, then recovery_boot.run.                                 *)

\* History only: the records disagree with the bootloader about the core.
Unnoted(part, state) ==
  LET noted == fw.status = "trial" /\ fw.target = part
  IN CASE state = "pending" /\ ~noted -> {"unrecorded"}
       [] state = "valid" /\ noted -> {"halfConfirmed"}
       [] OTHER -> {}

Bootloader ==
  /\ pc = "off"
  /\ image[WouldBoot] # 0
  /\ core' = WouldBoot
  /\ boot' = CASE boot.state = "pending" ->
                    [part |-> OtherPart(boot.part), state |-> "valid"]
               [] boot.state = "new" /\ image[boot.part] # 0 ->
                    [boot EXCEPT !.state = "pending"]
               [] OTHER -> boot
  /\ exposed' = exposed \cup Unnoted(core', boot'.state)
  /\ Goto("platform")
  /\ UNCHANGED <<image, fw, app, uni, recovery, upload, timer, asked, losses>>

CapabilityFailure ==
  /\ pc = "platform"
  /\ AskForRecovery
  /\ Goto("console")
  /\ UNCHANGED <<image, boot, fw, app, uni, ram, losses, exposed>>

\* universal cleanup, firmware boot_status and the universal transaction again.
Reconcile ==
  /\ pc = "platform"
  /\ LET a == ReconciledApp(app, fw, uni)
         u == ReconciledUni(app, fw, uni)
         f == IF Discards(app, fw, uni) /\ uni.core THEN NoFw ELSE BootStatus
     IN /\ app' = ReconciledApp(a, f, u)
        /\ fw' = ReconciledFw(a, f, u)
        /\ uni' = ReconciledUni(a, f, u)
  /\ recovery' = IF CoreRolledBack THEN NoRecovery ELSE recovery
  /\ Goto("attempt")
  /\ UNCHANGED <<image, boot, ram, losses, exposed>>

Unhealthy == recovery.failures + IF recovery.pending THEN 1 ELSE 0

Limit == IF app.status # "idle" \/ fw.status # "idle" THEN 2 ELSE 3

BootAttempt ==
  /\ pc = "attempt"
  /\ recovery.mode # "recovery" /\ Unhealthy < Limit
  /\ recovery' = [mode |-> "booting", failures |-> Unhealthy, pending |-> TRUE]
  /\ Goto("activate")
  /\ UNCHANGED <<image, boot, fw, app, uni, ram, losses, exposed>>

EnterConsole ==
  /\ pc = "attempt"
  /\ recovery.mode = "recovery" \/ Unhealthy >= Limit
  /\ IF recovery.mode = "recovery" THEN UNCHANGED recovery ELSE AskForRecovery
  /\ Goto("console")
  /\ UNCHANGED <<image, boot, fw, app, uni, ram, losses, exposed>>

Activate ==
  /\ pc = "activate"
  /\ \/ /\ app.status = "idle"
        /\ Goto("load")
        /\ UNCHANGED <<app, recovery>>
     \/ /\ app.status \in {"activating", "trial"}
        /\ app' = RolledBack(app)
        /\ recovery' = [mode |-> "booting", failures |-> 0, pending |-> TRUE]
        /\ Goto("load")
     \/ /\ app.status = "committing"
        /\ app' = Committed(app)
        /\ Goto("load")
        /\ UNCHANGED recovery
     \/ /\ app.status = "ready"
        /\ IF app.release > app.installed
           THEN /\ app' = [app EXCEPT !.status = "activating", !.other = 0]
                /\ Goto("activating")
           ELSE app' = RolledBack(app) /\ Goto("load")
        /\ UNCHANGED recovery
  /\ UNCHANGED <<image, boot, fw, uni, ram, losses, exposed>>

ActivationEnds ==
  /\ pc = "activating"
  /\ \/ app' = [app EXCEPT !.status = "trial"]
     \/ app' = RolledBack(app)
  /\ Goto("load")
  /\ UNCHANGED <<image, boot, fw, uni, recovery, ram, losses, exposed>>

RunningApp ==
  IF app.status \in {"trial", "committing"} THEN app.release ELSE app.installed

\* Mutant: the deadline guards normal starts only.
StartApplicationUnguarded ==
  /\ pc = "load"
  /\ MinCore[RunningApp] <= RunningCore
  /\ timer' = (app.status = "idle" /\ fw.status = "idle")
  /\ Goto("starting")
  /\ UNCHANGED <<disk, core, upload, asked, losses, exposed>>

StartApplication ==
  /\ pc = "load"
  /\ MinCore[RunningApp] <= RunningCore
  /\ timer' = TRUE
  /\ Goto("starting")
  /\ UNCHANGED <<disk, core, upload, asked, losses, exposed>>

\* An exception or a return of the application; the first of them is that the
\* application needs a newer core.
ApplicationEnds ==
  /\ \/ pc = "load" /\ MinCore[RunningApp] > RunningCore
     \/ pc \in {"starting", "confirmApp", "commitApp", "confirmUni", "up"}
  /\ \/ /\ OnTrial(app)
        /\ app' = RolledBack(app)
        /\ recovery' = NoRecovery
     \/ /\ ~OnTrial(app) /\ fw.status = "trial"
        /\ recovery' \in {NoRecovery, recovery}
        /\ UNCHANGED app
     \/ /\ ~OnTrial(app) /\ fw.status # "trial"
        /\ AskForRecovery
        /\ UNCHANGED app
  /\ PowerDown
  /\ UNCHANGED <<image, boot, fw, uni, losses, exposed>>

\* The deadline resets an application that hangs.
Deadline ==
  /\ timer
  /\ pc \in {"starting", "up"}
  /\ PowerDown
  /\ UNCHANGED <<disk, losses, exposed>>

-----------------------------------------------------------------------------
(* StartupService.confirm_updates, after the health gate.                  *)

HealthGate ==
  /\ pc = "starting"
  /\ Goto("confirmCore")
  /\ UNCHANGED <<disk, ram, losses, exposed>>

\* Mutant: the record is confirmed and the image is not marked valid.
ConfirmCoreRecord ==
  /\ pc = "confirmCore"
  /\ IF BootStatus.status = "trial" THEN Goto("recordCore")
     ELSE Goto("confirmApp")
  /\ fw' = BootStatus
  /\ UNCHANGED <<image, boot, app, uni, recovery, ram, losses, exposed>>

ConfirmCore ==
  /\ pc = "confirmCore"
  /\ IF BootStatus.status = "trial"
     THEN boot' = [part |-> core, state |-> "valid"] /\ Goto("recordCore")
     ELSE UNCHANGED boot /\ Goto("confirmApp")
  /\ fw' = BootStatus
  /\ UNCHANGED <<image, app, uni, recovery, ram, losses, exposed>>

\* The exception of mark_app_valid_cancel_rollback is caught and logged.
CoreNotMarked ==
  /\ pc = "confirmCore"
  /\ BootStatus.status = "trial"
  /\ exposed' = exposed \cup {"unmarked"}
  /\ Goto("confirmApp")
  /\ UNCHANGED <<disk, ram, losses>>

RecordCore ==
  /\ pc = "recordCore"
  /\ fw' \in {NoFw, fw}
  /\ Goto("confirmApp")
  /\ UNCHANGED <<image, boot, app, uni, recovery, ram, losses, exposed>>

ConfirmApp ==
  /\ pc = "confirmApp"
  /\ IF app.status \in {"trial", "committing"}
     THEN app' = [app EXCEPT !.status = "committing"] /\ Goto("commitApp")
     ELSE UNCHANGED app /\ Goto("confirmUni")
  /\ UNCHANGED <<image, boot, fw, uni, recovery, ram, losses, exposed>>

CommitApp ==
  /\ pc = "commitApp"
  /\ app' = Committed(app)
  /\ Goto("confirmUni")
  /\ UNCHANGED <<image, boot, fw, uni, recovery, ram, losses, exposed>>

ConfirmUni ==
  /\ pc = "confirmUni"
  /\ IF app.installed >= uni.release /\ RunningCore >= uni.release
     THEN uni' = NoUni /\ UNCHANGED <<app, fw>>
     ELSE /\ app' = ReconciledApp(app, fw, uni)
          /\ fw' = ReconciledFw(app, fw, uni)
          /\ uni' = ReconciledUni(app, fw, uni)
  /\ Goto("healthy")
  /\ UNCHANGED <<image, boot, recovery, ram, losses, exposed>>

MarkHealthy ==
  /\ pc = "healthy"
  /\ recovery' = NoRecovery
  /\ timer' = (timer /\ (app.status \in {"trial", "committing"}
                         \/ fw.status = "trial"))
  /\ Goto("up")
  /\ UNCHANGED <<image, boot, fw, app, uni, core, upload, asked, losses,
                 exposed>>

-----------------------------------------------------------------------------
(* Requests, to the portal of the running application or to the console.   *)

Serving == pc \in {"up", "console"}

Unlocked == upload = 0

\* Every request of the console but an upload clears the recovery file and
\* resets the device; the portal resets it some seconds later (Reboot).
Answered ==
  IF pc = "console" \/ (asked.from = "console" /\ pc # "up")
  THEN PowerDown /\ recovery' = NoRecovery
  ELSE Goto("up") /\ UNCHANGED <<core, upload, timer, asked, recovery>>

Reboot ==
  /\ pc = "up"
  /\ PowerDown
  /\ UNCHANGED <<disk, losses, exposed>>

\* The console's time is over, or its administrator asks to retry.
ConsoleEnds ==
  /\ pc = "console"
  /\ PowerDown
  /\ recovery' = NoRecovery
  /\ UNCHANGED <<image, boot, fw, app, uni, losses, exposed>>

\* receive_bundle writes to the partition that is not running, whatever the
\* bootloader may need it for.
BeginCoreUpload ==
  /\ Serving /\ Unlocked
  /\ \E r \in Release : r > RunningCore /\ upload' = r
  /\ fw' = NoFw
  /\ image' = [image EXCEPT ![OtherPart(core)] = 0]
  /\ exposed' = IF boot.part = core /\ boot.state # "valid"
                THEN exposed \cup {"fallback"} ELSE exposed
  /\ UNCHANGED <<boot, core, app, uni, recovery, pc, timer, asked, losses>>

EndCoreUpload ==
  /\ Serving /\ ~Unlocked
  /\ upload' = 0
  /\ \/ /\ image' = [image EXCEPT ![OtherPart(core)] = upload]
        /\ fw' = [status |-> "ready", release |-> upload,
                  target |-> OtherPart(core)]
     \/ UNCHANGED <<image, fw>>
  /\ UNCHANGED <<boot, core, app, uni, recovery, pc, timer, asked, losses,
                 exposed>>

StageApp ==
  /\ Serving /\ Unlocked
  /\ \E r \in Release :
       /\ r > app.installed
       /\ app' = [app EXCEPT !.status = "ready", !.release = r,
                             !.other = IF OnTrial(app) THEN 0 ELSE @]
  /\ UNCHANGED <<image, boot, fw, uni, recovery, pc, ram, losses, exposed>>

\* stage_preverified after two uploads, or receive_bundle after its own two:
\* neither looks at the record it replaces.
StageUniversal ==
  /\ Serving
  /\ \E r \in Release :
       LET needApp  == app.installed < r
           needCore == RunningCore < r
       IN /\ needApp \/ needCore
          /\ IF needCore THEN fw.status = "ready" /\ fw.release = r
                         ELSE RunningCore = r
          /\ IF needApp THEN app.status = "ready" /\ app.release = r
                        ELSE app.installed = r
          /\ uni' = [status |-> "ready", release |-> r, app |-> needApp,
                     core |-> needCore]
  /\ UNCHANGED <<image, boot, fw, app, recovery, pc, ram, losses, exposed>>

\* A download or a universal upload that is rejected after a component was
\* staged; the upload removes the universal record, too.
DiscardStaged ==
  /\ Serving
  /\ app' \in {app} \cup IF app.status = "ready" THEN {Discarded(app)} ELSE {}
  /\ fw' \in {fw} \cup IF fw.status = "ready" THEN {NoFw} ELSE {}
  /\ uni' \in {uni, NoUni}
  /\ UNCHANGED <<image, boot, recovery, pc, ram, losses, exposed>>

\* Activation of the application itself is left to the next boot.
ActivateFromConsole ==
  /\ pc = "console"
  /\ app.status = "ready"
  /\ Answered
  /\ UNCHANGED <<image, boot, fw, app, uni, losses, exposed>>

\* rollback-application of the console.
RollbackFromConsole ==
  /\ pc = "console"
  /\ app.status # "idle"
  /\ app' = RolledBack(app)
  /\ Answered
  /\ UNCHANGED <<image, boot, fw, uni, losses, exposed>>

RollbackToPrevious ==
  /\ Serving /\ Unlocked
  /\ app.status = "idle" /\ app.installed # 1 /\ app.other # 0
  /\ app' = [app EXCEPT !.installed = app.other, !.other = app.installed]
  /\ Answered
  /\ UNCHANGED <<image, boot, fw, uni, losses, exposed>>

\* firmware_update.activate_pending, for itself or for the universal update:
\* the boot selection, then the record that makes it a trial.
SelectCore ==
  /\ Serving /\ Unlocked
  /\ fw.status = "ready"
  /\ \E paired \in BOOLEAN :
       /\ paired => /\ uni.status = "ready" /\ uni.core
                    /\ uni.app => app.status = "ready"
       /\ asked' = [from |-> pc, paired |-> paired]
  /\ boot' = [part |-> fw.target, state |-> "new"]
  /\ Goto("recordTrial")
  /\ UNCHANGED <<image, fw, app, uni, recovery, core, upload, timer, losses,
                 exposed>>

RecordTrial ==
  /\ pc = "recordTrial"
  /\ fw' = [fw EXCEPT !.status = "trial"]
  /\ IF asked.paired
     THEN Goto("recordUni") /\ UNCHANGED <<recovery, ram>>
     ELSE Answered
  /\ UNCHANGED <<image, boot, app, uni, losses, exposed>>

RecordUniversal ==
  /\ pc = "recordUni"
  /\ uni' = [uni EXCEPT !.status = "activating"]
  /\ Answered
  /\ UNCHANGED <<image, boot, fw, app, losses, exposed>>

\* A write of the activation fails: the request is refused, nothing is undone.
ActivationRefused ==
  /\ pc \in {"recordTrial", "recordUni"}
  /\ Goto(asked.from)
  /\ UNCHANGED <<disk, ram, losses, exposed>>

\* A universal update whose core is installed already.
ActivateApplicationHalf ==
  /\ Serving
  /\ uni.status = "ready" /\ ~uni.core /\ app.status = "ready"
  /\ uni' = [uni EXCEPT !.status = "activating"]
  /\ Answered
  /\ UNCHANGED <<image, boot, fw, app, losses, exposed>>

-----------------------------------------------------------------------------
PowerLoss ==
  /\ pc # "off"
  /\ losses < MaxLosses
  /\ losses' = losses + 1
  /\ PowerDown
  /\ UNCHANGED <<disk, exposed>>

Boot == Bootloader \/ CapabilityFailure \/ Reconcile \/ BootAttempt
        \/ EnterConsole \/ Activate \/ ActivationEnds \/ StartApplication
Run  == HealthGate \/ ConfirmCore \/ CoreNotMarked \/ RecordCore \/ ConfirmApp
        \/ CommitApp \/ ConfirmUni \/ MarkHealthy \/ ApplicationEnds
        \/ Deadline
Request == Reboot \/ ConsoleEnds \/ BeginCoreUpload \/ EndCoreUpload
           \/ StageApp \/ StageUniversal \/ DiscardStaged
           \/ ActivateFromConsole \/ RollbackFromConsole
           \/ RollbackToPrevious \/ SelectCore
           \/ RecordTrial \/ RecordUniversal \/ ActivationRefused
           \/ ActivateApplicationHalf

Next == Boot \/ Run \/ Request \/ PowerLoss

(***************************************************************************)
(* The supervisor and the confirmation are straight-line code; a console   *)
(* ends by its own time; an application that does not end is reset by the  *)
(* deadline.  Nothing else has to happen: no administrator, no application *)
(* that gets healthy.  A device whose capability check fails at every      *)
(* boot is broken (the strong fairness of Reconcile).                      *)
(***************************************************************************)
Fairness ==
  /\ WF_vars(Boot)
  /\ SF_vars(Reconcile)
  /\ WF_vars(Deadline)
  /\ SF_vars(ConsoleEnds)
  /\ WF_vars(pc # "starting" /\ pc # "up" /\ Run)
  /\ WF_vars(RecordTrial \/ RecordUniversal)

Spec == Init /\ [][Next]_vars /\ Fairness

-----------------------------------------------------------------------------
(* Correctness, as long as no excused exposure has happened: the runs'     *)
(* CONSTRAINT ends a behaviour at the first of them.                       *)

Promised == exposed \cap Excused = {}

\* A reset at any moment leads to a core the installed application runs on:
\* the application is never newer than the core allows once the bootloader has
\* decided about the core.
InstalledAppRuns ==
  Promised => MinCore[app.installed] <= image[WouldBoot]

\* While a core is on trial the partition it came from still holds the core
\* that is known to work.
FallbackKept ==
  (Promised /\ boot.state # "valid") => image[OtherPart(boot.part)] # 0

\* A reset at any moment finds an image the installed application runs on, and a trial
\* another to fall back on.
ResetIsSafe == InstalledAppRuns /\ FallbackKept

\* The supervisor and the confirmation do not forget the universal transaction
\* while a component it activated still waits for its trial or the outcome of
\* one.
NoOrphanedComponent ==
  [][(Promised /\ ~Serving /\ uni.status = "activating" /\ uni'.status = "idle") =>
       /\ uni.app => app'.status = "idle"
       /\ uni.core => (fw'.status # "trial" \/ boot.state = "valid")]_vars

\* What installs an application is a trial on which it got healthy, and the
\* supervisor or a rollback undoes everything else: the application half of
\* the device implements the abstract release, with nothing excused.
AppOnTrial ==
  IF \/ app.status = "committing"
     \/ app.status = "trial" /\ pc \in {"load", "starting", "confirmCore",
                                      "recordCore", "confirmApp"}
  THEN [app |-> app.release, settings |-> 0]
  ELSE [app |-> 0, settings |-> 0]

Atomic == INSTANCE AtomicRelease WITH
  Generation <- Image, app <- app.installed, settings <- 0,
  kept <- app.other, candidate <- AppOnTrial, excused <- FALSE

AppIsAtomic == Atomic!AbsSpec

\* Whatever the application does, the device comes back to a portal or to the
\* recovery console again and again, and no trial of an application is left undecided.
Recovers ==
  /\ []<>(Serving \/ ~Promised)
  /\ OnTrial(app) ~> (~OnTrial(app) \/ ~Promised)
==============================================================================
