------------------------------- MODULE Settings -------------------------------
(***************************************************************************)
(* The settings of the device and how they survive: the credential store   *)
(* (credential_store.py, two slots in NVS and the key that selects one),   *)
(* the trial of a changed network, the certificate transaction             *)
(* (certificate_manager.py), module_settings.json with its previous        *)
(* generation, the configuration import, the encrypted restore, first-boot *)
(* setup and the factory reset, as recovery_boot.run and the running       *)
(* application (iotmd_runtime.py) drive them.                              *)
(*                                                                         *)
(* Every handler runs without an await between its writes, so pc walks     *)
(* through one handler at a time and only a loss of power comes between    *)
(* two of its steps.                                                       *)
(***************************************************************************)
EXTENDS Naturals

CONSTANTS
  Net,         \* Wi-Fi settings
  Joins,       \* those with which the station gets a connection
  Reach,       \* those over which an administrator reaches the portal
  MaxPair,     \* a bound of the model: generations of the certificate pair
  MaxLosses,   \* a bound of the model: losses of power
  Excused      \* the exposures after which the network is not guaranteed

NoNet == "no network"

ASSUME NetAssumption    ==
  Reach \subseteq Joins /\ Joins \subseteq Net /\ Reach # {} /\ NoNet \notin Net
ASSUME BoundsAssumption == MaxPair \in Nat /\ MaxPair >= 1 /\ MaxLosses \in Nat

VARIABLES
  slot,        \* NVS cfg0, cfg1
  active,      \* NVS active, or NoSlot
  trial,       \* NVS network trial record
  resetFlag,   \* NVS: a factory reset is armed
  bootkey,     \* NVS: there is a setup password
  certs,       \* the portal's certificate and key: generation, backup
  marker,      \* the certificate transaction and the files that existed
  modules,     \* module_settings.json and its .previous
  recovery,    \* .recovery-state.json asks for the console
  pc,          \* the step the running code has reached
  job,         \* the arguments of the handler that runs
  running,     \* the Wi-Fi settings the application was started with
  session,     \* an administrator is signed in to the portal
  guard,       \* network_trial_guard sleeps
  proven,      \* history: networks over which an administrator was served
  exposed,     \* history: the uncovered events that have happened
  losses       \* history: how often power was lost

nvs   == <<slot, active, trial, resetFlag, bootkey>>
files == <<certs, marker, modules, recovery>>
ram   == <<running, session, guard>>
hist  == <<proven, exposed, losses>>
vars  == <<slot, active, trial, resetFlag, bootkey, certs, marker, modules,
           recovery, pc, job, running, session, guard, proven, exposed, losses>>

Slot == {0, 1}
NoSlot == 2
Pair == 0 .. MaxPair             \* 0: no file
Modules == {0, 1}                \* 0: no file
File == {"cert", "key"}

\* A configuration, without the fields that neither boot nor trial looks at.
Config   == [net : Net, provisioned : BOOLEAN]
NoConfig == [net |-> NoNet, provisioned |-> FALSE]
Trial    == [net : Net, previous : Config, attempts : {0, 1}]
NoTrial  == [net |-> NoNet, previous |-> NoConfig, attempts |-> 0]

Handler == {"save", "begin", "import", "undo", "rollback", "restore", "wifi",
            "configure", "provision", "install", "recover"}

\* The arguments of a handler: the configuration to save, the one an import
\* goes back to, the generations of modules and certificates it installs (0
\* for none), and the certificate files its current loop has not reached.
Job   == [kind : Handler, config : Config \cup {NoConfig},
          before : Config \cup {NoConfig}, modules : Modules, certs : Pair,
          left : SUBSET File]
NoJob == [kind |-> "save", config |-> NoConfig, before |-> NoConfig,
          modules |-> 0, certs |-> 0, left |-> {}]
Marker == [open : BOOLEAN, existed : SUBSET File]
NoMarker == [open |-> FALSE, existed |-> {}]

Step == {"off", "wipeCerts", "wipeModules", "wipeSlot0", "wipeSlot1", "wipeActive",
         "wipeTrial", "wipeFlag", "recover", "prepare", "attempt", "load", "connect",
         "portal", "up", "console", "setup", "arm", "begin", "blob", "select", "clear",
         "eraseKey", "dropModules", "moveModules", "placeModules", "backUp", "mark",
         "replace", "restore", "unmark", "clean"}

Exposure == {"early", "chained", "unguarded", "stale"}

TypeOK ==
  /\ slot \in [Slot -> Config \cup {NoConfig}]
  /\ active \in Slot \cup {NoSlot}
  /\ trial \in Trial \cup {NoTrial}
  /\ resetFlag \in BOOLEAN /\ bootkey \in BOOLEAN
  /\ certs \in [File -> [now : Pair, previous : Pair]]
  /\ marker \in Marker
  /\ modules \in [now : Modules, previous : Modules]
  /\ recovery \in BOOLEAN
  /\ pc \in Step
  /\ job \in Job
  /\ running \in Net \cup {NoNet}
  /\ session \in BOOLEAN /\ guard \in BOOLEAN
  /\ proven \in SUBSET Net
  /\ exposed \in SUBSET Exposure
  /\ losses \in 0 .. MaxLosses

-----------------------------------------------------------------------------
(* What the code computes from the store.                                  *)

\* load(): the selected slot, then the other one, if they validate.
Choice(S) == IF active \in S THEN active ELSE CHOOSE s \in S : \A t \in S : s <= t

Loaded(S) == IF S = {} THEN NoConfig ELSE slot[Choice(S)]

Stored  == Loaded({s \in Slot : slot[s] # NoConfig})        \* load()
Current == Loaded({s \in Slot : slot[s].provisioned})       \* load(require_provisioned=True)

Provisioned == Current # NoConfig

\* save() writes the slot that is not selected.
Target == IF active = 0 THEN 1 ELSE 0

\* network_trial_pending
Pending == trial # NoTrial /\ Provisioned /\ Current.net = trial.net

Init ==
  /\ slot = [s \in Slot |-> NoConfig]
  /\ active = NoSlot
  /\ trial = NoTrial
  /\ resetFlag = FALSE
  /\ bootkey = TRUE
  /\ certs = [f \in File |-> [now |-> 0, previous |-> 0]]
  /\ marker = NoMarker
  /\ modules = [now |-> 0, previous |-> 0]
  /\ recovery = FALSE
  /\ pc = "off"
  /\ job = NoJob
  /\ running = NoNet
  /\ session = FALSE
  /\ guard = FALSE
  /\ proven = {}
  /\ exposed = {}
  /\ losses = 0

Goto(p) == pc' = p

PowerDown ==
  /\ Goto("off")
  /\ job' = NoJob
  /\ running' = NoNet
  /\ session' = FALSE
  /\ guard' = FALSE

\* The running code goes on, or its handler returns.
Same(p) ==
  /\ Goto(p)
  /\ job' = IF p \in {"up", "setup", "console", "prepare"} THEN NoJob ELSE job
  /\ UNCHANGED ram

-----------------------------------------------------------------------------
(* recovery_boot.run: the factory reset, the certificate transaction, the  *)
(* network trial, then the console or the application.                     *)

\* Mutant: the request is taken back before the reset is done.
BootDisarms ==
  /\ pc = "off"
  /\ resetFlag' = FALSE
  /\ Same(IF resetFlag THEN "wipeCerts" ELSE "recover")
  /\ UNCHANGED <<slot, active, trial, bootkey, files, hist>>

Boot ==
  /\ pc = "off"
  /\ Same(IF resetFlag THEN "wipeCerts" ELSE "recover")
  /\ UNCHANGED <<nvs, files, hist>>

WipeCerts ==
  /\ pc = "wipeCerts"
  /\ certs' = [f \in File |-> [now |-> 0, previous |-> 0]]
  /\ marker' = NoMarker
  /\ Same("wipeModules")
  /\ UNCHANGED <<nvs, modules, recovery, hist>>

\* Mutant: the previous generation stays.
WipeModulesOnce ==
  /\ pc = "wipeModules"
  /\ modules' = [modules EXCEPT !.now = 0]
  /\ recovery' = FALSE
  /\ Same("wipeSlot0")
  /\ UNCHANGED <<nvs, certs, marker, hist>>

WipeModules ==
  /\ pc = "wipeModules"
  /\ modules' = [now |-> 0, previous |-> 0]
  /\ recovery' = FALSE
  /\ Same("wipeSlot0")
  /\ UNCHANGED <<nvs, certs, marker, hist>>

\* complete_factory_reset: one key after the other, the flag last.
WipeSlot ==
  /\ pc \in {"wipeSlot0", "wipeSlot1"}
  /\ slot' = [slot EXCEPT ![IF pc = "wipeSlot0" THEN 0 ELSE 1] = NoConfig]
  /\ Same(IF pc = "wipeSlot0" THEN "wipeSlot1" ELSE "wipeActive")
  /\ UNCHANGED <<active, trial, resetFlag, bootkey, files, hist>>

WipeActive ==
  /\ pc = "wipeActive"
  /\ active' = NoSlot
  /\ Same("wipeTrial")
  /\ UNCHANGED <<slot, trial, resetFlag, bootkey, files, hist>>

WipeTrial ==
  /\ pc = "wipeTrial"
  /\ trial' = NoTrial
  /\ Same("wipeFlag")
  /\ UNCHANGED <<slot, active, resetFlag, bootkey, files, hist>>

WipeFlag ==
  /\ pc = "wipeFlag"
  /\ resetFlag' = FALSE
  /\ Same("setup")
  /\ UNCHANGED <<slot, active, trial, bootkey, files, hist>>

\* Mutant: the marker is dropped and nothing is restored.
RecoverDrops ==
  /\ pc = "recover"
  /\ marker' = NoMarker
  /\ Same(IF Provisioned THEN "prepare" ELSE "setup")
  /\ UNCHANGED <<nvs, certs, modules, recovery, hist>>

Recover ==
  /\ pc = "recover"
  /\ IF marker.open
     THEN /\ Goto("restore")
          /\ job' = [NoJob EXCEPT !.kind = "recover", !.left = File]
     ELSE /\ Goto(IF Provisioned THEN "prepare" ELSE "setup")
          /\ UNCHANGED job
  /\ UNCHANGED <<nvs, files, ram, hist>>

\* prepare_network_trial_boot; Loads is its last case.
GiveUp ==
  /\ job' = [NoJob EXCEPT !.kind = "rollback", !.config = trial.previous]
  /\ Goto("blob")

PrepareTrial ==
  /\ pc = "prepare"
  /\ IF Pending /\ trial.attempts = 1 THEN GiveUp /\ UNCHANGED trial
     ELSE /\ trial' = IF Pending THEN [trial EXCEPT !.attempts = 1] ELSE NoTrial
          /\ Goto("attempt") /\ UNCHANGED job
  /\ UNCHANGED <<slot, active, resetFlag, bootkey, files, ram, hist>>

\* The console is asked for, or too many boots were unhealthy.
EnterConsole ==
  /\ pc = "attempt"
  /\ recovery' = TRUE
  /\ Same("console")
  /\ UNCHANGED <<nvs, certs, marker, modules, hist>>

\* load_json_with_backup repairs the modules.
StartApplication ==
  /\ pc = "attempt" /\ ~recovery
  /\ running' = Current.net
  /\ modules' = IF modules.now = 0 THEN [modules EXCEPT !.now = modules.previous]
                                   ELSE modules
  /\ Goto("connect")
  /\ UNCHANGED <<nvs, certs, marker, recovery, job, session, guard, hist>>

Connect ==
  /\ pc = "connect" /\ running \in Joins
  /\ Same("portal")
  /\ UNCHANGED <<nvs, files, hist>>

PortalStarts ==
  /\ pc = "portal"
  /\ guard' = Pending
  /\ Goto("up")
  /\ UNCHANGED <<nvs, files, job, running, session, hist>>

\* Mutant: the console is not asked for.
StartFailsSilently ==
  /\ pc \in {"connect", "portal"}
  /\ IF Pending THEN GiveUp /\ UNCHANGED <<recovery, ram>>
                 ELSE PowerDown /\ UNCHANGED recovery
  /\ UNCHANGED <<nvs, certs, marker, modules, hist>>

\* Without a trial the application ends and the supervisor asks for the console.
StartFails ==
  /\ pc \in {"connect", "portal"}
  /\ IF Pending THEN GiveUp /\ UNCHANGED <<recovery, ram>>
                 ELSE PowerDown /\ recovery' = TRUE
  /\ UNCHANGED <<nvs, certs, marker, modules, hist>>

\* network_trial_guard: it rolls back whatever trial it finds.
GuardFires ==
  /\ pc = "up" /\ guard
  /\ guard' = FALSE
  /\ IF Pending THEN GiveUp ELSE UNCHANGED <<pc, job>>
  /\ UNCHANGED <<nvs, files, running, session, hist>>

Restart ==
  /\ pc = "up"
  /\ PowerDown
  /\ recovery' \in BOOLEAN
  /\ UNCHANGED <<nvs, certs, marker, modules, hist>>

ConsoleEnds ==
  /\ pc = "console"
  /\ PowerDown
  /\ recovery' = FALSE
  /\ UNCHANGED <<nvs, certs, marker, modules, hist>>

-----------------------------------------------------------------------------
(* The portal: a sign-in, then the handlers that write.                    *)

\* confirm_network_trial does not look at the network in use.
Login ==
  /\ pc = "up" /\ running \in Reach /\ Provisioned
  /\ session' = TRUE
  /\ proven' = proven \cup {running}
  /\ trial' = IF Pending THEN NoTrial ELSE trial
  /\ exposed' = IF Pending /\ running # trial.net THEN exposed \cup {"early"}
                                                  ELSE exposed
  /\ UNCHANGED <<slot, active, resetFlag, bootkey, files, pc, job, running, guard,
                 losses>>

\* They read load(require_provisioned=True).
Handle(p, j) ==
  /\ pc = "up" /\ session /\ Provisioned
  /\ Goto(p)
  /\ job' = j

\* Settings and users of the portal, with the network as it is.
SaveSettings ==
  /\ Handle("blob", [NoJob EXCEPT !.config = Current])
  /\ UNCHANGED <<nvs, files, ram, hist>>

SaveModules ==
  /\ Handle("dropModules", [NoJob EXCEPT !.modules = 1])
  /\ UNCHANGED <<nvs, files, ram, hist>>

BeginTrial ==
  /\ \E n \in Net \ {Current.net} :
       Handle("begin", [NoJob EXCEPT !.kind = "begin", !.config = [Current EXCEPT !.net = n]])
  /\ UNCHANGED <<nvs, files, ram, hist>>

\* apply_configuration_import: settings, network trial and modules.
Import ==
  /\ \E n \in Net, m \in Modules :
       Handle(IF n = Current.net THEN "blob" ELSE "begin",
              [NoJob EXCEPT !.kind = "import", !.before = Current, !.modules = m,
                            !.config = [Current EXCEPT !.net = n]])
  /\ UNCHANGED <<nvs, files, ram, hist>>

\* apply_secure_configuration_import: the sections that were selected.
Restore ==
  /\ \E c \in {NoConfig} \cup {[Current EXCEPT !.net = n] : n \in Net},
        m \in Modules, k \in Pair \ {certs["cert"].now} :
       /\ m # 0 \/ k # 0 \/ c # NoConfig
       /\ Handle(IF m # 0 THEN "dropModules" ELSE IF k # 0 THEN "backUp" ELSE "blob",
                 [NoJob EXCEPT !.kind = "restore", !.config = c, !.modules = m,
                               !.certs = k, !.left = File])
  /\ UNCHANGED <<nvs, files, ram, hist>>

\* update_certificate_settings reads load(): after a loss of power during
\* Provision the active slot is the older one, and the save overwrites the
\* provisioned configuration.
ReadStale ==
  exposed' = IF Provisioned /\ Stored # Current THEN exposed \cup {"stale"} ELSE exposed

\* Certificates first, then their settings; in setup as well.
InstallCertificates ==
  /\ \/ pc = "up" /\ session
     \/ pc = "setup" /\ Stored # NoConfig
  /\ \E k \in Pair \ {0, certs["cert"].now} :
       job' = [NoJob EXCEPT !.kind = "install", !.config = Stored, !.certs = k,
                            !.left = File]
  /\ Goto("backUp")
  /\ ReadStale
  /\ UNCHANGED <<nvs, files, ram, proven, losses>>

\* update-acme-settings, renewals
SaveCertificateSettings ==
  /\ pc = "up" /\ session
  /\ job' = [NoJob EXCEPT !.config = Stored]
  /\ Goto("blob")
  /\ ReadStale
  /\ UNCHANGED <<nvs, files, ram, proven, losses>>

\* request_factory_reset: the setup password, then the flag.
RequestReset ==
  /\ Handle("arm", NoJob)
  /\ bootkey' = TRUE
  /\ UNCHANGED <<slot, active, trial, resetFlag, files, ram, hist>>

ArmReset ==
  /\ pc = "arm"
  /\ resetFlag' = TRUE
  /\ Same("up")
  /\ UNCHANGED <<slot, active, trial, bootkey, files, hist>>

-----------------------------------------------------------------------------
(* The recovery console and first-boot setup.                              *)

ConsoleWifi ==
  /\ pc = "console"
  /\ \E n \in Net :
       job' = [NoJob EXCEPT !.kind = "wifi", !.config = [Current EXCEPT !.net = n]]
  /\ Goto("blob")
  /\ UNCHANGED <<nvs, files, ram, hist>>

\* The wizard is served by its own access point, after Configure by the network.
\* It has saved the configuration when it finds out whether the
\* station joins; then it installs a certificate of its own.
Configure ==
  /\ pc = "setup"
  /\ \E n \in Net :
       job' = [NoJob EXCEPT !.kind = "configure", !.left = File, !.certs = 1,
                            !.config = [net |-> n, provisioned |-> FALSE]]
  /\ Goto("blob")
  /\ UNCHANGED <<nvs, files, ram, hist>>

Provision ==
  /\ pc = "setup" /\ Stored # NoConfig
  /\ certs["cert"].now # 0
  /\ job' = [NoJob EXCEPT !.kind = "provision",
                          !.config = [Stored EXCEPT !.provisioned = TRUE]]
  /\ Goto("blob")
  /\ proven' \in {proven} \cup {proven \cup ({Stored.net} \cap Reach)}
  /\ UNCHANGED <<nvs, files, ram, exposed, losses>>

EraseKey ==
  /\ pc = "eraseKey"
  /\ bootkey' = FALSE
  /\ PowerDown
  /\ UNCHANGED <<slot, active, trial, resetFlag, files, hist>>

-----------------------------------------------------------------------------
(* save, begin_network_trial, rollback_network_trial                       *)

\* Mutant: the previous configuration is not copied before it is changed.
WriteTrialAliased ==
  /\ pc = "begin"
  /\ trial' = [net |-> job.config.net, previous |-> job.config, attempts |-> 0]
  /\ exposed' = IF Current.net \in proven THEN exposed ELSE exposed \cup {"chained"}
  /\ Same("blob")
  /\ UNCHANGED <<slot, active, resetFlag, bootkey, files, proven, losses>>

WriteTrial ==
  /\ pc = "begin"
  /\ trial' = [net |-> job.config.net, previous |-> Current, attempts |-> 0]
  /\ exposed' = IF Current.net \in proven THEN exposed ELSE exposed \cup {"chained"}
  /\ Same("blob")
  /\ UNCHANGED <<slot, active, resetFlag, bootkey, files, proven, losses>>

\* History only: networks that no trial guards and nobody was served over.
Unguarded ==
  IF job.kind \in {"restore", "wifi", "provision"} /\ job.config.net \notin proven
  THEN {"unguarded"} ELSE {}

WriteBlob ==
  /\ pc = "blob"
  /\ slot' = [slot EXCEPT ![Target] = job.config]
  /\ exposed' = exposed \cup Unguarded
  /\ Same("select")
  /\ UNCHANGED <<active, trial, resetFlag, bootkey, files, proven, losses>>

AfterSave ==
  CASE job.kind = "import" /\ job.modules # 0 -> "dropModules"
    [] job.kind = "rollback"                    -> "clear"
    [] job.kind = "configure"                   -> "backUp"
    [] job.kind = "provision"                   -> "eraseKey"
    [] job.kind = "install" /\ ~session         -> "setup"
    [] OTHER                                    -> "up"

Select ==
  /\ pc = "select"
  /\ active' = Target
  /\ IF job.kind = "wifi"
     THEN PowerDown /\ recovery' = FALSE
     ELSE Same(AfterSave) /\ UNCHANGED recovery
  /\ UNCHANGED <<slot, trial, resetFlag, bootkey, certs, marker, modules, hist>>

Undo == /\ job' = [NoJob EXCEPT !.kind = "undo", !.config = job.before]
        /\ Goto("blob")

\* No room in NVS: the trial record is removed again, and an import saves
\* what was there before.
SaveFails ==
  /\ \/ pc = "blob" /\ job.kind \in {"begin", "import"} /\ job.config.net # Current.net
        /\ Same("clear")
     \/ pc = "begin" /\ job.kind = "begin" /\ Same("up")
     \/ pc = "begin" /\ job.kind = "import" /\ Undo /\ UNCHANGED ram
     \/ pc = "blob" /\ job.kind = "import" /\ job.config.net = Current.net
        /\ Undo /\ UNCHANGED ram
     \/ pc = "blob" /\ job.kind \in {"save", "restore", "undo", "install"}
        /\ Same(IF session THEN "up" ELSE "setup")
     \/ pc = "blob" /\ job.kind \in {"configure", "provision"} /\ Same("setup")
     \/ pc = "blob" /\ job.kind = "wifi" /\ Same("console")
  /\ UNCHANGED <<nvs, files, hist>>

ClearTrial ==
  /\ pc = "clear"
  /\ trial' = NoTrial
  /\ CASE job.kind = "rollback" -> PowerDown /\ recovery' = FALSE
       [] job.kind = "import"   -> Undo /\ UNCHANGED <<recovery, ram>>
       [] OTHER                 -> Same("up") /\ UNCHANGED recovery
  /\ UNCHANGED <<slot, active, resetFlag, bootkey, certs, marker, modules, hist>>

-----------------------------------------------------------------------------
(* commit_file_with_backup                                                 *)

DropModules ==
  /\ pc = "dropModules"
  /\ modules' = [modules EXCEPT !.previous = 0]
  /\ Same("moveModules")
  /\ UNCHANGED <<nvs, certs, marker, recovery, hist>>

MoveModules ==
  /\ pc = "moveModules"
  /\ modules' = [now |-> 0, previous |-> modules.now]
  /\ Same("placeModules")
  /\ UNCHANGED <<nvs, certs, marker, recovery, hist>>

PlaceModules ==
  /\ pc = "placeModules"
  /\ modules' = [modules EXCEPT !.now = job.modules]
  /\ Same(IF job.kind = "restore" /\ job.certs # 0 THEN "backUp"
          ELSE IF job.kind = "restore" /\ job.config # NoConfig THEN "blob" ELSE "up")
  /\ UNCHANGED <<nvs, certs, marker, recovery, hist>>

\* The rename fails: the previous generation is put back, an import is undone.
ModulesFail ==
  /\ pc = "placeModules"
  /\ modules' = [now |-> modules.previous, previous |-> 0]
  /\ IF job.kind = "import" THEN Undo /\ UNCHANGED ram ELSE Same("up")
  /\ UNCHANGED <<nvs, certs, marker, recovery, hist>>

-----------------------------------------------------------------------------
(* commit_certificate_files, recover_certificate_transaction               *)

\* The loops take the certificate first.
NextFile == IF "cert" \in job.left THEN "cert" ELSE "key"

BackUp ==
  /\ pc = "backUp" /\ job.left # {}
  /\ LET f == NextFile IN
       /\ certs' = [certs EXCEPT ![f].previous = certs[f].now]
       /\ job' = [job EXCEPT !.left = @ \ {f}]
  /\ UNCHANGED <<nvs, marker, modules, recovery, pc, ram, hist>>

Mark ==
  /\ pc = "backUp" /\ job.left = {}
  /\ marker' = [open |-> TRUE, existed |-> {f \in File : certs[f].now # 0}]
  /\ job' = [job EXCEPT !.left = File]
  /\ Goto("replace")
  /\ UNCHANGED <<nvs, certs, modules, recovery, ram, hist>>

Replace ==
  /\ pc = "replace" /\ job.left # {}
  /\ LET f == NextFile IN
       /\ certs' = [certs EXCEPT ![f].now = job.certs]
       /\ job' = [job EXCEPT !.left = @ \ {f}]
  /\ UNCHANGED <<nvs, marker, modules, recovery, pc, ram, hist>>

\* The pair does not validate, or a file is missing: everything goes back.
CertificatesFail ==
  /\ pc = "replace"
  /\ job' = [job EXCEPT !.left = File, !.config = NoConfig]
  /\ Goto("restore")
  /\ UNCHANGED <<nvs, files, ram, hist>>

RestoreFile ==
  /\ pc = "restore" /\ job.left # {}
  /\ LET f == NextFile IN
       /\ certs' = [certs EXCEPT ![f].now = IF f \in marker.existed
                                           THEN certs[f].previous ELSE 0]
       /\ job' = [job EXCEPT !.left = @ \ {f}]
  /\ UNCHANGED <<nvs, marker, modules, recovery, pc, ram, hist>>

Unmark ==
  /\ pc \in {"replace", "restore"} /\ job.left = {}
  /\ marker' = NoMarker
  /\ Same("clean")
  /\ UNCHANGED <<nvs, certs, modules, recovery, hist>>

Clean ==
  /\ pc = "clean"
  /\ certs' = [f \in File |-> [certs[f] EXCEPT !.previous = 0]]
  /\ Same(CASE job.kind = "recover" -> IF Provisioned THEN "prepare" ELSE "setup"
            [] job.kind = "configure" -> "setup"
            [] job.kind \in {"install", "restore"} /\ job.config # NoConfig -> "blob"
            [] OTHER -> IF session THEN "up" ELSE "setup")
  /\ UNCHANGED <<nvs, marker, modules, recovery, hist>>

-----------------------------------------------------------------------------
PowerLoss ==
  /\ pc # "off" /\ losses < MaxLosses
  /\ losses' = losses + 1
  /\ PowerDown
  /\ UNCHANGED <<nvs, files, proven, exposed>>

\* Power is lost between the remove and the rename of _replace.
TornReplace ==
  /\ pc \in {"replace", "restore"} /\ losses < MaxLosses
  /\ losses' = losses + 1
  /\ job.left # {}
  /\ certs' = [certs EXCEPT ![NextFile].now = 0]
  /\ PowerDown
  /\ UNCHANGED <<nvs, marker, modules, recovery, proven, exposed>>

Supervisor == Boot \/ WipeCerts \/ WipeModules \/ WipeSlot \/ WipeActive \/ WipeTrial
              \/ WipeFlag \/ Recover \/ PrepareTrial \/ EnterConsole
              \/ StartApplication \/ Connect \/ PortalStarts \/ StartFails
Write      == WriteTrial \/ WriteBlob \/ Select \/ SaveFails \/ ClearTrial \/ ArmReset
              \/ EraseKey \/ DropModules \/ MoveModules \/ PlaceModules \/ ModulesFail
              \/ BackUp \/ Mark \/ Replace \/ CertificatesFail \/ RestoreFile
              \/ Unmark \/ Clean
Request    == Login \/ SaveSettings \/ SaveModules \/ BeginTrial \/ Import \/ Restore
              \/ InstallCertificates \/ SaveCertificateSettings \/ RequestReset
              \/ ConsoleWifi \/ Configure \/ Provision \/ Restart

Next == Supervisor \/ Write \/ Request \/ GuardFires \/ ConsoleEnds
        \/ PowerLoss \/ TornReplace

(***************************************************************************)
(* The supervisor and the handlers are straight-line code; the guard and   *)
(* the console's time-out are timers that other requests do not hold up.   *)
(* No administrator has to do anything, and no application has to restart. *)
(***************************************************************************)
Fairness ==
  /\ WF_vars(Supervisor \/ Write)
  /\ SF_vars(GuardFires)
  /\ SF_vars(ConsoleEnds)

Spec == Init /\ [][Next]_vars /\ Fairness

-----------------------------------------------------------------------------
(* Correctness.                                                            *)

Promised == exposed \cap Excused = {}

\* Whenever the device restarts, it uses a network over which an administrator
\* was served, or one that a trial guards whose other end is such a network.
NetworkGuarded ==
  (Promised /\ Provisioned /\ ~resetFlag) =>
    \/ Current.net \in proven
    \/ Pending /\ trial.previous.net \in proven

\* A trial is confirmed by a sign-in over the network it tries, and never by
\* anything else: the message of the portal promises to go back otherwise.
ConfirmedInUse ==
  [][(pc = "up" /\ trial # NoTrial /\ trial' = NoTrial /\ pc' = "up") => running = trial.net]_vars

\* A device that cannot start its application for want of a configuration can
\* open the access point of first-boot setup.
SetupReachable == ~Provisioned => bootkey

\* The flag of a factory reset falls when nothing of the user is left, however
\* often the reset was interrupted.
ResetIsComplete ==
  [][(resetFlag /\ ~resetFlag') =>
       /\ \A s \in Slot : slot'[s] = NoConfig
       /\ active' = NoSlot /\ trial' = NoTrial /\ bootkey'
       /\ \A f \in File : certs'[f].now = 0
       /\ modules'.now = 0 /\ modules'.previous = 0]_vars

\* Outside of a certificate transaction certificate and key belong together.
PairMatches == ~marker.open => certs["cert"].now = certs["key"].now

\* Only a factory reset takes the configuration of a device away.
StaysProvisioned ==
  [][(Provisioned /\ ~Provisioned') => (resetFlag \/ ~Promised')]_vars

\* No handler but the factory reset loses both generations of the modules.
ModulesKept ==
  [][(modules.now # 0 \/ modules.previous # 0) =>
       (modules'.now # 0 \/ modules'.previous # 0 \/ resetFlag)]_vars

\* A network that was tried is kept or given up.
TrialDecided == trial.attempts = 1 ~> (trial.attempts = 0 \/ ~Promised)

\* Whatever networks are configured, the device comes back to a portal an
\* administrator can reach, or to the console or the setup of its own.
NotStranded ==
  []<>(\/ pc \in {"console", "setup"}
       \/ pc = "up" /\ running \in Reach
       \/ ~Promised)

\* Whenever power fails, the next boot has a network somebody was served over, or goes back
\* to one, or can open the access point of first-boot setup.
WithinReach == TypeOK /\ NetworkGuarded /\ SetupReachable

\* No step but a factory reset takes the configuration or both generations of the modules.
KeepsConfiguration == StaysProvisioned /\ ModulesKept

\* Every trial is decided, and the device comes back to somebody who can repair it.
ComesBack == TrialDecided /\ NotStranded

==============================================================================
