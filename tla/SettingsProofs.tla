---------------------------- MODULE SettingsProofs ----------------------------
(***************************************************************************)
(* Theorems about Settings for every set of networks, every number of      *)
(* certificate pairs and every number of losses of power.                  *)
(***************************************************************************)
EXTENDS Settings, TLAPS

\* The steps outside of a handler, those of a factory reset, those of a start, and those of a
\* handler of module_settings.json.
Wiping   == {"wipeCerts", "wipeModules", "wipeSlot0", "wipeSlot1", "wipeActive", "wipeTrial",
             "wipeFlag"}
Starting == {"prepare", "attempt", "load", "connect", "portal", "console"}
Resting  == Wiping \cup Starting \cup {"off", "recover", "up", "setup", "arm"}
Moving   == {"dropModules", "moveModules", "placeModules"}

\* The certificate transaction: while the marker is open the backups say what to go back to,
\* and each loop leaves behind it the files it has to leave.
Paired ==
  /\ marker.open => pc \in {"off", "wipeCerts", "recover", "replace", "restore"}
  /\ pc \in {"replace", "restore"} => marker.open
  /\ marker.open => /\ marker.existed \in {{}, File}
                    /\ marker.existed = File => certs["cert"].previous = certs["key"].previous
  /\ ~marker.open => certs["cert"].now = certs["key"].now
  /\ pc = "backUp" => \A f \in File \ job.left : certs[f].previous = certs[f].now
  /\ pc = "replace" => \A f \in File \ job.left : certs[f].now = job.certs
  /\ pc = "restore" => \A f \in File \ job.left :
        certs[f].now = IF f \in marker.existed THEN certs[f].previous ELSE 0

\* A factory reset is armed until its last step, and what it has passed is empty.
Wiped ==
  /\ pc \in Wiping => resetFlag
  /\ pc \notin Wiping \cup {"off"} /\ ~session => ~resetFlag
  /\ resetFlag \/ pc = "arm" => bootkey
  /\ pc \in Wiping \ {"wipeCerts"} => \A f \in File : certs[f].now = 0
  /\ pc \in Wiping \ {"wipeCerts", "wipeModules"} => modules.now = 0 /\ modules.previous = 0
  /\ pc \in {"wipeSlot1", "wipeActive", "wipeTrial", "wipeFlag"} => slot[0] = NoConfig
  /\ pc \in {"wipeActive", "wipeTrial", "wipeFlag"} => slot[1] = NoConfig
  /\ pc \in {"wipeTrial", "wipeFlag"} => active = NoSlot
  /\ pc = "wipeFlag" => trial = NoTrial

\* The arguments of a handler, by its kind and its step.
Handled ==
  /\ pc \in Resting => job = NoJob
  /\ pc \in {"begin", "blob", "select"} => job.config # NoConfig
  /\ pc = "select" => slot[Target] = job.config
  /\ job.kind \in {"begin", "import", "undo", "restore"} => session
  /\ job.kind = "save" /\ pc \notin Resting => session
  /\ job.kind = "import" => job.before # NoConfig
  /\ job.kind = "provision" => job.config.provisioned
  /\ job.kind \in {"provision", "configure", "wifi"} => ~session
  /\ job.kind = "configure" => ~job.config.provisioned
  /\ session => pc \notin {"off", "recover", "setup", "eraseKey"} \cup Wiping \cup Starting
  /\ pc \in Moving => session /\ job.kind \in {"save", "import", "restore"} /\ job.modules # 0
  /\ pc = "begin" => job.kind \in {"begin", "import"}
  /\ pc = "clear" => job.kind \in {"begin", "import", "rollback"}
  /\ pc = "eraseKey" => job.kind = "provision"
  /\ pc \in {"backUp", "replace"} => job.kind \in {"install", "restore", "configure"}
  /\ pc \in {"restore", "clean"} =>
        job.kind \in {"install", "restore", "configure", "recover"}
  /\ pc = "arm" => session
  /\ job.kind = "recover" => pc \in {"restore", "clean"} /\ ~session
  /\ pc \in {"blob", "select"} /\ job.kind = "configure" => job.left = File
  /\ pc \in Moving /\ job.kind = "restore" => job.left = File

\* Without a setup password there is a configuration to start with.
Keyed ==
  /\ ~bootkey => active \in Slot /\ slot[active].provisioned
  /\ ~bootkey /\ job.config # NoConfig => job.config.provisioned
  /\ pc = "eraseKey" => active \in Slot /\ slot[active].provisioned
  /\ trial # NoTrial => trial.previous.provisioned
  /\ job.before # NoConfig => job.before.provisioned
  /\ pc \in Starting \cup {"begin"} => Provisioned
  /\ pc \in Starting \cup {"up"} \/ session => \E s \in Slot : slot[s] # NoConfig
  /\ job.kind = "wifi" => Provisioned /\ job.config.provisioned
  /\ pc = "setup" => ~Provisioned
  /\ job.kind = "configure" \/ (job.kind = "install" /\ ~session) => ~Provisioned
  /\ job.kind = "install" /\ ~session => ~job.config.provisioned
  /\ job.kind = "provision" /\ pc = "blob" => ~Provisioned

\* One generation of the modules is there while the other is exchanged.
Moved ==
  /\ (session \/ pc \in {"connect", "portal", "up"}) /\ pc # "placeModules" =>
        modules.now # 0 \/ modules.previous = 0
  /\ pc = "moveModules" => modules.previous = 0
  /\ pc = "placeModules" => modules.now = 0

\* Where the device may go on to: a network somebody was served over, or one that is tried.
Usable(n) == n \in proven \/ (trial # NoTrial /\ trial.net = n)

Guarded ==
  /\ trial # NoTrial => trial.previous.net \in proven
  /\ job.config # NoConfig /\ ~job.config.provisioned => ~Provisioned
  /\ ~resetFlag => (Provisioned => Usable(Current.net))
  /\ ~resetFlag => (pc = "select" /\ job.config.provisioned => Usable(job.config.net))
  /\ ~resetFlag => (job.kind \in {"save", "install", "undo"} /\ job.config.provisioned =>
                      Usable(job.config.net))
  /\ job.kind = "rollback" => job.config.net \in proven
  /\ (pc = "blob" /\ job.kind \in {"begin", "import"}) =>
        \/ job.config.net = Current.net
        \/ Current.net \in proven /\ trial # NoTrial /\ trial.net = job.config.net
  /\ pc = "clear" => (Provisioned => Current.net \in proven)
  /\ ~resetFlag => (job.kind = "import" => Usable(job.before.net))
  /\ pc = "clear" /\ job.kind = "import" => job.before.net \in proven
  /\ job.kind = "import" /\ pc \in {"begin", "blob"} => job.before = Current

\* The inductive invariant.
IInv == /\ TypeOK
        /\ Paired
        /\ Wiped
        /\ Handled
        /\ Keyed
        /\ Moved
        /\ exposed = {} => Guarded

-----------------------------------------------------------------------------
(* What the code computes from the store.                                  *)

\* What the current configuration is, whichever slots hold one.
CurrentIs ==
  /\ Provisioned <=> \E s \in Slot : slot[s].provisioned
  /\ Provisioned => \E s \in Slot : slot[s].provisioned /\ Current = slot[s]
  /\ Provisioned => Current \in Config /\ Current.provisioned
  /\ ~Provisioned => Current = NoConfig
  /\ active \in Slot => (slot[active].provisioned => Current = slot[active])
  /\ active = NoSlot => (slot[0].provisioned => Current = slot[0])

\* What load() returns, provisioned or not.
StoredIs ==
  /\ Stored \in Config \cup {NoConfig}
  /\ Provisioned => Stored # NoConfig
  /\ Stored # NoConfig => \E s \in Slot : Stored = slot[s]
  /\ (\E s \in Slot : slot[s] # NoConfig) => Stored # NoConfig
  /\ active \in Slot => (slot[active] # NoConfig => Stored = slot[active])

LEMMA Nothing ==
  /\ NoConfig \notin Config /\ NoConfig.provisioned = FALSE /\ NoConfig.net = NoNet
  /\ NoTrial \notin Trial
  /\ NoJob \in Job /\ NoJob.kind = "save" /\ NoJob.config = NoConfig /\ NoJob.before = NoConfig
  /\ NoJob.modules = 0 /\ NoJob.certs = 0 /\ NoJob.left = {}
  /\ 0 \in Slot /\ 1 \in Slot /\ NoSlot \notin Slot
BY NetAssumption, BoundsAssumption
DEF NoConfig, Config, NoTrial, Trial, NoJob, Job, Handler, Modules, Pair, Slot, NoSlot

\* A slot is chosen among those that hold a configuration, the active one first.
LEMMA Chosen ==
  ASSUME NEW S \in SUBSET Slot, S # {}
  PROVE  /\ Choice(S) \in S
         /\ active \in S => Choice(S) = active
         /\ active \notin S /\ 0 \in S => Choice(S) = 0
<1>1. \E s \in S : \A t \in S : s <= t
  <2>1. CASE 0 \in S
    BY <2>1 DEF Slot
  <2>2. CASE 0 \notin S
    <3>1. 1 \in S /\ \A t \in S : t = 1
      BY <2>2 DEF Slot
    <3>2. 1 <= 1
      OBVIOUS
    <3> QED
      BY <3>1, <3>2
  <2> QED
    BY <2>1, <2>2
<1> DEFINE m == CHOOSE s \in S : \A t \in S : s <= t
<1>2. m \in S /\ \A t \in S : m <= t
  BY <1>1
<1>3. 0 \in S => m = 0
  <2>1. m \in {0, 1} /\ (0 \in S => m <= 0)
    BY <1>2 DEF Slot
  <2> HIDE DEF m
  <2> QED
    BY <2>1
<1> HIDE DEF m
<1>4. Choice(S) = IF active \in S THEN active ELSE m
  BY DEF Choice, m
<1> QED
  BY <1>2, <1>3, <1>4

LEMMA CurrentFacts == TypeOK => CurrentIs
<1> SUFFICES ASSUME TypeOK PROVE CurrentIs
  OBVIOUS
<1> DEFINE S == {s \in Slot : slot[s].provisioned}
<1>1. S \in SUBSET Slot
  OBVIOUS
<1>2. \A s \in Slot : slot[s].provisioned => slot[s] \in Config
  BY Nothing DEF TypeOK
<1>3. Current = IF S = {} THEN NoConfig ELSE slot[Choice(S)]
  BY DEF Current, Loaded
<1>4. S # {} => Choice(S) \in S
  BY <1>1, Chosen
<1>5. active \in S => Choice(S) = active
  BY <1>1, Chosen
<1>6. active \notin S /\ 0 \in S => Choice(S) = 0
  BY <1>1, Chosen
<1>7. Provisioned <=> S # {}
  BY <1>2, <1>3, <1>4, Nothing DEF Provisioned
<1>8. \A s \in Slot : s \in S <=> slot[s].provisioned
  OBVIOUS
<1>9. 0 \in Slot /\ NoSlot \notin Slot
  BY Nothing
<1> HIDE DEF S
<1> QED
  BY <1>1, <1>2, <1>3, <1>4, <1>5, <1>6, <1>7, <1>8, <1>9 DEF CurrentIs

LEMMA StoredFacts == TypeOK => StoredIs
<1> SUFFICES ASSUME TypeOK PROVE StoredIs
  OBVIOUS
<1> DEFINE S == {s \in Slot : slot[s] # NoConfig}
<1>1. S \in SUBSET Slot
  OBVIOUS
<1>2. \A s \in Slot : slot[s] \in Config \cup {NoConfig}
  BY DEF TypeOK
<1>3. Stored = IF S = {} THEN NoConfig ELSE slot[Choice(S)]
  BY DEF Stored, Loaded
<1>4. S # {} => Choice(S) \in S
  BY <1>1, Chosen
<1>5. active \in S => Choice(S) = active
  BY <1>1, Chosen
<1>6. Provisioned => S # {}
  BY CurrentFacts, Nothing DEF CurrentIs
<1>7. \A s \in Slot : s \in S <=> slot[s] # NoConfig
  OBVIOUS
<1> HIDE DEF S
<1> QED
  BY <1>1, <1>2, <1>3, <1>4, <1>5, <1>6, <1>7 DEF StoredIs

LEMMA CurrentFactsNext == TypeOK' => CurrentIs'
BY CurrentFacts, PTL

\* What does not write the store does not change what is read from it.
LEMMA SameStore ==
  ASSUME TypeOK, UNCHANGED <<slot, active>>
  PROVE  Current' = Current /\ Stored' = Stored /\ (Provisioned' <=> Provisioned)
<1>1. {s \in Slot : slot[s].provisioned}' = {s \in Slot : slot[s].provisioned}
  OBVIOUS
<1>2. {s \in Slot : slot[s] # NoConfig}' = {s \in Slot : slot[s] # NoConfig}
  OBVIOUS
<1>3. \A S \in SUBSET Slot : Choice(S)' = Choice(S)
  BY DEF Choice
<1>4. Current' = Current
  BY <1>1, <1>3 DEF Current, Loaded
<1>5. Stored' = Stored
  BY <1>2, <1>3 DEF Stored, Loaded
<1> QED
  BY <1>4, <1>5 DEF Provisioned

-----------------------------------------------------------------------------
(* The invariant, part by part and action by action.                       *)

\* Certificate and key: the transaction.
LEMMA PairedStep ==
  ASSUME TypeOK, Paired, Handled, Next
  PROVE  Paired'
<1> USE DEF TypeOK, Paired, Handled, Resting, Wiping, Starting, Moving, Goto, Same, PowerDown,
    Undo, GiveUp, Handle, nvs, files, ram, hist
<1>1. CASE Supervisor
  <2>1. CASE Boot
    BY <2>1 DEF Boot
  <2>2. CASE WipeCerts
    BY <2>2 DEF WipeCerts, File, NoMarker, Marker
  <2>3. CASE WipeModules
    BY <2>3 DEF WipeModules
  <2>4. CASE WipeSlot
    BY <2>4 DEF WipeSlot
  <2>5. CASE WipeActive
    BY <2>5 DEF WipeActive
  <2>6. CASE WipeTrial
    BY <2>6 DEF WipeTrial
  <2>7. CASE WipeFlag
    BY <2>7 DEF WipeFlag
  <2>8. CASE Recover
    BY <2>8, Nothing DEF Recover, Job
  <2>9. CASE PrepareTrial
    BY <2>9 DEF PrepareTrial
  <2>10. CASE EnterConsole
    BY <2>10 DEF EnterConsole
  <2>11. CASE StartApplication
    BY <2>11 DEF StartApplication
  <2>12. CASE Connect
    BY <2>12 DEF Connect
  <2>13. CASE PortalStarts
    BY <2>13 DEF PortalStarts
  <2>14. CASE StartFails
    BY <2>14 DEF StartFails
  <2> QED
    BY <1>1, <2>1, <2>2, <2>3, <2>4, <2>5, <2>6, <2>7, <2>8, <2>9, <2>10, <2>11, <2>12, <2>13,
        <2>14
    DEF Supervisor
<1>2. CASE Write
  <2>1. CASE WriteTrial
    BY <2>1 DEF WriteTrial
  <2>2. CASE WriteBlob
    BY <2>2 DEF WriteBlob
  <2>3. CASE Select
    BY <2>3 DEF Select, AfterSave
  <2>4. CASE SaveFails
    BY <2>4 DEF SaveFails
  <2>5. CASE ClearTrial
    BY <2>5 DEF ClearTrial
  <2>6. CASE ArmReset
    BY <2>6 DEF ArmReset
  <2>7. CASE EraseKey
    BY <2>7 DEF EraseKey
  <2>8. CASE DropModules
    BY <2>8 DEF DropModules
  <2>9. CASE MoveModules
    BY <2>9 DEF MoveModules
  <2>10. CASE PlaceModules
    BY <2>10 DEF PlaceModules
  <2>11. CASE ModulesFail
    BY <2>11 DEF ModulesFail
  <2>12. CASE BackUp
    BY <2>12 DEF BackUp, NextFile, File
  <2>13. CASE Mark
    BY <2>13 DEF Mark, NextFile, File, NoMarker, Marker
  <2>14. CASE Replace
    BY <2>14 DEF Replace, NextFile, File
  <2>15. CASE CertificatesFail
    BY <2>15 DEF CertificatesFail, NextFile, File
  <2>16. CASE RestoreFile
    BY <2>16 DEF RestoreFile, NextFile, File
  <2>17. CASE Unmark
    BY <2>17 DEF Unmark, NextFile, File, NoMarker, Marker
  <2>18. CASE Clean
    BY <2>18 DEF Clean, File
  <2> QED
    BY <1>2, <2>1, <2>2, <2>3, <2>4, <2>5, <2>6, <2>7, <2>8, <2>9, <2>10, <2>11, <2>12, <2>13,
        <2>14, <2>15, <2>16, <2>17, <2>18
    DEF Write
<1>3. CASE Request
  <2>1. CASE Login
    BY <2>1 DEF Login
  <2>2. CASE SaveSettings
    BY <2>2 DEF SaveSettings
  <2>3. CASE SaveModules
    BY <2>3 DEF SaveModules
  <2>4. CASE BeginTrial
    BY <2>4 DEF BeginTrial
  <2>5. CASE Import
    BY <2>5 DEF Import
  <2>6. CASE Restore
    BY <2>6 DEF Restore
  <2>7. CASE InstallCertificates
    BY <2>7 DEF InstallCertificates
  <2>8. CASE SaveCertificateSettings
    BY <2>8 DEF SaveCertificateSettings
  <2>9. CASE RequestReset
    BY <2>9 DEF RequestReset
  <2>10. CASE ConsoleWifi
    BY <2>10 DEF ConsoleWifi
  <2>11. CASE Configure
    BY <2>11 DEF Configure
  <2>12. CASE Provision
    BY <2>12 DEF Provision
  <2>13. CASE Restart
    BY <2>13 DEF Restart
  <2> QED
    BY <1>3, <2>1, <2>2, <2>3, <2>4, <2>5, <2>6, <2>7, <2>8, <2>9, <2>10, <2>11, <2>12, <2>13
    DEF Request
<1>4. CASE GuardFires
  BY <1>4 DEF GuardFires
<1>5. CASE ConsoleEnds
  BY <1>5 DEF ConsoleEnds
<1>6. CASE PowerLoss
  BY <1>6 DEF PowerLoss
<1>7. CASE TornReplace
  BY <1>7 DEF TornReplace, NextFile, File
<1> QED
  BY <1>1, <1>2, <1>3, <1>4, <1>5, <1>6, <1>7 DEF Next

\* The modules and their previous generation.
LEMMA MovedStep ==
  ASSUME TypeOK, Handled, Moved, Next
  PROVE  Moved'
<1> USE DEF TypeOK, Moved, Handled, Resting, Wiping, Starting, Moving, Goto, Same, PowerDown,
    Undo, GiveUp, Handle, nvs, files, ram, hist
<1>1. CASE Supervisor
  <2>1. CASE Boot
    BY <2>1 DEF Boot
  <2>2. CASE WipeCerts
    BY <2>2 DEF WipeCerts
  <2>3. CASE WipeModules
    BY <2>3 DEF WipeModules
  <2>4. CASE WipeSlot
    BY <2>4 DEF WipeSlot
  <2>5. CASE WipeActive
    BY <2>5 DEF WipeActive
  <2>6. CASE WipeTrial
    BY <2>6 DEF WipeTrial
  <2>7. CASE WipeFlag
    BY <2>7 DEF WipeFlag
  <2>8. CASE Recover
    BY <2>8 DEF Recover
  <2>9. CASE PrepareTrial
    BY <2>9 DEF PrepareTrial
  <2>10. CASE EnterConsole
    BY <2>10 DEF EnterConsole
  <2>11. CASE StartApplication
    BY <2>11 DEF StartApplication
  <2>12. CASE Connect
    BY <2>12 DEF Connect
  <2>13. CASE PortalStarts
    BY <2>13 DEF PortalStarts
  <2>14. CASE StartFails
    BY <2>14 DEF StartFails
  <2> QED
    BY <1>1, <2>1, <2>2, <2>3, <2>4, <2>5, <2>6, <2>7, <2>8, <2>9, <2>10, <2>11, <2>12, <2>13,
        <2>14
    DEF Supervisor
<1>2. CASE Write
  <2>1. CASE WriteTrial
    BY <2>1 DEF WriteTrial
  <2>2. CASE WriteBlob
    BY <2>2 DEF WriteBlob
  <2>3. CASE Select
    BY <2>3 DEF Select, AfterSave, Job, Handler
  <2>4. CASE SaveFails
    BY <2>4 DEF SaveFails
  <2>5. CASE ClearTrial
    BY <2>5 DEF ClearTrial
  <2>6. CASE ArmReset
    BY <2>6 DEF ArmReset
  <2>7. CASE EraseKey
    BY <2>7 DEF EraseKey
  <2>8. CASE DropModules
    BY <2>8 DEF DropModules
  <2>9. CASE MoveModules
    BY <2>9 DEF MoveModules
  <2>10. CASE PlaceModules
    BY <2>10 DEF PlaceModules
  <2>11. CASE ModulesFail
    BY <2>11 DEF ModulesFail
  <2>12. CASE BackUp
    BY <2>12 DEF BackUp
  <2>13. CASE Mark
    BY <2>13 DEF Mark
  <2>14. CASE Replace
    BY <2>14 DEF Replace
  <2>15. CASE CertificatesFail
    BY <2>15 DEF CertificatesFail
  <2>16. CASE RestoreFile
    BY <2>16 DEF RestoreFile
  <2>17. CASE Unmark
    BY <2>17 DEF Unmark
  <2>18. CASE Clean
    BY <2>18 DEF Clean
  <2> QED
    BY <1>2, <2>1, <2>2, <2>3, <2>4, <2>5, <2>6, <2>7, <2>8, <2>9, <2>10, <2>11, <2>12, <2>13,
        <2>14, <2>15, <2>16, <2>17, <2>18
    DEF Write
<1>3. CASE Request
  <2>1. CASE Login
    BY <2>1 DEF Login
  <2>2. CASE SaveSettings
    BY <2>2 DEF SaveSettings
  <2>3. CASE SaveModules
    BY <2>3 DEF SaveModules
  <2>4. CASE BeginTrial
    BY <2>4 DEF BeginTrial
  <2>5. CASE Import
    BY <2>5 DEF Import
  <2>6. CASE Restore
    BY <2>6 DEF Restore
  <2>7. CASE InstallCertificates
    BY <2>7 DEF InstallCertificates
  <2>8. CASE SaveCertificateSettings
    BY <2>8 DEF SaveCertificateSettings
  <2>9. CASE RequestReset
    BY <2>9 DEF RequestReset
  <2>10. CASE ConsoleWifi
    BY <2>10 DEF ConsoleWifi
  <2>11. CASE Configure
    BY <2>11 DEF Configure
  <2>12. CASE Provision
    BY <2>12 DEF Provision
  <2>13. CASE Restart
    BY <2>13 DEF Restart
  <2> QED
    BY <1>3, <2>1, <2>2, <2>3, <2>4, <2>5, <2>6, <2>7, <2>8, <2>9, <2>10, <2>11, <2>12, <2>13
    DEF Request
<1>4. CASE GuardFires
  BY <1>4 DEF GuardFires
<1>5. CASE ConsoleEnds
  BY <1>5 DEF ConsoleEnds
<1>6. CASE PowerLoss
  BY <1>6 DEF PowerLoss
<1>7. CASE TornReplace
  BY <1>7 DEF TornReplace
<1> QED
  BY <1>1, <1>2, <1>3, <1>4, <1>5, <1>6, <1>7 DEF Next

\* The factory reset.
LEMMA WipedStep ==
  ASSUME TypeOK, Handled, Wiped, Next
  PROVE  Wiped'
<1> USE DEF TypeOK, Wiped, Handled, Resting, Wiping, Starting, Moving, Goto, Same, PowerDown,
    Undo, GiveUp, Handle, nvs, files, ram, hist
<1>1. CASE Supervisor
  <2>1. CASE Boot
    BY <2>1 DEF Boot
  <2>2. CASE WipeCerts
    BY <2>2 DEF WipeCerts, File
  <2>3. CASE WipeModules
    BY <2>3 DEF WipeModules
  <2>4. CASE WipeSlot
    BY <2>4 DEF WipeSlot, Slot
  <2>5. CASE WipeActive
    BY <2>5 DEF WipeActive
  <2>6. CASE WipeTrial
    BY <2>6 DEF WipeTrial
  <2>7. CASE WipeFlag
    BY <2>7 DEF WipeFlag
  <2>8. CASE Recover
    BY <2>8 DEF Recover
  <2>9. CASE PrepareTrial
    BY <2>9 DEF PrepareTrial
  <2>10. CASE EnterConsole
    BY <2>10 DEF EnterConsole
  <2>11. CASE StartApplication
    BY <2>11 DEF StartApplication
  <2>12. CASE Connect
    BY <2>12 DEF Connect
  <2>13. CASE PortalStarts
    BY <2>13 DEF PortalStarts
  <2>14. CASE StartFails
    BY <2>14 DEF StartFails
  <2> QED
    BY <1>1, <2>1, <2>2, <2>3, <2>4, <2>5, <2>6, <2>7, <2>8, <2>9, <2>10, <2>11, <2>12, <2>13,
        <2>14
    DEF Supervisor
<1>2. CASE Write
  <2>1. CASE WriteTrial
    BY <2>1 DEF WriteTrial
  <2>2. CASE WriteBlob
    BY <2>2 DEF WriteBlob
  <2>3. CASE Select
    BY <2>3 DEF Select, AfterSave, Job, Handler
  <2>4. CASE SaveFails
    BY <2>4 DEF SaveFails
  <2>5. CASE ClearTrial
    BY <2>5 DEF ClearTrial
  <2>6. CASE ArmReset
    BY <2>6 DEF ArmReset
  <2>7. CASE EraseKey
    BY <2>7 DEF EraseKey
  <2>8. CASE DropModules
    BY <2>8 DEF DropModules
  <2>9. CASE MoveModules
    BY <2>9 DEF MoveModules
  <2>10. CASE PlaceModules
    BY <2>10 DEF PlaceModules
  <2>11. CASE ModulesFail
    BY <2>11 DEF ModulesFail
  <2>12. CASE BackUp
    BY <2>12 DEF BackUp
  <2>13. CASE Mark
    BY <2>13 DEF Mark
  <2>14. CASE Replace
    BY <2>14 DEF Replace
  <2>15. CASE CertificatesFail
    BY <2>15 DEF CertificatesFail
  <2>16. CASE RestoreFile
    BY <2>16 DEF RestoreFile
  <2>17. CASE Unmark
    BY <2>17 DEF Unmark
  <2>18. CASE Clean
    BY <2>18 DEF Clean
  <2> QED
    BY <1>2, <2>1, <2>2, <2>3, <2>4, <2>5, <2>6, <2>7, <2>8, <2>9, <2>10, <2>11, <2>12, <2>13,
        <2>14, <2>15, <2>16, <2>17, <2>18
    DEF Write
<1>3. CASE Request
  <2>1. CASE Login
    BY <2>1 DEF Login
  <2>2. CASE SaveSettings
    BY <2>2 DEF SaveSettings
  <2>3. CASE SaveModules
    BY <2>3 DEF SaveModules
  <2>4. CASE BeginTrial
    BY <2>4 DEF BeginTrial
  <2>5. CASE Import
    BY <2>5 DEF Import
  <2>6. CASE Restore
    BY <2>6 DEF Restore
  <2>7. CASE InstallCertificates
    BY <2>7 DEF InstallCertificates
  <2>8. CASE SaveCertificateSettings
    BY <2>8 DEF SaveCertificateSettings
  <2>9. CASE RequestReset
    BY <2>9 DEF RequestReset
  <2>10. CASE ConsoleWifi
    BY <2>10 DEF ConsoleWifi
  <2>11. CASE Configure
    BY <2>11 DEF Configure
  <2>12. CASE Provision
    BY <2>12 DEF Provision
  <2>13. CASE Restart
    BY <2>13 DEF Restart
  <2> QED
    BY <1>3, <2>1, <2>2, <2>3, <2>4, <2>5, <2>6, <2>7, <2>8, <2>9, <2>10, <2>11, <2>12, <2>13
    DEF Request
<1>4. CASE GuardFires
  BY <1>4 DEF GuardFires
<1>5. CASE ConsoleEnds
  BY <1>5 DEF ConsoleEnds
<1>6. CASE PowerLoss
  BY <1>6 DEF PowerLoss
<1>7. CASE TornReplace
  BY <1>7 DEF TornReplace
<1> QED
  BY <1>1, <1>2, <1>3, <1>4, <1>5, <1>6, <1>7 DEF Next

\* What a rollback and the undoing of an import set out to save.
LEMMA GiveUpFacts ==
  ASSUME TypeOK, Pending, GiveUp
  PROVE  /\ job' \in Job /\ job'.kind = "rollback" /\ job'.config = trial.previous
         /\ job'.before = NoConfig /\ job'.config \in Config /\ trial # NoTrial
         /\ pc' = "blob"
<1>1. trial # NoTrial /\ trial \in Trial
  BY DEF Pending, TypeOK
<1>2. trial.previous \in Config
  BY <1>1 DEF Trial
<1> QED
  BY <1>1, <1>2, Nothing DEF GiveUp, Goto, Job, Handler

LEMMA UndoFacts ==
  ASSUME TypeOK, Undo
  PROVE  /\ job' \in Job /\ job'.kind = "undo" /\ job'.config = job.before
         /\ job'.before = NoConfig /\ pc' = "blob"
BY Nothing DEF Undo, Goto, Job, Handler, TypeOK

\* The handlers and their arguments.
LEMMA HandledStep ==
  ASSUME TypeOK, Wiped, Handled, Keyed, Next
  PROVE  Handled'
<1> USE DEF TypeOK, Handled, Resting, Wiping, Starting, Moving, Job, Handler, Slot, Goto, Same,
    PowerDown, Handle, nvs, files, ram, hist
<1>1. CASE Supervisor
  <2>1. CASE Boot
    BY <2>1, Nothing DEF Boot
  <2>2. CASE WipeCerts
    BY <2>2, Nothing DEF WipeCerts
  <2>3. CASE WipeModules
    BY <2>3, Nothing DEF WipeModules
  <2>4. CASE WipeSlot
    BY <2>4, Nothing DEF WipeSlot
  <2>5. CASE WipeActive
    BY <2>5, Nothing DEF WipeActive
  <2>6. CASE WipeTrial
    BY <2>6, Nothing DEF WipeTrial
  <2>7. CASE WipeFlag
    BY <2>7, Nothing DEF WipeFlag
  <2>8. CASE Recover
    <3>1. CASE marker.open
      <4>1. job' = [NoJob EXCEPT !.kind = "recover", !.left = File] /\ pc' = "restore"
        BY <2>8, <3>1 DEF Recover
      <4>2. job'.kind = "recover" /\ job'.config = NoConfig /\ job'.before = NoConfig
        BY <4>1, Nothing
      <4> QED
        BY <2>8, <3>1, <4>1, <4>2 DEF Recover
    <3>2. CASE ~marker.open
      BY <2>8, <3>2 DEF Recover
    <3> QED
      BY <3>1, <3>2
  <2>9. CASE PrepareTrial
    BY <2>9, Nothing, GiveUpFacts DEF PrepareTrial
  <2>10. CASE EnterConsole
    BY <2>10, Nothing DEF EnterConsole
  <2>11. CASE StartApplication
    BY <2>11, Nothing DEF StartApplication
  <2>12. CASE Connect
    BY <2>12, Nothing DEF Connect
  <2>13. CASE PortalStarts
    BY <2>13, Nothing DEF PortalStarts
  <2>14. CASE StartFails
    BY <2>14, Nothing, GiveUpFacts DEF StartFails
  <2> QED
    BY <1>1, <2>1, <2>2, <2>3, <2>4, <2>5, <2>6, <2>7, <2>8, <2>9, <2>10, <2>11, <2>12, <2>13,
        <2>14
    DEF Supervisor
<1>2. CASE Write
  <2>1. CASE WriteTrial
    BY <2>1, Nothing DEF WriteTrial
  <2>2. CASE WriteBlob
    BY <2>2, Nothing DEF WriteBlob, Target
  <2>3. CASE Select
    BY <2>3, Nothing DEF Select, AfterSave
  <2>4. CASE SaveFails
    <3>1. CASE pc = "blob" /\ job.kind \in {"begin", "import"} /\ Same("clear")
      BY <3>1
    <3>2. CASE pc = "begin" /\ job.kind = "begin" /\ Same("up")
      BY <3>2, Nothing
    <3>3. CASE pc \in {"begin", "blob"} /\ job.kind = "import" /\ Undo /\ UNCHANGED ram
      BY <3>3, UndoFacts, Nothing
    <3>4. CASE pc = "blob" /\ job.kind \in {"save", "restore", "undo", "install"}
               /\ Same(IF session THEN "up" ELSE "setup")
      BY <3>4, Nothing
    <3>5. CASE pc = "blob" /\ job.kind \in {"configure", "provision"} /\ Same("setup")
      BY <3>5, Nothing
    <3>6. CASE pc = "blob" /\ job.kind = "wifi" /\ Same("console")
      BY <3>6, Nothing
    <3> QED
      BY <2>4, <3>1, <3>2, <3>3, <3>4, <3>5, <3>6 DEF SaveFails
  <2>5. CASE ClearTrial
    BY <2>5, Nothing, UndoFacts DEF ClearTrial
  <2>6. CASE ArmReset
    BY <2>6, Nothing DEF ArmReset
  <2>7. CASE EraseKey
    BY <2>7, Nothing DEF EraseKey
  <2>8. CASE DropModules
    BY <2>8, Nothing DEF DropModules
  <2>9. CASE MoveModules
    BY <2>9, Nothing DEF MoveModules
  <2>10. CASE PlaceModules
    BY <2>10, Nothing DEF PlaceModules
  <2>11. CASE ModulesFail
    BY <2>11, Nothing, UndoFacts DEF ModulesFail
  <2>12. CASE BackUp
    BY <2>12, Nothing DEF BackUp, NextFile, File
  <2>13. CASE Mark
    BY <2>13, Nothing DEF Mark, NextFile, File
  <2>14. CASE Replace
    BY <2>14, Nothing DEF Replace, NextFile, File
  <2>15. CASE CertificatesFail
    BY <2>15, Nothing DEF CertificatesFail, NextFile, File
  <2>16. CASE RestoreFile
    BY <2>16, Nothing DEF RestoreFile, NextFile, File
  <2>17. CASE Unmark
    BY <2>17, Nothing DEF Unmark, NextFile, File
  <2>18. CASE Clean
    BY <2>18, Nothing DEF Clean
  <2> QED
    BY <1>2, <2>1, <2>2, <2>3, <2>4, <2>5, <2>6, <2>7, <2>8, <2>9, <2>10, <2>11, <2>12, <2>13,
        <2>14, <2>15, <2>16, <2>17, <2>18
    DEF Write
<1>3. CASE Request
  <2>1. CASE Login
    BY <2>1, Nothing DEF Login
  <2>2. CASE SaveSettings
    BY <2>2, Nothing, CurrentFacts DEF SaveSettings, CurrentIs, Config
  <2>3. CASE SaveModules
    BY <2>3, Nothing, CurrentFacts DEF SaveModules, CurrentIs, Config
  <2>4. CASE BeginTrial
    BY <2>4, Nothing, CurrentFacts DEF BeginTrial, CurrentIs, Config
  <2>5. CASE Import
    BY <2>5, Nothing, CurrentFacts DEF Import, CurrentIs, Config
  <2>6. CASE Restore
    BY <2>6, Nothing, CurrentFacts DEF Restore, CurrentIs, Config
  <2>7. CASE InstallCertificates
    BY <2>7, Nothing, StoredFacts DEF InstallCertificates, ReadStale, StoredIs
  <2>8. CASE SaveCertificateSettings
    BY <2>8, Nothing, StoredFacts DEF SaveCertificateSettings, ReadStale, StoredIs, Keyed
  <2>9. CASE RequestReset
    BY <2>9, Nothing, CurrentFacts DEF RequestReset, CurrentIs, Config
  <2>10. CASE ConsoleWifi
    BY <2>10, Nothing, CurrentFacts DEF ConsoleWifi, Keyed, CurrentIs, Config
  <2>11. CASE Configure
    <3>1. PICK n \in Net :
             job' = [NoJob EXCEPT !.kind = "configure", !.left = File, !.certs = 1,
                                  !.config = [net |-> n, provisioned |-> FALSE]]
      BY <2>11 DEF Configure
    <3>2. [net |-> n, provisioned |-> FALSE] \in Config /\ 1 \in Pair
      BY BoundsAssumption DEF Config, Pair
    <3>3. /\ job' \in Job /\ job'.kind = "configure" /\ job'.left = File
          /\ job'.config = [net |-> n, provisioned |-> FALSE] /\ job'.before = NoConfig
      BY <3>1, <3>2, Nothing
    <3>4. job'.config # NoConfig /\ ~job'.config.provisioned
      <4>1. job'.config \in Config
        BY <3>2, <3>3
      <4>2. ~job'.config.provisioned
        BY <3>3
      <4> QED
        BY <4>1, <4>2, Nothing
    <3>5. pc = "setup" /\ pc' = "blob" /\ UNCHANGED <<slot, active, session>>
      BY <2>11 DEF Configure
    <3> QED
      BY <3>3, <3>4, <3>5
  <2>12. CASE Provision
    BY <2>12, Nothing, StoredFacts DEF Provision, StoredIs, Config
  <2>13. CASE Restart
    BY <2>13, Nothing DEF Restart
  <2> QED
    BY <1>3, <2>1, <2>2, <2>3, <2>4, <2>5, <2>6, <2>7, <2>8, <2>9, <2>10, <2>11, <2>12, <2>13
    DEF Request
<1>4. CASE GuardFires
  BY <1>4, Nothing, GiveUpFacts DEF GuardFires
<1>5. CASE ConsoleEnds
  BY <1>5, Nothing DEF ConsoleEnds
<1>6. CASE PowerLoss
  BY <1>6, Nothing DEF PowerLoss
<1>7. CASE TornReplace
  BY <1>7, Nothing DEF TornReplace, NextFile, File
<1> QED
  BY <1>1, <1>2, <1>3, <1>4, <1>5, <1>6, <1>7 DEF Next

\* The types, one part of the state at a time.
StoreType ==
  /\ slot \in [Slot -> Config \cup {NoConfig}]
  /\ active \in Slot \cup {NoSlot}
  /\ trial \in Trial \cup {NoTrial}
  /\ resetFlag \in BOOLEAN /\ bootkey \in BOOLEAN
FileType ==
  /\ certs \in [File -> [now : Pair, previous : Pair]]
  /\ marker \in Marker
  /\ modules \in [now : Modules, previous : Modules]
  /\ recovery \in BOOLEAN
RamType ==
  /\ pc \in Step
  /\ running \in Net \cup {NoNet}
  /\ session \in BOOLEAN /\ guard \in BOOLEAN
HistType ==
  /\ proven \in SUBSET Net
  /\ exposed \in SUBSET Exposure
  /\ losses \in 0 .. MaxLosses

\* The configuration with another network.
LEMMA OtherNet ==
  ASSUME TypeOK, Provisioned, NEW n \in Net
  PROVE  /\ [Current EXCEPT !.net = n] \in Config
         /\ [Current EXCEPT !.net = n].net = n /\ [Current EXCEPT !.net = n].provisioned
BY CurrentFacts DEF CurrentIs, Config

LEMMA StoreTypeStep ==
  ASSUME TypeOK, Handled, Keyed, Next
  PROVE  StoreType'
<1> USE DEF TypeOK, StoreType, Goto, Same, PowerDown, Undo, GiveUp, Handle, nvs, files, ram,
    hist
<1>1. CASE Supervisor
  <2>1. CASE Boot
    BY <2>1, Nothing DEF Boot
  <2>2. CASE WipeCerts
    BY <2>2, Nothing DEF WipeCerts
  <2>3. CASE WipeModules
    BY <2>3, Nothing DEF WipeModules
  <2>4. CASE WipeSlot
    BY <2>4, Nothing DEF WipeSlot
  <2>5. CASE WipeActive
    BY <2>5, Nothing DEF WipeActive
  <2>6. CASE WipeTrial
    BY <2>6, Nothing DEF WipeTrial
  <2>7. CASE WipeFlag
    BY <2>7, Nothing DEF WipeFlag
  <2>8. CASE Recover
    BY <2>8, Nothing DEF Recover
  <2>9. CASE PrepareTrial
    BY <2>9, Nothing DEF PrepareTrial, Pending, Trial
  <2>10. CASE EnterConsole
    BY <2>10, Nothing DEF EnterConsole
  <2>11. CASE StartApplication
    BY <2>11, Nothing DEF StartApplication
  <2>12. CASE Connect
    BY <2>12, Nothing DEF Connect
  <2>13. CASE PortalStarts
    BY <2>13, Nothing DEF PortalStarts
  <2>14. CASE StartFails
    BY <2>14, Nothing DEF StartFails
  <2> QED
    BY <1>1, <2>1, <2>2, <2>3, <2>4, <2>5, <2>6, <2>7, <2>8, <2>9, <2>10, <2>11, <2>12, <2>13,
        <2>14
    DEF Supervisor
<1>2. CASE Write
  <2>1. CASE WriteTrial
    <3>1. trial' = [net |-> job.config.net, previous |-> Current, attempts |-> 0]
      BY <2>1 DEF WriteTrial
    <3>2. pc = "begin" /\ UNCHANGED <<slot, active, resetFlag, bootkey>>
      BY <2>1 DEF WriteTrial
    <3>3. Current \in Config
      BY <3>2, CurrentFacts DEF CurrentIs, Keyed
    <3>4. job.config \in Config
      BY <3>2 DEF Handled, Job
    <3>5. job.config.net \in Net
      BY <3>4 DEF Config
    <3>6. trial' \in Trial
      BY <3>1, <3>3, <3>5 DEF Trial
    <3> QED
      BY <3>2, <3>6
  <2>2. CASE WriteBlob
    BY <2>2, Nothing DEF WriteBlob, Target, Handled, Job
  <2>3. CASE Select
    BY <2>3, Nothing DEF Select, Target, Slot
  <2>4. CASE SaveFails
    BY <2>4, Nothing DEF SaveFails
  <2>5. CASE ClearTrial
    BY <2>5, Nothing DEF ClearTrial
  <2>6. CASE ArmReset
    BY <2>6, Nothing DEF ArmReset
  <2>7. CASE EraseKey
    BY <2>7, Nothing DEF EraseKey
  <2>8. CASE DropModules
    BY <2>8, Nothing DEF DropModules
  <2>9. CASE MoveModules
    BY <2>9, Nothing DEF MoveModules
  <2>10. CASE PlaceModules
    BY <2>10, Nothing DEF PlaceModules
  <2>11. CASE ModulesFail
    BY <2>11, Nothing DEF ModulesFail
  <2>12. CASE BackUp
    BY <2>12, Nothing DEF BackUp
  <2>13. CASE Mark
    BY <2>13, Nothing DEF Mark
  <2>14. CASE Replace
    BY <2>14, Nothing DEF Replace
  <2>15. CASE CertificatesFail
    BY <2>15, Nothing DEF CertificatesFail
  <2>16. CASE RestoreFile
    BY <2>16, Nothing DEF RestoreFile
  <2>17. CASE Unmark
    BY <2>17, Nothing DEF Unmark
  <2>18. CASE Clean
    BY <2>18, Nothing DEF Clean
  <2> QED
    BY <1>2, <2>1, <2>2, <2>3, <2>4, <2>5, <2>6, <2>7, <2>8, <2>9, <2>10, <2>11, <2>12, <2>13,
        <2>14, <2>15, <2>16, <2>17, <2>18
    DEF Write
<1>3. CASE Request
  <2>1. CASE Login
    BY <2>1, Nothing DEF Login
  <2>2. CASE SaveSettings
    BY <2>2, Nothing DEF SaveSettings
  <2>3. CASE SaveModules
    BY <2>3, Nothing DEF SaveModules
  <2>4. CASE BeginTrial
    BY <2>4, Nothing DEF BeginTrial
  <2>5. CASE Import
    BY <2>5, Nothing DEF Import
  <2>6. CASE Restore
    BY <2>6, Nothing DEF Restore
  <2>7. CASE InstallCertificates
    BY <2>7, Nothing DEF InstallCertificates
  <2>8. CASE SaveCertificateSettings
    BY <2>8, Nothing DEF SaveCertificateSettings
  <2>9. CASE RequestReset
    BY <2>9, Nothing DEF RequestReset
  <2>10. CASE ConsoleWifi
    BY <2>10, Nothing DEF ConsoleWifi
  <2>11. CASE Configure
    BY <2>11, Nothing DEF Configure
  <2>12. CASE Provision
    BY <2>12, Nothing DEF Provision
  <2>13. CASE Restart
    BY <2>13, Nothing DEF Restart
  <2> QED
    BY <1>3, <2>1, <2>2, <2>3, <2>4, <2>5, <2>6, <2>7, <2>8, <2>9, <2>10, <2>11, <2>12, <2>13
    DEF Request
<1>4. CASE GuardFires
  BY <1>4, Nothing DEF GuardFires
<1>5. CASE ConsoleEnds
  BY <1>5, Nothing DEF ConsoleEnds
<1>6. CASE PowerLoss
  BY <1>6, Nothing DEF PowerLoss
<1>7. CASE TornReplace
  BY <1>7, Nothing DEF TornReplace
<1> QED
  BY <1>1, <1>2, <1>3, <1>4, <1>5, <1>6, <1>7 DEF Next

LEMMA RamTypeStep ==
  ASSUME TypeOK, Handled, Keyed, Next
  PROVE  RamType'
<1> USE DEF TypeOK, RamType, Step, Goto, Same, PowerDown, Undo, GiveUp, Handle, nvs, files, ram,
    hist
<1>1. CASE Supervisor
  <2>1. CASE Boot
    BY <2>1, Nothing DEF Boot
  <2>2. CASE WipeCerts
    BY <2>2, Nothing DEF WipeCerts
  <2>3. CASE WipeModules
    BY <2>3, Nothing DEF WipeModules
  <2>4. CASE WipeSlot
    BY <2>4, Nothing DEF WipeSlot
  <2>5. CASE WipeActive
    BY <2>5, Nothing DEF WipeActive
  <2>6. CASE WipeTrial
    BY <2>6, Nothing DEF WipeTrial
  <2>7. CASE WipeFlag
    BY <2>7, Nothing DEF WipeFlag
  <2>8. CASE Recover
    BY <2>8, Nothing DEF Recover
  <2>9. CASE PrepareTrial
    BY <2>9, Nothing DEF PrepareTrial
  <2>10. CASE EnterConsole
    BY <2>10, Nothing DEF EnterConsole
  <2>11. CASE StartApplication
    BY <2>11, Nothing, CurrentFacts DEF StartApplication, CurrentIs, Keyed, Starting, Config
  <2>12. CASE Connect
    BY <2>12, Nothing DEF Connect
  <2>13. CASE PortalStarts
    BY <2>13, Nothing DEF PortalStarts, Pending
  <2>14. CASE StartFails
    BY <2>14, Nothing DEF StartFails
  <2> QED
    BY <1>1, <2>1, <2>2, <2>3, <2>4, <2>5, <2>6, <2>7, <2>8, <2>9, <2>10, <2>11, <2>12, <2>13,
        <2>14
    DEF Supervisor
<1>2. CASE Write
  <2>1. CASE WriteTrial
    BY <2>1, Nothing DEF WriteTrial
  <2>2. CASE WriteBlob
    BY <2>2, Nothing DEF WriteBlob
  <2>3. CASE Select
    BY <2>3, Nothing DEF Select, AfterSave
  <2>4. CASE SaveFails
    BY <2>4, Nothing DEF SaveFails
  <2>5. CASE ClearTrial
    BY <2>5, Nothing DEF ClearTrial
  <2>6. CASE ArmReset
    BY <2>6, Nothing DEF ArmReset
  <2>7. CASE EraseKey
    BY <2>7, Nothing DEF EraseKey
  <2>8. CASE DropModules
    BY <2>8, Nothing DEF DropModules
  <2>9. CASE MoveModules
    BY <2>9, Nothing DEF MoveModules
  <2>10. CASE PlaceModules
    BY <2>10, Nothing DEF PlaceModules
  <2>11. CASE ModulesFail
    BY <2>11, Nothing DEF ModulesFail
  <2>12. CASE BackUp
    BY <2>12, Nothing DEF BackUp
  <2>13. CASE Mark
    BY <2>13, Nothing DEF Mark
  <2>14. CASE Replace
    BY <2>14, Nothing DEF Replace
  <2>15. CASE CertificatesFail
    BY <2>15, Nothing DEF CertificatesFail
  <2>16. CASE RestoreFile
    BY <2>16, Nothing DEF RestoreFile
  <2>17. CASE Unmark
    BY <2>17, Nothing DEF Unmark
  <2>18. CASE Clean
    BY <2>18, Nothing DEF Clean
  <2> QED
    BY <1>2, <2>1, <2>2, <2>3, <2>4, <2>5, <2>6, <2>7, <2>8, <2>9, <2>10, <2>11, <2>12, <2>13,
        <2>14, <2>15, <2>16, <2>17, <2>18
    DEF Write
<1>3. CASE Request
  <2>1. CASE Login
    BY <2>1, Nothing DEF Login
  <2>2. CASE SaveSettings
    BY <2>2, Nothing DEF SaveSettings
  <2>3. CASE SaveModules
    BY <2>3, Nothing DEF SaveModules
  <2>4. CASE BeginTrial
    BY <2>4, Nothing DEF BeginTrial
  <2>5. CASE Import
    BY <2>5, Nothing DEF Import
  <2>6. CASE Restore
    BY <2>6, Nothing DEF Restore
  <2>7. CASE InstallCertificates
    BY <2>7, Nothing DEF InstallCertificates
  <2>8. CASE SaveCertificateSettings
    BY <2>8, Nothing DEF SaveCertificateSettings
  <2>9. CASE RequestReset
    BY <2>9, Nothing DEF RequestReset
  <2>10. CASE ConsoleWifi
    BY <2>10, Nothing DEF ConsoleWifi
  <2>11. CASE Configure
    BY <2>11, Nothing DEF Configure
  <2>12. CASE Provision
    BY <2>12, Nothing DEF Provision
  <2>13. CASE Restart
    BY <2>13, Nothing DEF Restart
  <2> QED
    BY <1>3, <2>1, <2>2, <2>3, <2>4, <2>5, <2>6, <2>7, <2>8, <2>9, <2>10, <2>11, <2>12, <2>13
    DEF Request
<1>4. CASE GuardFires
  BY <1>4, Nothing DEF GuardFires
<1>5. CASE ConsoleEnds
  BY <1>5, Nothing DEF ConsoleEnds
<1>6. CASE PowerLoss
  BY <1>6, Nothing DEF PowerLoss
<1>7. CASE TornReplace
  BY <1>7, Nothing DEF TornReplace
<1> QED
  BY <1>1, <1>2, <1>3, <1>4, <1>5, <1>6, <1>7 DEF Next

LEMMA HistTypeStep ==
  ASSUME TypeOK, Handled, Keyed, Next
  PROVE  HistType'
<1> USE DEF TypeOK, HistType, Exposure, Goto, Same, PowerDown, Undo, GiveUp, Handle, nvs, files,
    ram, hist
<1>1. CASE Supervisor
  <2>1. CASE Boot
    BY <2>1 DEF Boot
  <2>2. CASE WipeCerts
    BY <2>2 DEF WipeCerts
  <2>3. CASE WipeModules
    BY <2>3 DEF WipeModules
  <2>4. CASE WipeSlot
    BY <2>4 DEF WipeSlot
  <2>5. CASE WipeActive
    BY <2>5 DEF WipeActive
  <2>6. CASE WipeTrial
    BY <2>6 DEF WipeTrial
  <2>7. CASE WipeFlag
    BY <2>7 DEF WipeFlag
  <2>8. CASE Recover
    BY <2>8 DEF Recover
  <2>9. CASE PrepareTrial
    BY <2>9 DEF PrepareTrial
  <2>10. CASE EnterConsole
    BY <2>10 DEF EnterConsole
  <2>11. CASE StartApplication
    BY <2>11 DEF StartApplication
  <2>12. CASE Connect
    BY <2>12 DEF Connect
  <2>13. CASE PortalStarts
    BY <2>13 DEF PortalStarts
  <2>14. CASE StartFails
    BY <2>14 DEF StartFails
  <2> QED
    BY <1>1, <2>1, <2>2, <2>3, <2>4, <2>5, <2>6, <2>7, <2>8, <2>9, <2>10, <2>11, <2>12, <2>13,
        <2>14
    DEF Supervisor
<1>2. CASE Write
  <2>1. CASE WriteTrial
    BY <2>1 DEF WriteTrial
  <2>2. CASE WriteBlob
    BY <2>2 DEF WriteBlob, Unguarded
  <2>3. CASE Select
    BY <2>3 DEF Select
  <2>4. CASE SaveFails
    BY <2>4 DEF SaveFails
  <2>5. CASE ClearTrial
    BY <2>5 DEF ClearTrial
  <2>6. CASE ArmReset
    BY <2>6 DEF ArmReset
  <2>7. CASE EraseKey
    BY <2>7 DEF EraseKey
  <2>8. CASE DropModules
    BY <2>8 DEF DropModules
  <2>9. CASE MoveModules
    BY <2>9 DEF MoveModules
  <2>10. CASE PlaceModules
    BY <2>10 DEF PlaceModules
  <2>11. CASE ModulesFail
    BY <2>11 DEF ModulesFail
  <2>12. CASE BackUp
    BY <2>12 DEF BackUp
  <2>13. CASE Mark
    BY <2>13 DEF Mark
  <2>14. CASE Replace
    BY <2>14 DEF Replace
  <2>15. CASE CertificatesFail
    BY <2>15 DEF CertificatesFail
  <2>16. CASE RestoreFile
    BY <2>16 DEF RestoreFile
  <2>17. CASE Unmark
    BY <2>17 DEF Unmark
  <2>18. CASE Clean
    BY <2>18 DEF Clean
  <2> QED
    BY <1>2, <2>1, <2>2, <2>3, <2>4, <2>5, <2>6, <2>7, <2>8, <2>9, <2>10, <2>11, <2>12, <2>13,
        <2>14, <2>15, <2>16, <2>17, <2>18
    DEF Write
<1>3. CASE Request
  <2>1. CASE Login
    BY <2>1, NetAssumption DEF Login
  <2>2. CASE SaveSettings
    BY <2>2 DEF SaveSettings
  <2>3. CASE SaveModules
    BY <2>3 DEF SaveModules
  <2>4. CASE BeginTrial
    BY <2>4 DEF BeginTrial
  <2>5. CASE Import
    BY <2>5 DEF Import
  <2>6. CASE Restore
    BY <2>6 DEF Restore
  <2>7. CASE InstallCertificates
    BY <2>7 DEF InstallCertificates, ReadStale
  <2>8. CASE SaveCertificateSettings
    BY <2>8 DEF SaveCertificateSettings, ReadStale
  <2>9. CASE RequestReset
    BY <2>9 DEF RequestReset
  <2>10. CASE ConsoleWifi
    BY <2>10 DEF ConsoleWifi
  <2>11. CASE Configure
    BY <2>11 DEF Configure
  <2>12. CASE Provision
    BY <2>12, NetAssumption DEF Provision
  <2>13. CASE Restart
    BY <2>13 DEF Restart
  <2> QED
    BY <1>3, <2>1, <2>2, <2>3, <2>4, <2>5, <2>6, <2>7, <2>8, <2>9, <2>10, <2>11, <2>12, <2>13
    DEF Request
<1>4. CASE GuardFires
  BY <1>4 DEF GuardFires
<1>5. CASE ConsoleEnds
  BY <1>5 DEF ConsoleEnds
<1>6. CASE PowerLoss
  BY <1>6, BoundsAssumption DEF PowerLoss
<1>7. CASE TornReplace
  BY <1>7, BoundsAssumption DEF TornReplace
<1> QED
  BY <1>1, <1>2, <1>3, <1>4, <1>5, <1>6, <1>7 DEF Next

LEMMA FileTypeStep ==
  ASSUME TypeOK, Handled, Keyed, Next
  PROVE  FileType'
<1> USE DEF TypeOK, FileType, Pair, File, Goto, Same, PowerDown, Undo, GiveUp, Handle, nvs,
    files, ram, hist
<1>1. CASE Supervisor
  <2>1. CASE Boot
    BY <2>1, BoundsAssumption DEF Boot
  <2>2. CASE WipeCerts
    BY <2>2, BoundsAssumption DEF WipeCerts, Marker, NoMarker
  <2>3. CASE WipeModules
    BY <2>3, BoundsAssumption DEF WipeModules, Modules, Job
  <2>4. CASE WipeSlot
    BY <2>4, BoundsAssumption DEF WipeSlot
  <2>5. CASE WipeActive
    BY <2>5, BoundsAssumption DEF WipeActive
  <2>6. CASE WipeTrial
    BY <2>6, BoundsAssumption DEF WipeTrial
  <2>7. CASE WipeFlag
    BY <2>7, BoundsAssumption DEF WipeFlag
  <2>8. CASE Recover
    BY <2>8, BoundsAssumption DEF Recover
  <2>9. CASE PrepareTrial
    BY <2>9, BoundsAssumption DEF PrepareTrial
  <2>10. CASE EnterConsole
    BY <2>10, BoundsAssumption DEF EnterConsole
  <2>11. CASE StartApplication
    BY <2>11, BoundsAssumption DEF StartApplication, Modules, Job
  <2>12. CASE Connect
    BY <2>12, BoundsAssumption DEF Connect
  <2>13. CASE PortalStarts
    BY <2>13, BoundsAssumption DEF PortalStarts
  <2>14. CASE StartFails
    BY <2>14, BoundsAssumption DEF StartFails
  <2> QED
    BY <1>1, <2>1, <2>2, <2>3, <2>4, <2>5, <2>6, <2>7, <2>8, <2>9, <2>10, <2>11, <2>12, <2>13,
        <2>14
    DEF Supervisor
<1>2. CASE Write
  <2>1. CASE WriteTrial
    BY <2>1, BoundsAssumption DEF WriteTrial
  <2>2. CASE WriteBlob
    BY <2>2, BoundsAssumption DEF WriteBlob
  <2>3. CASE Select
    BY <2>3, BoundsAssumption DEF Select
  <2>4. CASE SaveFails
    BY <2>4, BoundsAssumption DEF SaveFails
  <2>5. CASE ClearTrial
    BY <2>5, BoundsAssumption DEF ClearTrial
  <2>6. CASE ArmReset
    BY <2>6, BoundsAssumption DEF ArmReset
  <2>7. CASE EraseKey
    BY <2>7, BoundsAssumption DEF EraseKey
  <2>8. CASE DropModules
    BY <2>8, BoundsAssumption DEF DropModules, Modules, Job
  <2>9. CASE MoveModules
    BY <2>9, BoundsAssumption DEF MoveModules, Modules, Job
  <2>10. CASE PlaceModules
    BY <2>10, BoundsAssumption DEF PlaceModules, Modules, Job
  <2>11. CASE ModulesFail
    BY <2>11, BoundsAssumption DEF ModulesFail, Modules, Job
  <2>12. CASE BackUp
    BY <2>12, BoundsAssumption DEF BackUp, NextFile, File
  <2>13. CASE Mark
    BY <2>13, BoundsAssumption DEF Mark, NextFile, File, Marker, NoMarker
  <2>14. CASE Replace
    BY <2>14, BoundsAssumption DEF Replace, NextFile, File, Job
  <2>15. CASE CertificatesFail
    BY <2>15, BoundsAssumption DEF CertificatesFail, NextFile, File
  <2>16. CASE RestoreFile
    BY <2>16, BoundsAssumption DEF RestoreFile, NextFile, File
  <2>17. CASE Unmark
    BY <2>17, BoundsAssumption DEF Unmark, NextFile, File, Marker, NoMarker
  <2>18. CASE Clean
    BY <2>18, BoundsAssumption DEF Clean
  <2> QED
    BY <1>2, <2>1, <2>2, <2>3, <2>4, <2>5, <2>6, <2>7, <2>8, <2>9, <2>10, <2>11, <2>12, <2>13,
        <2>14, <2>15, <2>16, <2>17, <2>18
    DEF Write
<1>3. CASE Request
  <2>1. CASE Login
    BY <2>1, BoundsAssumption DEF Login
  <2>2. CASE SaveSettings
    BY <2>2, BoundsAssumption DEF SaveSettings
  <2>3. CASE SaveModules
    BY <2>3, BoundsAssumption DEF SaveModules
  <2>4. CASE BeginTrial
    BY <2>4, BoundsAssumption DEF BeginTrial
  <2>5. CASE Import
    BY <2>5, BoundsAssumption DEF Import
  <2>6. CASE Restore
    BY <2>6, BoundsAssumption DEF Restore
  <2>7. CASE InstallCertificates
    BY <2>7, BoundsAssumption DEF InstallCertificates
  <2>8. CASE SaveCertificateSettings
    BY <2>8, BoundsAssumption DEF SaveCertificateSettings
  <2>9. CASE RequestReset
    BY <2>9, BoundsAssumption DEF RequestReset
  <2>10. CASE ConsoleWifi
    BY <2>10, BoundsAssumption DEF ConsoleWifi
  <2>11. CASE Configure
    BY <2>11, BoundsAssumption DEF Configure
  <2>12. CASE Provision
    BY <2>12, BoundsAssumption DEF Provision
  <2>13. CASE Restart
    BY <2>13, BoundsAssumption DEF Restart
  <2> QED
    BY <1>3, <2>1, <2>2, <2>3, <2>4, <2>5, <2>6, <2>7, <2>8, <2>9, <2>10, <2>11, <2>12, <2>13
    DEF Request
<1>4. CASE GuardFires
  BY <1>4, BoundsAssumption DEF GuardFires
<1>5. CASE ConsoleEnds
  BY <1>5, BoundsAssumption DEF ConsoleEnds
<1>6. CASE PowerLoss
  BY <1>6, BoundsAssumption DEF PowerLoss
<1>7. CASE TornReplace
  BY <1>7, BoundsAssumption DEF TornReplace, NextFile, File
<1> QED
  BY <1>1, <1>2, <1>3, <1>4, <1>5, <1>6, <1>7 DEF Next

LEMMA JobTypeStep ==
  ASSUME TypeOK, Wiped, Handled, Keyed, Next
  PROVE  job' \in Job
<1> USE DEF TypeOK, Job, Handler, Goto, Same, PowerDown, Handle, nvs, files, ram, hist
<1>1. CASE Supervisor
  <2>1. CASE Boot
    BY <2>1, Nothing DEF Boot
  <2>2. CASE WipeCerts
    BY <2>2, Nothing DEF WipeCerts
  <2>3. CASE WipeModules
    BY <2>3, Nothing DEF WipeModules
  <2>4. CASE WipeSlot
    BY <2>4, Nothing DEF WipeSlot
  <2>5. CASE WipeActive
    BY <2>5, Nothing DEF WipeActive
  <2>6. CASE WipeTrial
    BY <2>6, Nothing DEF WipeTrial
  <2>7. CASE WipeFlag
    BY <2>7, Nothing DEF WipeFlag
  <2>8. CASE Recover
    <3>1. CASE marker.open
      <4>1. job' = [NoJob EXCEPT !.kind = "recover", !.left = File]
        BY <2>8, <3>1 DEF Recover
      <4> QED
        BY <4>1, Nothing
    <3>2. CASE ~marker.open
      BY <2>8, <3>2 DEF Recover
    <3> QED
      BY <3>1, <3>2
  <2>9. CASE PrepareTrial
    BY <2>9, Nothing, GiveUpFacts DEF PrepareTrial
  <2>10. CASE EnterConsole
    BY <2>10, Nothing DEF EnterConsole
  <2>11. CASE StartApplication
    BY <2>11, Nothing DEF StartApplication
  <2>12. CASE Connect
    BY <2>12, Nothing DEF Connect
  <2>13. CASE PortalStarts
    BY <2>13, Nothing DEF PortalStarts
  <2>14. CASE StartFails
    BY <2>14, Nothing, GiveUpFacts DEF StartFails
  <2> QED
    BY <1>1, <2>1, <2>2, <2>3, <2>4, <2>5, <2>6, <2>7, <2>8, <2>9, <2>10, <2>11, <2>12, <2>13,
        <2>14
    DEF Supervisor
<1>2. CASE Write
  <2>1. CASE WriteTrial
    BY <2>1, Nothing DEF WriteTrial
  <2>2. CASE WriteBlob
    BY <2>2, Nothing DEF WriteBlob
  <2>3. CASE Select
    BY <2>3, Nothing DEF Select
  <2>4. CASE SaveFails
    BY <2>4, Nothing, UndoFacts DEF SaveFails
  <2>5. CASE ClearTrial
    BY <2>5, Nothing, UndoFacts DEF ClearTrial
  <2>6. CASE ArmReset
    BY <2>6, Nothing DEF ArmReset
  <2>7. CASE EraseKey
    BY <2>7, Nothing DEF EraseKey
  <2>8. CASE DropModules
    BY <2>8, Nothing DEF DropModules
  <2>9. CASE MoveModules
    BY <2>9, Nothing DEF MoveModules
  <2>10. CASE PlaceModules
    BY <2>10, Nothing DEF PlaceModules
  <2>11. CASE ModulesFail
    BY <2>11, Nothing, UndoFacts DEF ModulesFail
  <2>12. CASE BackUp
    BY <2>12, Nothing DEF BackUp, NextFile, File
  <2>13. CASE Mark
    BY <2>13, Nothing DEF Mark, NextFile, File
  <2>14. CASE Replace
    BY <2>14, Nothing DEF Replace, NextFile, File
  <2>15. CASE CertificatesFail
    BY <2>15, Nothing DEF CertificatesFail, NextFile, File
  <2>16. CASE RestoreFile
    BY <2>16, Nothing DEF RestoreFile, NextFile, File
  <2>17. CASE Unmark
    BY <2>17, Nothing DEF Unmark, NextFile, File
  <2>18. CASE Clean
    BY <2>18, Nothing DEF Clean
  <2> QED
    BY <1>2, <2>1, <2>2, <2>3, <2>4, <2>5, <2>6, <2>7, <2>8, <2>9, <2>10, <2>11, <2>12, <2>13,
        <2>14, <2>15, <2>16, <2>17, <2>18
    DEF Write
<1>3. CASE Request
  <2>1. CASE Login
    BY <2>1, Nothing DEF Login
  <2>2. CASE SaveSettings
    BY <2>2, Nothing, CurrentFacts DEF SaveSettings, CurrentIs, Config
  <2>3. CASE SaveModules
    BY <2>3, Nothing, CurrentFacts DEF SaveModules, Modules, CurrentIs, Config
  <2>4. CASE BeginTrial
    <3>1. PICK n \in Net : /\ Provisioned
                          /\ job' = [NoJob EXCEPT !.kind = "begin",
                                                  !.config = [Current EXCEPT !.net = n]]
      BY <2>4 DEF BeginTrial
    <3>2. [Current EXCEPT !.net = n] \in Config
      BY <3>1, OtherNet
    <3> QED
      BY <3>1, <3>2, Nothing
  <2>5. CASE Import
    <3>1. PICK n \in Net, d \in Modules :
             /\ Provisioned
             /\ job' = [NoJob EXCEPT !.kind = "import", !.before = Current, !.modules = d,
                                     !.config = [Current EXCEPT !.net = n]]
      BY <2>5 DEF Import
    <3>2. [Current EXCEPT !.net = n] \in Config
      BY <3>1, OtherNet
    <3>3. Current \in Config
      BY <3>1, CurrentFacts DEF CurrentIs
    <3> QED
      BY <3>1, <3>2, <3>3, Nothing
  <2>6. CASE Restore
    <3>1. PICK c \in {NoConfig} \cup {[Current EXCEPT !.net = n] : n \in Net},
               d \in Modules, k \in Pair \ {certs["cert"].now} :
             /\ d # 0 \/ k # 0 \/ c # NoConfig
             /\ Handle(IF d # 0 THEN "dropModules" ELSE IF k # 0 THEN "backUp" ELSE "blob",
                       [NoJob EXCEPT !.kind = "restore", !.config = c, !.modules = d,
                                     !.certs = k, !.left = File])
      BY <2>6 DEF Restore
    <3>2. c \in Config \cup {NoConfig}
      BY <3>1, OtherNet
    <3>3. job' = [NoJob EXCEPT !.kind = "restore", !.config = c, !.modules = d,
                               !.certs = k, !.left = File]
      BY <3>1
    <3> QED
      BY <3>1, <3>2, <3>3, Nothing
  <2>7. CASE InstallCertificates
    BY <2>7, Nothing, StoredFacts DEF InstallCertificates, StoredIs
  <2>8. CASE SaveCertificateSettings
    BY <2>8, Nothing, StoredFacts DEF SaveCertificateSettings, StoredIs
  <2>9. CASE RequestReset
    BY <2>9, Nothing, CurrentFacts DEF RequestReset, CurrentIs, Config
  <2>10. CASE ConsoleWifi
    <3>1. PICK n \in Net : job' = [NoJob EXCEPT !.kind = "wifi",
                                                  !.config = [Current EXCEPT !.net = n]]
      BY <2>10 DEF ConsoleWifi
    <3>2. Provisioned
      BY <2>10 DEF ConsoleWifi, Keyed, Starting
    <3>3. [Current EXCEPT !.net = n] \in Config
      BY <3>2, OtherNet
    <3> QED
      BY <3>1, <3>3, Nothing
  <2>11. CASE Configure
    <3>1. PICK n \in Net :
             job' = [NoJob EXCEPT !.kind = "configure", !.left = File, !.certs = 1,
                                  !.config = [net |-> n, provisioned |-> FALSE]]
      BY <2>11 DEF Configure
    <3>2. [net |-> n, provisioned |-> FALSE] \in Config /\ 1 \in Pair
      BY BoundsAssumption DEF Config, Pair
    <3> QED
      BY <3>1, <3>2, Nothing
  <2>12. CASE Provision
    BY <2>12, Nothing, StoredFacts DEF Provision, StoredIs, Config
  <2>13. CASE Restart
    BY <2>13, Nothing DEF Restart
  <2> QED
    BY <1>3, <2>1, <2>2, <2>3, <2>4, <2>5, <2>6, <2>7, <2>8, <2>9, <2>10, <2>11, <2>12, <2>13
    DEF Request
<1>4. CASE GuardFires
  BY <1>4, Nothing, GiveUpFacts DEF GuardFires
<1>5. CASE ConsoleEnds
  BY <1>5, Nothing DEF ConsoleEnds
<1>6. CASE PowerLoss
  BY <1>6, Nothing DEF PowerLoss
<1>7. CASE TornReplace
  BY <1>7, Nothing DEF TornReplace, NextFile, File
<1> QED
  BY <1>1, <1>2, <1>3, <1>4, <1>5, <1>6, <1>7 DEF Next

LEMMA TypeStep ==
  ASSUME TypeOK, Wiped, Handled, Keyed, Next
  PROVE  TypeOK'
BY StoreTypeStep, FileTypeStep, RamTypeStep, HistTypeStep, JobTypeStep
DEF TypeOK, StoreType, FileType, RamType, HistType

-----------------------------------------------------------------------------
(* What a save does to the configuration the device goes on with.          *)

\* The slot that is written is not the one that is selected.
LEMMA BlobStore ==
  ASSUME TypeOK, TypeOK', Handled, WriteBlob
  PROVE  /\ active' = active /\ job' = job /\ job.config \in Config
         /\ (active \in Slot /\ slot[active].provisioned) =>
               active' \in Slot /\ slot'[active'].provisioned /\ Current' = Current
         /\ ~(active \in Slot /\ slot[active].provisioned) /\ job.config.provisioned =>
               Current' = job.config
         /\ job.config.provisioned => Provisioned'
         /\ ~job.config.provisioned => (Provisioned' => Provisioned)
         /\ ~job.config.provisioned /\ active \in Slot =>
               (Provisioned' <=> slot[active].provisioned)
         /\ slot'[Target'] # NoConfig
<1>1. active' = active /\ job' = job /\ slot' = [slot EXCEPT ![Target] = job.config]
  BY DEF WriteBlob, Same
<1>2. job.config \in Config
  BY DEF Handled, WriteBlob, TypeOK, Job
<1>3. Target \in Slot /\ Target # active /\ Target' = Target
      /\ \A s \in Slot : s # Target => s = active \/ (active = NoSlot /\ s = 1)
  BY <1>1 DEF Target, Slot, NoSlot, TypeOK
<1>4. slot'[Target] = job.config
      /\ \A s \in Slot : s # Target => slot'[s] = slot[s]
  BY <1>1, <1>3 DEF TypeOK
<1>5. CurrentIs /\ CurrentIs'
  BY CurrentFacts, CurrentFactsNext
<1>6. NoSlot \notin Slot
  BY Nothing
<1>7. active = NoSlot => Target = 0
  BY DEF Target, NoSlot
<1>8. active \in Slot \/ active = NoSlot
  BY DEF TypeOK
<1>9. job.config # NoConfig
  BY <1>2, Nothing
<1>10. ASSUME active \in Slot, slot[active].provisioned
       PROVE  active' \in Slot /\ slot'[active'].provisioned /\ Current' = Current
  BY <1>1, <1>3, <1>4, <1>5, <1>10 DEF CurrentIs
<1>11. ASSUME ~(active \in Slot /\ slot[active].provisioned), job.config.provisioned
       PROVE  Current' = job.config
  <2>1. CASE active = NoSlot
    BY <1>1, <1>4, <1>5, <1>7, <1>11, <2>1 DEF CurrentIs
  <2>2. CASE active \in Slot
    <3>1. ~slot'[active].provisioned
      BY <1>3, <1>4, <1>11, <2>2
    <3>2. slot'[Target].provisioned
      BY <1>4, <1>11
    <3>3. PICK s \in Slot : slot'[s].provisioned /\ Current' = slot'[s]
      BY <1>3, <1>5, <3>2 DEF CurrentIs
    <3> QED
      BY <1>3, <1>4, <1>6, <2>2, <3>1, <3>3
  <2> QED
    BY <1>8, <2>1, <2>2
<1>12. job.config.provisioned => Provisioned'
  BY <1>3, <1>4, <1>5 DEF CurrentIs
<1>13. ~job.config.provisioned => (Provisioned' => Provisioned)
  BY <1>3, <1>4, <1>5 DEF CurrentIs
<1>14. ~job.config.provisioned /\ active \in Slot =>
         (Provisioned' <=> slot[active].provisioned)
  BY <1>3, <1>4, <1>5, <1>6 DEF CurrentIs
<1> QED
  BY <1>1, <1>2, <1>3, <1>4, <1>9, <1>10, <1>11, <1>12, <1>13, <1>14

\* What a selection makes of it.
LEMMA SelectStore ==
  ASSUME TypeOK, TypeOK', Handled, Select
  PROVE  /\ active' = Target /\ active' \in Slot /\ slot' = slot
         /\ slot'[active'] = job.config /\ job.config \in Config
         /\ Provisioned' <=> Provisioned
         /\ job.config.provisioned => Current' = job.config
         /\ ~job.config.provisioned => Current' = Current
<1>1. active' = Target /\ slot' = slot /\ slot[Target] = job.config
  BY DEF Select, Handled
<1>2. job.config \in Config
  BY DEF Handled, Select, TypeOK, Job
<1>3. Target \in Slot /\ Target # active
      /\ \A s \in Slot : s # Target => s = active \/ (active = NoSlot /\ s = 1)
  BY DEF Target, Slot, NoSlot, TypeOK
<1>4. CurrentIs /\ CurrentIs'
  BY CurrentFacts, CurrentFactsNext
<1>5. Provisioned' <=> Provisioned
  BY <1>1, <1>4 DEF CurrentIs
<1>6. job.config.provisioned => Current' = job.config
  BY <1>1, <1>3, <1>4 DEF CurrentIs
<1>7. ASSUME ~job.config.provisioned
      PROVE  Current' = Current
  <2>1. \A s \in Slot : slot[s].provisioned => s # Target
    BY <1>1, <1>7
  <2>2. CASE Provisioned
    <3>1. PICK s \in Slot : slot[s].provisioned /\ Current = slot[s]
      BY <1>4, <2>2 DEF CurrentIs
    <3>2. PICK t \in Slot : slot'[t].provisioned /\ Current' = slot'[t]
      BY <1>4, <1>5, <2>2 DEF CurrentIs
    <3>3. s = t
      BY <1>1, <1>3, <2>1, <3>1, <3>2, Nothing
    <3> QED
      BY <1>1, <3>1, <3>2, <3>3
  <2>3. CASE ~Provisioned
    BY <1>4, <1>5, <2>3 DEF CurrentIs
  <2> QED
    BY <2>2, <2>3
<1> QED
  BY <1>1, <1>2, <1>3, <1>5, <1>6, <1>7

-----------------------------------------------------------------------------
(* The arguments each handler starts with.                                 *)

LEMMA RecoverJob ==
  ASSUME TypeOK, Recover
  PROVE  \/ ~marker.open /\ job' = job
            /\ pc' = IF Provisioned THEN "prepare" ELSE "setup"
         \/ /\ marker.open /\ pc' = "restore" /\ job'.kind = "recover"
            /\ job'.config = NoConfig /\ job'.before = NoConfig
<1>1. CASE marker.open
  <2>1. job' = [NoJob EXCEPT !.kind = "recover", !.left = File] /\ pc' = "restore"
    BY <1>1 DEF Recover, Goto
  <2> QED
    BY <1>1, <2>1, Nothing DEF Job
<1>2. CASE ~marker.open
  BY <1>2 DEF Recover, Goto
<1> QED
  BY <1>1, <1>2

LEMMA BeginJob ==
  ASSUME TypeOK, BeginTrial
  PROVE  /\ Provisioned /\ session /\ pc = "up" /\ pc' = "begin"
         /\ job'.kind = "begin" /\ job'.before = NoConfig
         /\ job'.config \in Config /\ job'.config # NoConfig /\ job'.config.provisioned
         /\ job'.config.net # Current.net
<1>1. PICK n \in Net \ {Current.net} :
         Handle("begin", [NoJob EXCEPT !.kind = "begin", !.config = [Current EXCEPT !.net = n]])
  BY DEF BeginTrial
<1>2. Provisioned /\ session /\ pc = "up" /\ pc' = "begin"
  BY <1>1 DEF Handle, Goto
<1>3. job' = [NoJob EXCEPT !.kind = "begin", !.config = [Current EXCEPT !.net = n]]
  BY <1>1 DEF Handle
<1>4. /\ [Current EXCEPT !.net = n] \in Config
      /\ [Current EXCEPT !.net = n].net = n /\ [Current EXCEPT !.net = n].provisioned
  BY <1>2, OtherNet
<1>5. job'.kind = "begin" /\ job'.before = NoConfig /\ job'.config = [Current EXCEPT !.net = n]
  BY <1>3, Nothing DEF Job
<1> QED
  BY <1>1, <1>2, <1>4, <1>5, Nothing

LEMMA ImportJob ==
  ASSUME TypeOK, Import
  PROVE  /\ Provisioned /\ session /\ pc = "up"
         /\ job'.kind = "import" /\ job'.before = Current
         /\ job'.config \in Config /\ job'.config # NoConfig /\ job'.config.provisioned
         /\ pc' = IF job'.config.net = Current.net THEN "blob" ELSE "begin"
<1>1. PICK n \in Net, d \in Modules :
         Handle(IF n = Current.net THEN "blob" ELSE "begin",
                [NoJob EXCEPT !.kind = "import", !.before = Current, !.modules = d,
                              !.config = [Current EXCEPT !.net = n]])
  BY DEF Import
<1>2. /\ Provisioned /\ session /\ pc = "up"
      /\ pc' = IF n = Current.net THEN "blob" ELSE "begin"
  BY <1>1 DEF Handle, Goto
<1>3. job' = [NoJob EXCEPT !.kind = "import", !.before = Current, !.modules = d,
                           !.config = [Current EXCEPT !.net = n]]
  BY <1>1 DEF Handle
<1>4. /\ [Current EXCEPT !.net = n] \in Config
      /\ [Current EXCEPT !.net = n].net = n /\ [Current EXCEPT !.net = n].provisioned
  BY <1>2, OtherNet
<1>5. job'.kind = "import" /\ job'.before = Current /\ job'.config = [Current EXCEPT !.net = n]
  BY <1>3, Nothing DEF Job
<1> QED
  BY <1>2, <1>4, <1>5, Nothing

LEMMA RestoreJob ==
  ASSUME TypeOK, Restore
  PROVE  /\ Provisioned /\ session /\ pc = "up" /\ pc' \in {"dropModules", "backUp", "blob"}
         /\ job'.kind = "restore" /\ job'.before = NoConfig
         /\ job'.config # NoConfig => job'.config.provisioned
<1>1. PICK c \in {NoConfig} \cup {[Current EXCEPT !.net = n] : n \in Net},
           d \in Modules, k \in Pair \ {certs["cert"].now} :
         /\ d # 0 \/ k # 0 \/ c # NoConfig
         /\ Handle(IF d # 0 THEN "dropModules" ELSE IF k # 0 THEN "backUp" ELSE "blob",
                   [NoJob EXCEPT !.kind = "restore", !.config = c, !.modules = d,
                                 !.certs = k, !.left = File])
  BY DEF Restore
<1>2. /\ Provisioned /\ session /\ pc = "up"
      /\ pc' \in {"dropModules", "backUp", "blob"}
  BY <1>1 DEF Handle, Goto
<1>3. job' = [NoJob EXCEPT !.kind = "restore", !.config = c, !.modules = d,
                           !.certs = k, !.left = File]
  BY <1>1 DEF Handle
<1>4. c # NoConfig => c.provisioned
  BY <1>2, OtherNet
<1>5. job'.kind = "restore" /\ job'.before = NoConfig /\ job'.config = c
  BY <1>3, Nothing DEF Job
<1> QED
  BY <1>2, <1>4, <1>5, Nothing

LEMMA InstallJob ==
  ASSUME TypeOK, InstallCertificates
  PROVE  /\ (pc = "up" /\ session) \/ (pc = "setup" /\ Stored # NoConfig)
         /\ job'.kind = "install" /\ job'.before = NoConfig /\ job'.config = Stored
         /\ pc' = "backUp"
<1>1. PICK k \in Pair \ {0, certs["cert"].now} :
         job' = [NoJob EXCEPT !.kind = "install", !.config = Stored, !.certs = k,
                              !.left = File]
  BY DEF InstallCertificates
<1>2. pc' = "backUp"
  BY DEF InstallCertificates, Goto
<1>3. (pc = "up" /\ session) \/ (pc = "setup" /\ Stored # NoConfig)
  BY DEF InstallCertificates
<1>4. job'.kind = "install" /\ job'.before = NoConfig /\ job'.config = Stored
  BY <1>1, Nothing DEF Job
<1> QED
  BY <1>2, <1>3, <1>4

LEMMA WifiJob ==
  ASSUME TypeOK, Provisioned, ConsoleWifi
  PROVE  /\ pc = "console" /\ pc' = "blob"
         /\ job'.kind = "wifi" /\ job'.before = NoConfig
         /\ job'.config \in Config /\ job'.config # NoConfig /\ job'.config.provisioned
<1>1. PICK n \in Net :
         job' = [NoJob EXCEPT !.kind = "wifi", !.config = [Current EXCEPT !.net = n]]
  BY DEF ConsoleWifi
<1>2. pc = "console" /\ pc' = "blob"
  BY DEF ConsoleWifi, Goto
<1>3. [Current EXCEPT !.net = n] \in Config /\ [Current EXCEPT !.net = n].provisioned
  BY OtherNet
<1>4. job'.kind = "wifi" /\ job'.before = NoConfig /\ job'.config = [Current EXCEPT !.net = n]
  BY <1>1, Nothing DEF Job
<1> QED
  BY <1>2, <1>3, <1>4, Nothing

LEMMA ConfigureJob ==
  ASSUME TypeOK, Configure
  PROVE  /\ pc = "setup" /\ pc' = "blob"
         /\ job'.kind = "configure" /\ job'.before = NoConfig
         /\ job'.config \in Config /\ job'.config # NoConfig /\ ~job'.config.provisioned
<1>1. PICK n \in Net :
         job' = [NoJob EXCEPT !.kind = "configure", !.left = File, !.certs = 1,
                              !.config = [net |-> n, provisioned |-> FALSE]]
  BY DEF Configure
<1>2. pc = "setup" /\ pc' = "blob"
  BY DEF Configure, Goto
<1>3. [net |-> n, provisioned |-> FALSE] \in Config
  BY DEF Config
<1>4. /\ job'.kind = "configure" /\ job'.before = NoConfig
      /\ job'.config = [net |-> n, provisioned |-> FALSE]
  BY <1>1, Nothing DEF Job
<1>5. job'.config \in Config /\ ~job'.config.provisioned
  BY <1>3, <1>4
<1> QED
  BY <1>2, <1>4, <1>5, Nothing

\* What a save that fails goes on with.
LEMMA SaveFailsCases ==
  ASSUME TypeOK, SaveFails
  PROVE  \/ /\ pc = "blob" /\ job.kind \in {"begin", "import"} /\ pc' = "clear"
            /\ job.config.net # Current.net
            /\ job' = job /\ session' = session
         \/ /\ pc = "begin" /\ job.kind = "begin" /\ pc' = "up"
            /\ job' = NoJob /\ session' = session
         \/ /\ \/ pc = "begin"
               \/ pc = "blob" /\ job.config.net = Current.net
            /\ job.kind = "import" /\ pc' = "blob" /\ session' = session
            /\ job'.kind = "undo" /\ job'.config = job.before /\ job'.before = NoConfig
         \/ /\ pc = "blob" /\ job.kind \in {"save", "restore", "undo", "install"}
            /\ pc' = (IF session THEN "up" ELSE "setup")
            /\ job' = NoJob /\ session' = session
         \/ /\ pc = "blob" /\ job.kind \in {"configure", "provision"} /\ pc' = "setup"
            /\ job' = NoJob /\ session' = session
         \/ /\ pc = "blob" /\ job.kind = "wifi" /\ pc' = "console"
            /\ job' = NoJob /\ session' = session
<1>1. CASE pc = "blob" /\ job.kind \in {"begin", "import"} /\ job.config.net # Current.net
           /\ Same("clear")
  BY <1>1 DEF Same, Goto, ram
<1>2. CASE pc = "begin" /\ job.kind = "begin" /\ Same("up")
  BY <1>2 DEF Same, Goto, ram
<1>3. CASE (pc = "begin" \/ (pc = "blob" /\ job.config.net = Current.net))
           /\ job.kind = "import" /\ Undo /\ UNCHANGED ram
  BY <1>3, UndoFacts DEF ram
<1>4. CASE pc = "blob" /\ job.kind \in {"save", "restore", "undo", "install"}
           /\ Same(IF session THEN "up" ELSE "setup")
  BY <1>4 DEF Same, Goto, ram
<1>5. CASE pc = "blob" /\ job.kind \in {"configure", "provision"} /\ Same("setup")
  BY <1>5 DEF Same, Goto, ram
<1>6. CASE pc = "blob" /\ job.kind = "wifi" /\ Same("console")
  BY <1>6 DEF Same, Goto, ram
<1> QED
  BY <1>1, <1>2, <1>3, <1>4, <1>5, <1>6 DEF SaveFails

\* The setup password, and where a configuration is provisioned.
LEMMA KeyedStep ==
  ASSUME TypeOK, TypeOK', Wiped, Wiped', Handled, Handled', Keyed, Next
  PROVE  Keyed'
<1> USE DEF Wiped, Handled, Keyed, Resting, Wiping, Starting, Moving, Goto, Same, PowerDown,
    Handle, nvs, files, ram, hist
<1>1. CASE Supervisor
  <2>1. CASE Boot
    BY <2>1, Nothing, SameStore DEF Boot
  <2>2. CASE WipeCerts
    BY <2>2, Nothing, SameStore DEF WipeCerts
  <2>3. CASE WipeModules
    BY <2>3, Nothing, SameStore DEF WipeModules
  <2>4. CASE WipeSlot
    BY <2>4, Nothing, CurrentFacts, CurrentFactsNext DEF WipeSlot, CurrentIs, TypeOK
  <2>5. CASE WipeActive
    BY <2>5, Nothing, CurrentFacts, CurrentFactsNext DEF WipeActive, CurrentIs, TypeOK
  <2>6. CASE WipeTrial
    BY <2>6, Nothing, SameStore DEF WipeTrial
  <2>7. CASE WipeFlag
    <3>1. /\ UNCHANGED <<slot, active, trial, bootkey, session>> /\ job' = NoJob
          /\ pc = "wipeFlag" /\ pc' = "setup"
      BY <2>7 DEF WipeFlag
    <3>2. slot[0] = NoConfig /\ slot[1] = NoConfig /\ ~session
      BY <3>1
    <3>3. ~Provisioned
      BY <3>2, CurrentFacts, Nothing DEF CurrentIs, Slot
    <3> QED
      BY <3>1, <3>2, <3>3, SameStore, Nothing
  <2>8. CASE Recover
    <3>1. UNCHANGED <<slot, active, trial, bootkey, session>>
      BY <2>8 DEF Recover
    <3> QED
      BY <2>8, <3>1, RecoverJob, SameStore, Nothing, CurrentFacts
      DEF CurrentIs
  <2>9. CASE PrepareTrial
    <3>1. UNCHANGED <<slot, active, bootkey, session>> /\ pc = "prepare"
      BY <2>9 DEF PrepareTrial
    <3>2. CASE Pending /\ trial.attempts = 1
      <4>1. GiveUp /\ trial' = trial
        BY <2>9, <3>2 DEF PrepareTrial
      <4> QED
        BY <3>1, <3>2, <4>1, GiveUpFacts, SameStore, Nothing
    <3>3. CASE ~(Pending /\ trial.attempts = 1)
      <4>1. /\ trial' = IF Pending THEN [trial EXCEPT !.attempts = 1] ELSE NoTrial
            /\ pc' = "attempt" /\ job' = job
        BY <2>9, <3>3 DEF PrepareTrial
      <4>2. trial' # NoTrial => trial'.previous = trial.previous /\ trial # NoTrial
        BY <4>1 DEF Pending, TypeOK, Trial
      <4> QED
        BY <3>1, <4>1, <4>2, SameStore, Nothing
    <3> QED
      BY <3>2, <3>3
  <2>10. CASE EnterConsole
    BY <2>10, Nothing, SameStore DEF EnterConsole
  <2>11. CASE StartApplication
    BY <2>11, Nothing, SameStore DEF StartApplication
  <2>12. CASE Connect
    BY <2>12, Nothing, SameStore DEF Connect
  <2>13. CASE PortalStarts
    BY <2>13, Nothing, SameStore, CurrentFacts DEF PortalStarts, CurrentIs
  <2>14. CASE StartFails
    BY <2>14, Nothing, SameStore, GiveUpFacts DEF StartFails
  <2> QED
    BY <1>1, <2>1, <2>2, <2>3, <2>4, <2>5, <2>6, <2>7, <2>8, <2>9, <2>10, <2>11, <2>12, <2>13,
        <2>14
    DEF Supervisor
<1>2. CASE Write
  <2>1. CASE WriteTrial
    BY <2>1, Nothing, SameStore, CurrentFacts DEF WriteTrial, CurrentIs
  <2>2. CASE WriteBlob
    BY <2>2, Nothing, BlobStore, CurrentFacts, CurrentFactsNext DEF WriteBlob, CurrentIs
  <2>3. CASE Select
    <3>1. /\ pc = "select" /\ UNCHANGED <<slot, trial, bootkey>>
          /\ \/ job' = NoJob /\ ~session' /\ pc' = "off"
             \/ (job' = job \/ job' = NoJob) /\ session' = session /\ pc' = AfterSave
      BY <2>3 DEF Select
    <3>2. AfterSave \in {"dropModules", "clear", "backUp", "eraseKey", "setup", "up"}
      BY DEF AfterSave
    <3>3. /\ AfterSave = "clear" => job.kind = "rollback"
          /\ AfterSave = "eraseKey" => job.kind = "provision"
          /\ AfterSave = "setup" => job.kind = "install" /\ ~session
      BY DEF AfterSave
    <3>4. \E s \in Slot : slot'[s] # NoConfig
      BY <2>3, SelectStore, Nothing
    <3> QED
      BY <2>3, <3>1, <3>2, <3>3, <3>4, SelectStore, Nothing
  <2>4. CASE SaveFails
    <3>1. UNCHANGED <<slot, active, trial, bootkey, session>>
      BY <2>4 DEF SaveFails
    <3>2. Current' = Current /\ (Provisioned' <=> Provisioned)
      BY <3>1, SameStore
    <3>3. CASE pc' = "clear"
      BY <2>4, <3>1, <3>2, <3>3, SaveFailsCases
    <3>4. CASE pc' \in {"up", "console"}
      <4>1. pc = "begin" \/ session \/ job.kind = "wifi"
        BY <2>4, <3>4, SaveFailsCases
      <4>2. /\ job' = NoJob /\ (pc' = "console" => job.kind = "wifi")
            /\ pc \in {"begin", "blob"}
        BY <2>4, <3>4, SaveFailsCases
      <4>3. (\E s \in Slot : slot[s] # NoConfig) /\ (pc' = "console" => Provisioned)
        BY <4>1, <4>2, CurrentFacts, Nothing DEF CurrentIs
      <4> QED
        BY <3>1, <3>2, <3>4, <4>2, <4>3, Nothing
    <3>5. CASE pc' = "setup"
      <4>1. /\ job' = NoJob /\ session' = session
            /\ job.kind \in {"configure", "provision", "save", "restore", "undo", "install"}
            /\ pc = "blob"
            /\ job.kind \in {"save", "restore", "undo", "install"} => ~session
        BY <2>4, <3>5, SaveFailsCases
      <4>2. job.kind \notin {"save", "restore", "undo"}
        BY <4>1 DEF Handled
      <4>3. ~Provisioned
        BY <4>1, <4>2 DEF Keyed
      <4> QED
        BY <3>1, <3>2, <3>5, <4>1, <4>3, Nothing
    <3>6. CASE pc' = "blob"
      <4>1. job'.kind = "undo" /\ job'.config = job.before /\ job'.before = NoConfig
        BY <2>4, <3>6, SaveFailsCases
      <4> QED
        BY <3>1, <3>2, <3>6, <4>1, Nothing
    <3> QED
      BY <2>4, <3>3, <3>4, <3>5, <3>6, SaveFailsCases
  <2>5. CASE ClearTrial
    BY <2>5, Nothing, SameStore, UndoFacts DEF ClearTrial
  <2>6. CASE ArmReset
    BY <2>6, Nothing, SameStore DEF ArmReset
  <2>7. CASE EraseKey
    BY <2>7, Nothing, SameStore DEF EraseKey
  <2>8. CASE DropModules
    BY <2>8, Nothing, SameStore DEF DropModules
  <2>9. CASE MoveModules
    BY <2>9, Nothing, SameStore DEF MoveModules
  <2>10. CASE PlaceModules
    BY <2>10, Nothing, SameStore DEF PlaceModules
  <2>11. CASE ModulesFail
    BY <2>11, Nothing, SameStore, UndoFacts DEF ModulesFail
  <2>12. CASE BackUp
    BY <2>12, Nothing, SameStore DEF BackUp, NextFile, File
  <2>13. CASE Mark
    BY <2>13, Nothing, SameStore DEF Mark, NextFile, File
  <2>14. CASE Replace
    BY <2>14, Nothing, SameStore DEF Replace, NextFile, File
  <2>15. CASE CertificatesFail
    BY <2>15, Nothing, SameStore DEF CertificatesFail, NextFile, File
  <2>16. CASE RestoreFile
    BY <2>16, Nothing, SameStore DEF RestoreFile, NextFile, File
  <2>17. CASE Unmark
    BY <2>17, Nothing, SameStore DEF Unmark, NextFile, File
  <2>18. CASE Clean
    BY <2>18, Nothing, SameStore, CurrentFacts DEF Clean, CurrentIs
  <2> QED
    BY <1>2, <2>1, <2>2, <2>3, <2>4, <2>5, <2>6, <2>7, <2>8, <2>9, <2>10, <2>11, <2>12, <2>13,
        <2>14, <2>15, <2>16, <2>17, <2>18
    DEF Write
<1>3. CASE Request
  <2>1. CASE Login
    BY <2>1, Nothing, SameStore DEF Login
  <2>2. CASE SaveSettings
    BY <2>2, Nothing, SameStore, CurrentFacts DEF SaveSettings, CurrentIs
  <2>3. CASE SaveModules
    BY <2>3, Nothing, SameStore, CurrentFacts DEF SaveModules, CurrentIs
  <2>4. CASE BeginTrial
    <3>1. UNCHANGED <<slot, active, trial, bootkey, session>>
      BY <2>4 DEF BeginTrial
    <3> QED
      BY <2>4, <3>1, BeginJob, SameStore, Nothing
  <2>5. CASE Import
    <3>1. UNCHANGED <<slot, active, trial, bootkey, session>>
      BY <2>5 DEF Import
    <3> QED
      BY <2>5, <3>1, ImportJob, SameStore, Nothing, CurrentFacts
      DEF CurrentIs
  <2>6. CASE Restore
    <3>1. UNCHANGED <<slot, active, trial, bootkey, session>>
      BY <2>6 DEF Restore
    <3> QED
      BY <2>6, <3>1, RestoreJob, SameStore, Nothing
  <2>7. CASE InstallCertificates
    <3>1. UNCHANGED <<slot, active, trial, bootkey, session>>
      BY <2>7 DEF InstallCertificates
    <3> QED
      BY <2>7, <3>1, InstallJob, SameStore, Nothing, StoredFacts, CurrentFacts
      DEF StoredIs, CurrentIs
  <2>8. CASE SaveCertificateSettings
    BY <2>8, Nothing, SameStore, StoredFacts DEF SaveCertificateSettings, StoredIs, ReadStale
  <2>9. CASE RequestReset
    BY <2>9, Nothing, SameStore, CurrentFacts DEF RequestReset, CurrentIs
  <2>10. CASE ConsoleWifi
    <3>1. UNCHANGED <<slot, active, trial, bootkey, session>> /\ pc = "console"
      BY <2>10 DEF ConsoleWifi
    <3>2. Provisioned
      BY <3>1
    <3> QED
      BY <2>10, <3>1, <3>2, WifiJob, SameStore, Nothing
  <2>11. CASE Configure
    <3>1. UNCHANGED <<slot, active, trial, bootkey, session>>
      BY <2>11 DEF Configure
    <3> QED
      BY <2>11, <3>1, ConfigureJob, SameStore, Nothing, CurrentFacts
      DEF CurrentIs
  <2>12. CASE Provision
    BY <2>12, Nothing, SameStore, CurrentFacts, StoredFacts DEF Provision, CurrentIs, StoredIs
  <2>13. CASE Restart
    BY <2>13, Nothing, SameStore DEF Restart
  <2> QED
    BY <1>3, <2>1, <2>2, <2>3, <2>4, <2>5, <2>6, <2>7, <2>8, <2>9, <2>10, <2>11, <2>12, <2>13
    DEF Request
<1>4. CASE GuardFires
  BY <1>4, Nothing, SameStore, GiveUpFacts DEF GuardFires
<1>5. CASE ConsoleEnds
  BY <1>5, Nothing, SameStore DEF ConsoleEnds
<1>6. CASE PowerLoss
  BY <1>6, Nothing, SameStore DEF PowerLoss
<1>7. CASE TornReplace
  BY <1>7, Nothing, SameStore DEF TornReplace, NextFile, File
<1> QED
  BY <1>1, <1>2, <1>3, <1>4, <1>5, <1>6, <1>7 DEF Next

\* What has happened has happened.
LEMMA ExposedGrows ==
  ASSUME TypeOK, Next
  PROVE  exposed \subseteq exposed' /\ proven \subseteq proven'
<1> USE DEF nvs, files, ram, hist
<1>1. CASE Supervisor
  BY <1>1
  DEF Supervisor, Boot, WipeCerts, WipeModules, WipeSlot, WipeActive, WipeTrial, WipeFlag,
      Recover, PrepareTrial, EnterConsole, StartApplication, Connect, PortalStarts, StartFails
<1>2. CASE Write
  BY <1>2
  DEF Write, WriteTrial, WriteBlob, Select, SaveFails, ClearTrial, ArmReset, EraseKey,
      DropModules, MoveModules, PlaceModules, ModulesFail, BackUp, Mark, Replace,
      CertificatesFail, RestoreFile, Unmark, Clean
<1>3. CASE Request
  BY <1>3
  DEF Request, Login, SaveSettings, SaveModules, BeginTrial, Import, Restore,
      InstallCertificates, SaveCertificateSettings, RequestReset, ConsoleWifi, Configure,
      Provision, Restart, ReadStale
<1>4. CASE GuardFires
  BY <1>4 DEF GuardFires
<1>5. CASE ConsoleEnds
  BY <1>5 DEF ConsoleEnds
<1>6. CASE PowerLoss
  BY <1>6 DEF PowerLoss
<1>7. CASE TornReplace
  BY <1>7 DEF TornReplace
<1> QED
  BY <1>1, <1>2, <1>3, <1>4, <1>5, <1>6, <1>7 DEF Next

\* Where the device may go on to.
LEMMA GuardedStep ==
  ASSUME TypeOK, TypeOK', Wiped, Handled, Handled', Keyed, Keyed', Guarded,
         exposed = {}, exposed' = {},
         Next
  PROVE  Guarded'
<1> USE DEF Handled, Keyed, Guarded, Usable, Resting, Wiping, Starting, Moving, Goto, Same,
    PowerDown, Handle, nvs, files, ram, hist
<1>1. CASE Supervisor
  <2>1. CASE Boot
    BY <2>1, Nothing, SameStore DEF Boot
  <2>2. CASE WipeCerts
    BY <2>2, Nothing, SameStore DEF WipeCerts, Wiped
  <2>3. CASE WipeModules
    BY <2>3, Nothing, SameStore DEF WipeModules, Wiped
  <2>4. CASE WipeSlot
    BY <2>4, Nothing DEF WipeSlot, Wiped
  <2>5. CASE WipeActive
    BY <2>5, Nothing DEF WipeActive, Wiped
  <2>6. CASE WipeTrial
    BY <2>6, Nothing, SameStore DEF WipeTrial, Wiped
  <2>7. CASE WipeFlag
    <3>1. /\ UNCHANGED <<slot, active, trial, proven>> /\ job' = NoJob
          /\ pc = "wipeFlag" /\ pc' = "setup"
      BY <2>7 DEF WipeFlag
    <3>2. slot[0] = NoConfig /\ slot[1] = NoConfig
      BY <3>1 DEF Wiped
    <3>3. ~Provisioned
      BY <3>2, CurrentFacts, Nothing DEF CurrentIs, Slot
    <3> QED
      BY <3>1, <3>2, <3>3, SameStore, Nothing
  <2>8. CASE Recover
    <3>1. UNCHANGED <<slot, active, trial, proven, resetFlag>>
      BY <2>8 DEF Recover
    <3> QED
      BY <2>8, <3>1, RecoverJob, SameStore, Nothing
  <2>9. CASE PrepareTrial
    <3>1. UNCHANGED <<slot, active, proven, resetFlag>> /\ pc = "prepare"
      BY <2>9 DEF PrepareTrial
    <3>2. CASE Pending /\ trial.attempts = 1
      <4>1. GiveUp /\ trial' = trial
        BY <2>9, <3>2 DEF PrepareTrial
      <4>2. trial.previous.provisioned
        BY <3>2 DEF Pending
      <4> QED
        BY <3>1, <3>2, <4>1, <4>2, GiveUpFacts, SameStore, Nothing
    <3>3. CASE ~(Pending /\ trial.attempts = 1)
      <4>1. /\ trial' = IF Pending THEN [trial EXCEPT !.attempts = 1] ELSE NoTrial
            /\ pc' = "attempt" /\ job' = job
        BY <2>9, <3>3 DEF PrepareTrial
      <4>2. trial' # NoTrial => trial'.previous = trial.previous /\ trial # NoTrial
                                /\ trial'.net = trial.net
        BY <4>1 DEF Pending, TypeOK, Trial
      <4>3. Pending => trial' # NoTrial
        <5>1. Pending => trial' \in Trial
          BY <4>1 DEF Pending, TypeOK, Trial
        <5> QED
          BY <5>1, Nothing
      <4>4. Provisioned /\ ~Pending => Current.net \in proven \/ resetFlag
        BY DEF Pending
      <4>5. job = NoJob
        BY <3>1
      <4> QED
        BY <3>1, <4>1, <4>2, <4>3, <4>4, <4>5, SameStore, Nothing
    <3> QED
      BY <3>2, <3>3
  <2>10. CASE EnterConsole
    BY <2>10, Nothing, SameStore DEF EnterConsole
  <2>11. CASE StartApplication
    BY <2>11, Nothing, SameStore DEF StartApplication
  <2>12. CASE Connect
    BY <2>12, Nothing, SameStore DEF Connect
  <2>13. CASE PortalStarts
    BY <2>13, Nothing, SameStore DEF PortalStarts
  <2>14. CASE StartFails
    BY <2>14, Nothing, SameStore, GiveUpFacts DEF StartFails
  <2> QED
    BY <1>1, <2>1, <2>2, <2>3, <2>4, <2>5, <2>6, <2>7, <2>8, <2>9, <2>10, <2>11, <2>12, <2>13,
        <2>14
    DEF Supervisor
<1>2. CASE Write
  <2>1. CASE WriteTrial
    <3>1. /\ pc = "begin" /\ pc' = "blob" /\ UNCHANGED <<slot, active, proven, resetFlag>>
          /\ job' = job
      BY <2>1 DEF WriteTrial
    <3>2. trial' = [net |-> job.config.net, previous |-> Current, attempts |-> 0]
      BY <2>1 DEF WriteTrial
    <3>3. Current.net \in proven
      BY <2>1 DEF WriteTrial
    <3>4. trial'.net = job.config.net /\ trial'.previous = Current
      BY <3>2
    <3>5. job.kind \in {"begin", "import"}
      BY <3>1
    <3>6. job.config \in Config /\ job.config # NoConfig
      BY <3>1 DEF TypeOK, Job
    <3>7. trial' # NoTrial
      BY <3>4, <3>6, NetAssumption DEF NoTrial, Config
    <3> QED
      BY <3>1, <3>3, <3>4, <3>5, <3>7, SameStore
  <2>2. CASE WriteBlob
    <3>1. /\ pc = "blob" /\ pc' = "select" /\ UNCHANGED <<trial, proven, resetFlag>>
          /\ job' = job /\ Unguarded = {}
      BY <2>2 DEF WriteBlob
    <3>2. job.config \in Config /\ job.config # NoConfig
      BY <2>2, BlobStore, Nothing
    <3>3. Current.net \notin Net \/ Provisioned
      BY CurrentFacts, NetAssumption DEF CurrentIs, NoConfig
    <3>4. job.config.net \in Net
      BY <3>2 DEF Config
    <3>5. job.kind \in {"restore", "wifi", "provision"} => job.config.net \in proven
      BY <3>1 DEF Unguarded
    <3>6. ASSUME ~resetFlag, job.config.provisioned
          PROVE  Usable(job.config.net)
      <4>1. job.kind \in Handler /\ job.kind \notin {"configure", "recover"}
        BY <3>1, <3>6 DEF TypeOK, Job
      <4> QED
        BY <3>1, <3>3, <3>4, <3>5, <3>6, <4>1 DEF Handler
    <3>7. ~job.config.provisioned => ~Provisioned'
      BY <2>2, <3>2, BlobStore
    <3>8. Provisioned' => (Current' = Current /\ Provisioned) \/ Current' = job.config
      BY <2>2, <3>7, BlobStore, CurrentFacts DEF CurrentIs
    <3> QED
      BY <3>1, <3>2, <3>6, <3>7, <3>8
  <2>3. CASE Select
    <3>1. /\ pc = "select" /\ UNCHANGED <<slot, trial, proven, resetFlag>>
          /\ \/ job' = NoJob /\ pc' = "off"
             \/ (job' = job \/ job' = NoJob) /\ pc' = AfterSave
      BY <2>3 DEF Select
    <3>2. /\ AfterSave \in {"dropModules", "clear", "backUp", "eraseKey", "setup", "up"}
          /\ AfterSave = "clear" => job.kind = "rollback"
      BY DEF AfterSave
    <3>3. Provisioned' => Current' = job.config /\ job.config.provisioned
      BY <2>3, SelectStore, Nothing
    <3>4. job.config # NoConfig
      BY <3>1
    <3> QED
      BY <2>3, <3>1, <3>2, <3>3, <3>4, SelectStore, Nothing
  <2>4. CASE SaveFails
    <3>1. UNCHANGED <<slot, active, trial, proven, resetFlag>>
      BY <2>4 DEF SaveFails
    <3> QED
      BY <2>4, <3>1, SaveFailsCases, SameStore, Nothing
  <2>5. CASE ClearTrial
    BY <2>5, Nothing, SameStore, UndoFacts DEF ClearTrial
  <2>6. CASE ArmReset
    BY <2>6, Nothing, SameStore DEF ArmReset
  <2>7. CASE EraseKey
    BY <2>7, Nothing, SameStore DEF EraseKey
  <2>8. CASE DropModules
    BY <2>8, Nothing, SameStore DEF DropModules
  <2>9. CASE MoveModules
    BY <2>9, Nothing, SameStore DEF MoveModules
  <2>10. CASE PlaceModules
    BY <2>10, Nothing, SameStore DEF PlaceModules
  <2>11. CASE ModulesFail
    BY <2>11, Nothing, SameStore, UndoFacts DEF ModulesFail
  <2>12. CASE BackUp
    BY <2>12, Nothing, SameStore DEF BackUp, NextFile, File
  <2>13. CASE Mark
    BY <2>13, Nothing, SameStore DEF Mark, NextFile, File
  <2>14. CASE Replace
    BY <2>14, Nothing, SameStore DEF Replace, NextFile, File
  <2>15. CASE CertificatesFail
    BY <2>15, Nothing, SameStore DEF CertificatesFail, NextFile, File
  <2>16. CASE RestoreFile
    BY <2>16, Nothing, SameStore DEF RestoreFile, NextFile, File
  <2>17. CASE Unmark
    BY <2>17, Nothing, SameStore DEF Unmark, NextFile, File
  <2>18. CASE Clean
    BY <2>18, Nothing, SameStore DEF Clean
  <2> QED
    BY <1>2, <2>1, <2>2, <2>3, <2>4, <2>5, <2>6, <2>7, <2>8, <2>9, <2>10, <2>11, <2>12, <2>13,
        <2>14, <2>15, <2>16, <2>17, <2>18
    DEF Write
<1>3. CASE Request
  <2>1. CASE Login
    BY <2>1, Nothing, SameStore DEF Login, Pending
  <2>2. CASE SaveSettings
    BY <2>2, Nothing, SameStore, CurrentFacts DEF SaveSettings, CurrentIs
  <2>3. CASE SaveModules
    BY <2>3, Nothing, SameStore, CurrentFacts DEF SaveModules, CurrentIs
  <2>4. CASE BeginTrial
    <3>1. UNCHANGED <<slot, active, trial, proven, resetFlag>>
      BY <2>4 DEF BeginTrial
    <3> QED
      BY <2>4, <3>1, BeginJob, SameStore, Nothing
  <2>5. CASE Import
    <3>1. UNCHANGED <<slot, active, trial, proven, resetFlag>>
      BY <2>5 DEF Import
    <3> QED
      BY <2>5, <3>1, ImportJob, SameStore, Nothing, CurrentFacts
      DEF CurrentIs
  <2>6. CASE Restore
    <3>1. UNCHANGED <<slot, active, trial, proven, resetFlag>>
      BY <2>6 DEF Restore
    <3> QED
      BY <2>6, <3>1, RestoreJob, SameStore, Nothing
  <2>7. CASE InstallCertificates
    <3>1. /\ UNCHANGED <<slot, active, trial, proven, resetFlag>>
          /\ Provisioned => Stored = Current
      BY <2>7, Zenon DEF InstallCertificates, ReadStale
    <3>2. ~Provisioned => Stored = NoConfig \/ ~Stored.provisioned
      BY StoredFacts, CurrentFacts DEF StoredIs, CurrentIs
    <3>3. Provisioned => Current.provisioned
      BY CurrentFacts DEF CurrentIs
    <3> QED
      BY <2>7, <3>1, <3>2, <3>3, InstallJob, SameStore, Nothing
  <2>8. CASE SaveCertificateSettings
    <3>1. /\ UNCHANGED <<slot, active, trial, proven, resetFlag>>
          /\ Provisioned => Stored = Current
      BY <2>8, Zenon DEF SaveCertificateSettings, ReadStale
    <3>2. ~Provisioned => Stored = NoConfig \/ ~Stored.provisioned
      BY StoredFacts, CurrentFacts DEF StoredIs, CurrentIs
    <3>3. Provisioned => Current.provisioned
      BY CurrentFacts DEF CurrentIs
    <3>4. /\ job' = [NoJob EXCEPT !.config = Stored] /\ pc' = "blob"
      BY <2>8 DEF SaveCertificateSettings
    <3>5. job'.kind = "save" /\ job'.config = Stored /\ job'.before = NoConfig
      BY <3>4, Nothing DEF Job
    <3> QED
      BY <3>1, <3>2, <3>3, <3>4, <3>5, SameStore, Nothing
  <2>9. CASE RequestReset
    BY <2>9, Nothing, SameStore, CurrentFacts DEF RequestReset, CurrentIs
  <2>10. CASE ConsoleWifi
    <3>1. UNCHANGED <<slot, active, trial, proven, resetFlag>> /\ Provisioned
      BY <2>10 DEF ConsoleWifi
    <3> QED
      BY <2>10, <3>1, WifiJob, SameStore, Nothing
  <2>11. CASE Configure
    <3>1. UNCHANGED <<slot, active, trial, proven, resetFlag>>
      BY <2>11 DEF Configure
    <3> QED
      BY <2>11, <3>1, ConfigureJob, SameStore, Nothing
  <2>12. CASE Provision
    BY <2>12, Nothing, SameStore, CurrentFacts, StoredFacts DEF Provision, CurrentIs, StoredIs
  <2>13. CASE Restart
    BY <2>13, Nothing, SameStore DEF Restart
  <2> QED
    BY <1>3, <2>1, <2>2, <2>3, <2>4, <2>5, <2>6, <2>7, <2>8, <2>9, <2>10, <2>11, <2>12, <2>13
    DEF Request
<1>4. CASE GuardFires
  BY <1>4, Nothing, SameStore, GiveUpFacts DEF GuardFires
<1>5. CASE ConsoleEnds
  BY <1>5, Nothing, SameStore DEF ConsoleEnds
<1>6. CASE PowerLoss
  BY <1>6, Nothing, SameStore DEF PowerLoss
<1>7. CASE TornReplace
  BY <1>7, Nothing, SameStore DEF TornReplace, NextFile, File
<1> QED
  BY <1>1, <1>2, <1>3, <1>4, <1>5, <1>6, <1>7 DEF Next

-----------------------------------------------------------------------------
(* The invariant.                                                          *)

LEMMA InitHolds == Init => IInv
<1> SUFFICES ASSUME Init PROVE IInv
  OBVIOUS
<1>1. \A s \in Slot : slot[s] = NoConfig
  BY DEF Init
<1>2. TypeOK
  <2>1. certs \in [File -> [now : Pair, previous : Pair]]
    BY BoundsAssumption DEF Init, File, Pair
  <2>2. marker \in Marker
    BY DEF Init, Marker, NoMarker
  <2>3. modules \in [now : Modules, previous : Modules]
    BY DEF Init, Modules
  <2> QED
    <3>1. slot \in [Slot -> Config \cup {NoConfig}]
      BY DEF Init
    <3>2. losses \in 0 .. MaxLosses
      BY BoundsAssumption DEF Init
    <3>3. active \in Slot \cup {NoSlot} /\ trial \in Trial \cup {NoTrial}
      BY DEF Init
    <3>4. /\ resetFlag \in BOOLEAN /\ bootkey \in BOOLEAN /\ recovery \in BOOLEAN
          /\ session \in BOOLEAN /\ guard \in BOOLEAN
      BY DEF Init
    <3>5. pc \in Step /\ job \in Job /\ running \in Net \cup {NoNet}
      BY Nothing DEF Init, Step
    <3>6. proven \in SUBSET Net /\ exposed \in SUBSET Exposure
      BY DEF Init
    <3> QED
      BY <2>1, <2>2, <2>3, <3>1, <3>2, <3>3, <3>4, <3>5, <3>6 DEF TypeOK
<1>3. ~Provisioned
  BY <1>1, <1>2, CurrentFacts, Nothing DEF CurrentIs
<1>4. Paired
  BY DEF Init, Paired, NoMarker, File
<1>5. Wiped /\ Moved
  BY DEF Init, Wiped, Moved, Wiping
<1>6. Handled
  BY Nothing DEF Init, Handled, Resting, Wiping, Starting, Moving
<1>7. Keyed
  BY <1>3, Nothing DEF Init, Keyed, Starting
<1>8. Guarded
  BY <1>3, Nothing DEF Init, Guarded
<1> QED
  BY <1>2, <1>4, <1>5, <1>6, <1>7, <1>8 DEF IInv

LEMMA NextHolds == IInv /\ [Next]_vars => IInv'
<1> SUFFICES ASSUME IInv, [Next]_vars PROVE IInv'
  OBVIOUS
<1> USE DEF IInv
<1>1. CASE Next
  <2>1. TypeOK'
    BY <1>1, TypeStep
  <2>2. Paired' /\ Wiped' /\ Handled' /\ Moved'
    BY <1>1, PairedStep, WipedStep, HandledStep, MovedStep
  <2>3. Keyed'
    BY <1>1, <2>1, <2>2, KeyedStep
  <2>4. ASSUME exposed' = {} PROVE Guarded'
    <3>1. exposed = {}
      BY <1>1, <2>4, ExposedGrows
    <3> QED
      BY <1>1, <2>1, <2>2, <2>3, <2>4, <3>1, GuardedStep
  <2> QED
    BY <2>1, <2>2, <2>3, <2>4
<1>2. CASE UNCHANGED vars
  <2> USE <1>2 DEF vars
  <2>1. TypeOK'
    BY DEF TypeOK
  <2>2. Current' = Current /\ (Provisioned' <=> Provisioned)
    BY SameStore
  <2>3. Paired' /\ Wiped'
    BY DEF Paired, Wiped
  <2>4. Handled' /\ Moved'
    BY DEF Handled, Moved, Target
  <2>5. Keyed'
    BY <2>2 DEF Keyed
  <2>6. exposed' = {} => Guarded'
    BY <2>2 DEF Guarded, Usable
  <2> QED
    BY <2>1, <2>3, <2>4, <2>5, <2>6
<1> QED
  BY <1>1, <1>2

LEMMA InvariantHolds == Spec => []IInv
BY InitHolds, NextHolds, PTL DEF Spec

-----------------------------------------------------------------------------
(* The theorems.                                                           *)

\* Outside of a certificate transaction certificate and key belong together
\* (certificate_manager.py), wherever power was lost, also between the two halves of a
\* replacement: the marker is only taken back when both files have been dealt with.
THEOREM PairMatchesHolds == Spec => []PairMatches
<1>1. IInv => PairMatches
  BY DEF IInv, Paired, PairMatches
<1> QED
  BY <1>1, InvariantHolds, PTL

\* Whenever the device restarts it has a network over which an administrator was served, or goes
\* back to one, or can open the access point of first-boot setup (credential_store.py).  This
\* assumes that the four ways around the trial are excused, as the run does.
THEOREM WithinReachHolds ==
  ASSUME Exposure \subseteq Excused
  PROVE  Spec => []WithinReach
<1>1. IInv => WithinReach
  <2> SUFFICES ASSUME IInv PROVE WithinReach
    OBVIOUS
  <2>1. TypeOK /\ CurrentIs
    BY CurrentFacts DEF IInv
  <2>2. SetupReachable
    BY <2>1 DEF IInv, Keyed, SetupReachable, CurrentIs
  <2>3. ASSUME Promised, Provisioned, ~resetFlag
        PROVE  \/ Current.net \in proven
               \/ Pending /\ trial.previous.net \in proven
    <3>1. exposed = {}
      BY <2>1, <2>3 DEF Promised, TypeOK
    <3>2. Guarded
      BY <3>1 DEF IInv
    <3> QED
      BY <2>3, <3>2 DEF Guarded, Usable, Pending
  <2> QED
    BY <2>1, <2>2, <2>3 DEF WithinReach, NetworkGuarded
<1> QED
  BY <1>1, InvariantHolds, PTL

\* The flag of a factory reset falls when nothing of the user is left, however often the reset
\* was interrupted (credential_store.py, recovery_boot.py): each step relies on those before it.
THEOREM ResetIsCompleteHolds == Spec => ResetIsComplete
<1> DEFINE A == (resetFlag /\ ~resetFlag') =>
                  /\ \A s \in Slot : slot'[s] = NoConfig
                  /\ active' = NoSlot /\ trial' = NoTrial /\ bootkey'
                  /\ \A f \in File : certs'[f].now = 0
                  /\ modules'.now = 0 /\ modules'.previous = 0
<1>1. IInv /\ [Next]_vars => [A]_vars
  <2> SUFFICES ASSUME IInv, Next, resetFlag, ~resetFlag' PROVE A
    BY DEF vars
  <2>1. WipeFlag
    BY DEF Next, Supervisor, Boot, WipeCerts, WipeModules, WipeSlot, WipeActive, WipeTrial,
           Recover, PrepareTrial, EnterConsole, StartApplication, Connect, PortalStarts,
           StartFails, Write, WriteTrial, WriteBlob, Select, SaveFails, ClearTrial, ArmReset,
           EraseKey, DropModules, MoveModules, PlaceModules, ModulesFail, BackUp, Mark,
           Replace, CertificatesFail, RestoreFile, Unmark, Clean, Request, Login,
           SaveSettings, SaveModules, BeginTrial, Import, Restore, InstallCertificates,
           SaveCertificateSettings, RequestReset, ConsoleWifi, Configure, Provision, Restart,
           GuardFires, ConsoleEnds, PowerLoss, TornReplace, nvs
  <2>2. pc = "wipeFlag" /\ UNCHANGED <<slot, active, trial, bootkey, certs, modules>>
    BY <2>1 DEF WipeFlag, files
  <2>3. Wiped
    BY DEF IInv
  <2>4. slot[0] = NoConfig /\ slot[1] = NoConfig /\ active = NoSlot /\ trial = NoTrial
    BY <2>2, <2>3 DEF Wiped
  <2>5. /\ \A f \in File : certs[f].now = 0
        /\ modules.now = 0 /\ modules.previous = 0 /\ bootkey
    BY <2>2, <2>3 DEF Wiped, Wiping
  <2> QED
    BY <2>2, <2>4, <2>5 DEF Slot
<1> QED
  BY <1>1, InvariantHolds, PTL DEF Spec, ResetIsComplete

\* Only a factory reset takes the configuration away.
LEMMA StaysStep ==
  ASSUME IInv, TypeOK', exposed = {}, Provisioned, ~Provisioned', Next
  PROVE  resetFlag
<1> USE DEF IInv, nvs, files, ram, hist, Same
<1>1. CASE Supervisor
  <2>1. CASE Boot
    BY <2>1, SameStore DEF Boot
  <2>2. CASE WipeCerts
    BY <2>2, SameStore DEF WipeCerts
  <2>3. CASE WipeModules
    BY <2>3, SameStore DEF WipeModules
  <2>4. CASE WipeSlot
    BY <2>4, SameStore DEF WipeSlot, Wiped, Wiping
  <2>5. CASE WipeActive
    BY <2>5, SameStore DEF WipeActive, Wiped, Wiping
  <2>6. CASE WipeTrial
    BY <2>6, SameStore DEF WipeTrial
  <2>7. CASE WipeFlag
    BY <2>7, SameStore DEF WipeFlag
  <2>8. CASE Recover
    BY <2>8, SameStore DEF Recover
  <2>9. CASE PrepareTrial
    BY <2>9, SameStore DEF PrepareTrial
  <2>10. CASE EnterConsole
    BY <2>10, SameStore DEF EnterConsole
  <2>11. CASE StartApplication
    BY <2>11, SameStore DEF StartApplication
  <2>12. CASE Connect
    BY <2>12, SameStore DEF Connect
  <2>13. CASE PortalStarts
    BY <2>13, SameStore DEF PortalStarts
  <2>14. CASE StartFails
    BY <2>14, SameStore DEF StartFails
  <2> QED
    BY <1>1, <2>1, <2>2, <2>3, <2>4, <2>5, <2>6, <2>7, <2>8, <2>9, <2>10, <2>11, <2>12, <2>13,
        <2>14
    DEF Supervisor
<1>2. CASE Write
  <2>1. CASE WriteTrial
    BY <2>1, SameStore DEF WriteTrial
  <2>2. CASE WriteBlob
    BY <2>2, SameStore, BlobStore DEF WriteBlob, Guarded, Handled
  <2>3. CASE Select
    BY <2>3, SameStore, SelectStore DEF Select
  <2>4. CASE SaveFails
    BY <2>4, SameStore DEF SaveFails
  <2>5. CASE ClearTrial
    BY <2>5, SameStore DEF ClearTrial
  <2>6. CASE ArmReset
    BY <2>6, SameStore DEF ArmReset
  <2>7. CASE EraseKey
    BY <2>7, SameStore DEF EraseKey
  <2>8. CASE DropModules
    BY <2>8, SameStore DEF DropModules
  <2>9. CASE MoveModules
    BY <2>9, SameStore DEF MoveModules
  <2>10. CASE PlaceModules
    BY <2>10, SameStore DEF PlaceModules
  <2>11. CASE ModulesFail
    BY <2>11, SameStore DEF ModulesFail
  <2>12. CASE BackUp
    BY <2>12, SameStore DEF BackUp
  <2>13. CASE Mark
    BY <2>13, SameStore DEF Mark
  <2>14. CASE Replace
    BY <2>14, SameStore DEF Replace
  <2>15. CASE CertificatesFail
    BY <2>15, SameStore DEF CertificatesFail
  <2>16. CASE RestoreFile
    BY <2>16, SameStore DEF RestoreFile
  <2>17. CASE Unmark
    BY <2>17, SameStore DEF Unmark
  <2>18. CASE Clean
    BY <2>18, SameStore DEF Clean
  <2> QED
    BY <1>2, <2>1, <2>2, <2>3, <2>4, <2>5, <2>6, <2>7, <2>8, <2>9, <2>10, <2>11, <2>12, <2>13,
        <2>14, <2>15, <2>16, <2>17, <2>18
    DEF Write
<1>3. CASE Request
  BY <1>3, SameStore
  DEF Request, Login, SaveSettings, SaveModules, BeginTrial, Import, Restore,
      InstallCertificates, SaveCertificateSettings, RequestReset, ConsoleWifi, Configure,
      Provision, Restart
<1>4. CASE GuardFires
  BY <1>4, SameStore DEF GuardFires
<1>5. CASE ConsoleEnds
  BY <1>5, SameStore DEF ConsoleEnds
<1>6. CASE PowerLoss
  BY <1>6, SameStore DEF PowerLoss
<1>7. CASE TornReplace
  BY <1>7, SameStore DEF TornReplace
<1> QED
  BY <1>1, <1>2, <1>3, <1>4, <1>5, <1>6, <1>7 DEF Next

\* One generation of the modules is always there.
LEMMA KeptStep ==
  ASSUME IInv, modules.now # 0 \/ modules.previous # 0, Next
  PROVE  modules'.now # 0 \/ modules'.previous # 0 \/ resetFlag
<1> USE DEF IInv, nvs, files, ram, hist, Same
<1>1. CASE Supervisor
  <2>1. CASE Boot
    BY <2>1 DEF Boot
  <2>2. CASE WipeCerts
    BY <2>2 DEF WipeCerts
  <2>3. CASE WipeModules
    BY <2>3 DEF WipeModules, Wiped, Wiping, TypeOK
  <2>4. CASE WipeSlot
    BY <2>4 DEF WipeSlot
  <2>5. CASE WipeActive
    BY <2>5 DEF WipeActive
  <2>6. CASE WipeTrial
    BY <2>6 DEF WipeTrial
  <2>7. CASE WipeFlag
    BY <2>7 DEF WipeFlag
  <2>8. CASE Recover
    BY <2>8 DEF Recover
  <2>9. CASE PrepareTrial
    BY <2>9 DEF PrepareTrial
  <2>10. CASE EnterConsole
    BY <2>10 DEF EnterConsole
  <2>11. CASE StartApplication
    BY <2>11 DEF StartApplication, TypeOK
  <2>12. CASE Connect
    BY <2>12 DEF Connect
  <2>13. CASE PortalStarts
    BY <2>13 DEF PortalStarts
  <2>14. CASE StartFails
    BY <2>14 DEF StartFails
  <2> QED
    BY <1>1, <2>1, <2>2, <2>3, <2>4, <2>5, <2>6, <2>7, <2>8, <2>9, <2>10, <2>11, <2>12, <2>13,
        <2>14
    DEF Supervisor
<1>2. CASE Write
  <2>1. CASE WriteTrial
    BY <2>1 DEF WriteTrial
  <2>2. CASE WriteBlob
    BY <2>2 DEF WriteBlob
  <2>3. CASE Select
    BY <2>3 DEF Select
  <2>4. CASE SaveFails
    BY <2>4 DEF SaveFails
  <2>5. CASE ClearTrial
    BY <2>5 DEF ClearTrial
  <2>6. CASE ArmReset
    BY <2>6 DEF ArmReset
  <2>7. CASE EraseKey
    BY <2>7 DEF EraseKey
  <2>8. CASE DropModules
    BY <2>8 DEF DropModules, TypeOK, Moved, Handled, Moving
  <2>9. CASE MoveModules
    BY <2>9 DEF MoveModules, TypeOK, Moved, Handled, Moving
  <2>10. CASE PlaceModules
    BY <2>10 DEF PlaceModules, TypeOK, Moved, Handled, Moving
  <2>11. CASE ModulesFail
    BY <2>11 DEF ModulesFail, TypeOK, Moved, Handled, Moving
  <2>12. CASE BackUp
    BY <2>12 DEF BackUp
  <2>13. CASE Mark
    BY <2>13 DEF Mark
  <2>14. CASE Replace
    BY <2>14 DEF Replace
  <2>15. CASE CertificatesFail
    BY <2>15 DEF CertificatesFail
  <2>16. CASE RestoreFile
    BY <2>16 DEF RestoreFile
  <2>17. CASE Unmark
    BY <2>17 DEF Unmark
  <2>18. CASE Clean
    BY <2>18 DEF Clean
  <2> QED
    BY <1>2, <2>1, <2>2, <2>3, <2>4, <2>5, <2>6, <2>7, <2>8, <2>9, <2>10, <2>11, <2>12, <2>13,
        <2>14, <2>15, <2>16, <2>17, <2>18
    DEF Write
<1>3. CASE Request
  BY <1>3
  DEF Request, Login, SaveSettings, SaveModules, BeginTrial, Import, Restore,
      InstallCertificates, SaveCertificateSettings, RequestReset, ConsoleWifi, Configure,
      Provision, Restart
<1>4. CASE GuardFires
  BY <1>4 DEF GuardFires
<1>5. CASE ConsoleEnds
  BY <1>5 DEF ConsoleEnds
<1>6. CASE PowerLoss
  BY <1>6 DEF PowerLoss
<1>7. CASE TornReplace
  BY <1>7 DEF TornReplace
<1> QED
  BY <1>1, <1>2, <1>3, <1>4, <1>5, <1>6, <1>7 DEF Next

\* No step but a factory reset takes the configuration of the device, or both generations of its
\* modules (credential_store.py, file_utils.py): a save writes the slot that is not selected, and
\* a commit moves the old file before it places the new one.
THEOREM KeepsConfigurationHolds ==
  ASSUME Exposure \subseteq Excused
  PROVE  Spec => KeepsConfiguration
<1> DEFINE A == (Provisioned /\ ~Provisioned') => (resetFlag \/ ~Promised')
           B == (modules.now # 0 \/ modules.previous # 0) =>
                  (modules'.now # 0 \/ modules'.previous # 0 \/ resetFlag)
<1>1. IInv /\ [Next]_vars => [A]_vars
  <2> SUFFICES ASSUME IInv, Next, Provisioned, ~Provisioned', Promised' PROVE resetFlag
    OBVIOUS
  <2>1. IInv'
    BY NextHolds
  <2>2. exposed' = {}
    BY <2>1 DEF IInv, TypeOK, Promised
  <2>3. exposed = {}
    BY <2>2, ExposedGrows DEF IInv
  <2> QED
    BY <2>1, <2>3, StaysStep DEF IInv
<1>2. IInv /\ [Next]_vars => [B]_vars
  <2> SUFFICES ASSUME IInv, Next, modules.now # 0 \/ modules.previous # 0
               PROVE  modules'.now # 0 \/ modules'.previous # 0 \/ resetFlag
    OBVIOUS
  <2> QED
    BY KeptStep
<1>3. Spec => StaysProvisioned
  BY <1>1, InvariantHolds, PTL DEF Spec, StaysProvisioned
<1>4. Spec => ModulesKept
  BY <1>2, InvariantHolds, PTL DEF Spec, ModulesKept
<1> QED
  BY <1>3, <1>4 DEF KeepsConfiguration
==============================================================================
