------------------------------- MODULE UsbTools -------------------------------
(***************************************************************************)
(* The tools that work on a device over USB: reseed_device_usb.py, which   *)
(* takes it back to its first run with a new core and application, and     *)
(* stage_application_usb.py and stage_firmware_usb.py, which stage a       *)
(* bundle and may activate it.                                             *)
(*                                                                         *)
(* A tool interrupts whatever the device does with a raw REPL and has it   *)
(* execute one script after the other.  Power or the cable may fail        *)
(* between any two of their steps; the device then starts with what it     *)
(* finds, and the tool may be run again.  Installing and confirming a      *)
(* bundle are single steps here (AppUpdate and DeviceUpdate have theirs).  *)
(***************************************************************************)
EXTENDS Naturals, FiniteSets

CONSTANTS
  MaxRuns,     \* bounds of the model: runs of a tool, ...
  MaxCuts,     \* ... and losses of power or of the cable
  UsbExcused   \* the exposures after which nothing is promised

ASSUME UsbBounds == MaxRuns \in Nat /\ MaxCuts \in Nat

VARIABLES
  mode,    \* of the device: off, starting, running, or in the REPL
  core,    \* the partitions: the core each holds, the one that runs, the one that boots
           \* next, and the trial of that one
  nvs,     \* iotmd_config: provisioned or not, and whose setup password
  fs,      \* the file system
  tool,    \* which tool runs, and how far it has come
  before,  \* nvs before the keys were erased
  runs, cuts, usbExposed

usbVars == <<mode, core, nvs, fs, tool, before, runs, cuts, usbExposed>>

(***************************************************************************)
(* What the code does not cover (README, Exposures):                       *)
(*   keyless   power fails between the erasure of the keys and the commit  *)
(*             of the new ones: no setup, and no application               *)
(*   leftover  the reseed ends after the commit and before the last file   *)
(*             is removed: the setup goes on with files of before          *)
(*   fell back the new core is reset before the tool has marked it valid:  *)
(*             the tool does not look at which partition runs              *)
(*   early     the tool activates a bundle itself, which leaves it on      *)
(*             trial, and the start takes a trial for one that failed      *)
(***************************************************************************)
UsbExposure == {"keyless", "leftover", "fell back", "early"}
UsbPromised == usbExposed \cap UsbExcused = {}

\* Releases of an application and bundles of them: "old" is installed, "staged" was staged
\* through the portal, "new" is the tool's.
Bundle == {"none", "part", "staged", "new"}
Files == [app : {"none", "old", "staged", "new"}, \* the application that is installed
          kept : BOOLEAN,                         \* settings, certificates, logs of before
          upload : {"none", "part", "new"},       \* .iotapp-usb-application.iotapp
          firmware : {"none", "part", "new"},     \* .iotapp-usb-firmware.iotcore
          bundle : Bundle,                        \* .app-update.bundle
          record : {"idle", "ready", "activating", "trial"}]

NoTool == [kind |-> "none", at |-> "done"]

UsbInit ==
  /\ mode = "running"
  /\ core = [image |-> <<"old", "old">>, runs |-> 1, boots |-> 1, trial |-> "no"]
  /\ nvs = [config |-> TRUE, key |-> "old"] /\ before = nvs
  /\ fs = [app |-> "old", kept |-> TRUE, upload |-> "none", firmware |-> "none",
           bundle |-> "none", record |-> "idle"]
  /\ tool = NoTool
  /\ runs = 0 /\ cuts = 0 /\ usbExposed = {}

Device == <<core, nvs, fs>>
Opposite(p) == 3 - p

-----------------------------------------------------------------------------
(* The device.                                                             *)

\* The bootloader gives up a core that was not marked valid in its first run, unless the other
\* partition holds no image that it could start, and it starts no image that is not whole.
FallsBack == core.trial = "pending" /\ core.image[Opposite(core.boots)] # "torn"

Boots ==
  /\ mode = "off" /\ mode' = "starting"
  /\ LET p == IF FallsBack \/ core.image[core.boots] = "torn"
              THEN Opposite(core.boots) ELSE core.boots
         first == core.trial = "selected" /\ p = core.boots
     IN core' = [core EXCEPT !.runs = p, !.boots = p, !.trial = IF first THEN "pending" ELSE "no"]
  /\ usbExposed' = usbExposed \cup
       (IF FallsBack /\ tool.at = "first boot" THEN {"fell back"} ELSE {})
  /\ UNCHANGED <<nvs, fs, tool, before, runs, cuts>>

\* activate_pending() at the start, where a trial is one whose start has failed.
AtStart(files) ==
  CASE files.record = "ready" -> [files EXCEPT !.record = "trial"]
    [] files.record \in {"trial", "activating"} ->
         [files EXCEPT !.record = "idle", !.bundle = "none"]
    [] OTHER -> files

\* run(): the application, or the setup, which needs a password.
Starts ==
  /\ mode = "starting"
  /\ mode' = IF nvs.config \/ nvs.key # "none" THEN "running" ELSE "repl"
  /\ fs' = IF nvs.config THEN AtStart(fs) ELSE fs
  /\ UNCHANGED <<core, nvs, tool, before, runs, cuts, usbExposed>>

\* The application has started well: what is on trial is confirmed.
Confirms ==
  /\ mode = "running" /\ nvs.config
  /\ fs.record = "trial" \/ core.trial = "pending"
  /\ fs' = IF fs.record = "trial"
           THEN [fs EXCEPT !.app = fs.bundle, !.bundle = "none", !.record = "idle"] ELSE fs
  /\ core' = IF core.trial = "pending" THEN [core EXCEPT !.trial = "no"] ELSE core
  /\ UNCHANGED <<mode, nvs, tool, before, runs, cuts, usbExposed>>

\* Somebody stages a bundle through the portal, for the next restart.
PortalStages ==
  /\ mode = "running" /\ nvs.config /\ fs.record = "idle" /\ fs.app = "old" /\ runs = 0
  /\ fs' = [fs EXCEPT !.bundle = "staged", !.record = "ready"]
  /\ UNCHANGED <<mode, core, nvs, tool, before, runs, cuts, usbExposed>>

\* The wizard ends, which wants an application that is installed or staged.
SetsUp ==
  /\ mode = "running" /\ ~nvs.config /\ tool.at = "done"
  /\ fs.app # "none" \/ fs.record = "ready"
  /\ nvs' = [nvs EXCEPT !.config = TRUE] /\ mode' = "off"
  /\ UNCHANGED <<core, fs, tool, before, runs, cuts, usbExposed>>

-----------------------------------------------------------------------------
(* What comes between.                                                     *)

\* Steps of a tool that wait for the device and try again.
Waits == tool.at \in {"first boot", "phase", "restarted"}

\* What is lost with the tool at this step.
CutExposes ==
  (IF tool.at = "erased" /\ nvs'.key = "none" THEN {"keyless"} ELSE {}) \cup
  (IF tool.at \in {"erased", "keyed", "emptying"} /\ ~nvs'.config THEN {"leftover"} ELSE {})

\* Power fails, or a watchdog fires that nobody feeds: erased keys may come back that were
\* not committed.
PowerFails ==
  /\ mode # "off" /\ cuts < MaxCuts
  /\ mode' = "off" /\ cuts' = cuts + 1
  /\ nvs' \in IF tool.at = "erased" THEN {nvs, before} ELSE {nvs}
  /\ usbExposed' = usbExposed \cup CutExposes
  /\ tool' = IF Waits THEN tool ELSE NoTool
  /\ UNCHANGED <<core, fs, before, runs>>

\* The cable fails: the script that runs is finished, the next is not sent.
Unplugs ==
  /\ tool.at \notin {"done", "erased", "keyed", "emptying", "selected"} /\ cuts < MaxCuts
  /\ cuts' = cuts + 1 /\ tool' = NoTool
  /\ UNCHANGED <<mode, core, nvs, fs, before, runs, usbExposed>>

\* No tool is at work: somebody restarts the device, or the watchdog does at the prompt.
Restarts ==
  /\ mode \in {"running", "repl"} /\ tool.at = "done"
  /\ mode' = "off"
  /\ UNCHANGED <<core, nvs, fs, tool, before, runs, cuts, usbExposed>>

-----------------------------------------------------------------------------
(* The tools.                                                              *)

\* enter_raw_repl() interrupts, which may come in the middle of an activation.
Interrupts ==
  /\ mode # "off" /\ mode' = "repl"
  /\ \/ UNCHANGED fs
     \/ /\ mode = "starting" /\ nvs.config /\ fs.record = "ready"
        /\ fs' = [fs EXCEPT !.record = "activating"]

Opens(kind) ==
  /\ tool.at = "done" /\ runs < MaxRuns
  /\ Interrupts
  /\ tool' = [kind |-> kind, at |-> "open"] /\ runs' = runs + 1
  /\ UNCHANGED <<core, nvs, before, cuts, usbExposed>>

StepOf(kinds, from, to) ==
  /\ mode = "repl" /\ tool.kind \in kinds /\ tool.at = from
  /\ tool' = [tool EXCEPT !.at = to]
  /\ UNCHANGED <<before, runs, cuts>>

Reseed    == {"reseed"}
StageTool == {"stage", "activate"}
CoreTool  == {"core", "activate core"}

Keeps == UNCHANGED <<mode, usbExposed>>

\* The partition that does not run, block by block, and read back.  The signed bundle of a
\* core is copied to a file first, which goes in any case.
Overwrites ==
  /\ \/ StepOf(Reseed, "open", "writing") /\ UNCHANGED fs
     \/ StepOf(CoreTool, "copied", "writing") /\ UNCHANGED fs
  /\ Keeps
  /\ core' = [core EXCEPT !.image[Opposite(core.runs)] = "torn"]
  /\ UNCHANGED nvs

Verifies ==
  /\ \/ StepOf(Reseed, "writing", "written") /\ UNCHANGED fs
     \/ StepOf(CoreTool, "writing", "staged") /\ fs' = [fs EXCEPT !.firmware = "none"]
  /\ Keeps
  /\ core' = [core EXCEPT !.image[Opposite(core.runs)] = "new"]
  /\ UNCHANGED nvs

\* firmware_update.activate_pending(): the core is tried at the next start.
SelectsCore ==
  /\ StepOf({"activate core"}, "staged", "done") /\ Keeps
  /\ core' = [core EXCEPT !.boots = Opposite(core.runs), !.trial = "selected"]
  /\ UNCHANGED <<nvs, fs>>

\* reset_state, one script: the keys, ...
Erases ==
  /\ mode = "repl" /\ tool = [kind |-> "reseed", at |-> "written"]
  /\ tool' = [tool EXCEPT !.at = "erased"]
  /\ before' = nvs /\ nvs' = [config |-> FALSE, key |-> "none"]
  /\ UNCHANGED <<mode, core, fs, runs, cuts, usbExposed>>

Commits ==
  /\ StepOf(Reseed, "erased", "keyed") /\ Keeps
  /\ nvs' = [nvs EXCEPT !.key = "new"]
  /\ UNCHANGED <<core, fs>>

\* ... the files, in the order of their directories, ...
Removes ==
  /\ StepOf(Reseed, "keyed", "emptying") /\ Keeps
  /\ fs' \in {[fs EXCEPT !.app = a, !.bundle = b, !.record = r] :
                a \in {"none", fs.app}, b \in {"none", fs.bundle}, r \in {"idle", fs.record}}
  /\ UNCHANGED <<core, nvs>>

\* Mutant: the directory the application lives in is all that is removed.
EmptiedSlots == [fs EXCEPT !.app = "none", !.bundle = "none", !.record = "idle"]

Emptied == [app |-> "none", kept |-> FALSE, upload |-> "none", firmware |-> "none",
            bundle |-> "none", record |-> "idle"]

Empties ==
  /\ StepOf(Reseed, "emptying", "emptied") /\ Keeps
  /\ fs' = Emptied
  /\ UNCHANGED <<core, nvs>>

\* ... and the partition.
Selects ==
  /\ StepOf(Reseed, "emptied", "selected") /\ Keeps
  /\ core' = [core EXCEPT !.boots = Opposite(core.runs), !.trial = "selected"]
  /\ UNCHANGED <<nvs, fs>>

\* reset_board()
Resets(kinds, from, to) ==
  /\ mode = "repl" /\ tool.kind \in kinds /\ tool.at = from
  /\ mode' = "off" /\ tool' = [tool EXCEPT !.at = to]
  /\ UNCHANGED <<core, nvs, fs, before, runs, cuts, usbExposed>>

\* open_board() of a device that restarts
Reopens(kinds, from, to) ==
  /\ tool.kind \in kinds /\ tool.at = from
  /\ Interrupts
  /\ tool' = [tool EXCEPT !.at = to]
  /\ UNCHANGED <<core, nvs, before, runs, cuts, usbExposed>>

\* Whichever partition runs is marked, and then what it printed is compared.
MarksValid ==
  /\ mode = "repl" /\ tool = [kind |-> "reseed", at |-> "again"]
  /\ core' = [core EXCEPT !.trial = "no"]
  /\ tool' = IF nvs = [config |-> FALSE, key |-> "new"]
             THEN [tool EXCEPT !.at = "marked"] ELSE NoTool
  /\ UNCHANGED <<mode, nvs, fs, before, runs, cuts, usbExposed>>

Puts ==
  /\ StepOf(Reseed, "marked", "put") /\ Keeps
  /\ fs' = [fs EXCEPT !.bundle = "part"]
  /\ UNCHANGED <<core, nvs>>

Preloads ==
  /\ StepOf(Reseed, "put", "staged") /\ Keeps
  /\ fs' = [fs EXCEPT !.bundle = "new", !.record = "ready"]
  /\ UNCHANGED <<core, nvs>>

\* The bundle goes to a file of its own, that of an application with a restart between its
\* parts.
Copies ==
  /\ Keeps /\ UNCHANGED <<core, nvs>>
  /\ \/ StepOf(StageTool, "open", "half") /\ fs' = [fs EXCEPT !.upload = "part"]
     \/ StepOf(StageTool, "resumed", "copied") /\ fs' = [fs EXCEPT !.upload = "new"]
     \/ StepOf(CoreTool, "open", "opened") /\ fs' = [fs EXCEPT !.firmware = "part"]
     \/ StepOf(CoreTool, "opened", "copied") /\ fs' = [fs EXCEPT !.firmware = "new"]

\* One that is ready is given up; in any other state of the updater the tool ends.
Discards ==
  /\ mode = "repl" /\ tool.kind \in StageTool /\ tool.at = "returned"
  /\ tool' = IF fs.record \in {"idle", "ready"} THEN [tool EXCEPT !.at = "validated"] ELSE NoTool
  /\ fs' = IF fs.record = "ready" THEN [fs EXCEPT !.record = "idle", !.bundle = "none"] ELSE fs
  /\ UNCHANGED <<mode, core, nvs, before, runs, cuts, usbExposed>>

Adopts ==
  /\ StepOf(StageTool, "validated", "adopted") /\ Keeps
  /\ fs' = [fs EXCEPT !.bundle = fs.upload, !.upload = "none"]
  /\ UNCHANGED <<core, nvs>>

Records ==
  /\ StepOf(StageTool, "adopted", "staged") /\ Keeps
  /\ fs' = [fs EXCEPT !.record = "ready"]
  /\ UNCHANGED <<core, nvs>>

\* exit_raw_repl(): the device stays at its prompt.
Exits ==
  /\ StepOf({"stage", "core"}, "staged", "done") /\ Keeps
  /\ UNCHANGED Device

\* --activate: activate_pending() in the REPL, and the restart after it.
Activates ==
  /\ StepOf({"activate"}, "staged", "activated")
  /\ fs' = AtStart(fs) /\ usbExposed' = usbExposed \cup {"early"}
  /\ UNCHANGED <<mode, core, nvs>>

-----------------------------------------------------------------------------
UsbNext ==
  \/ Boots \/ Starts \/ Confirms \/ PortalStages \/ SetsUp
  \/ PowerFails \/ Unplugs \/ Restarts
  \/ \E kind \in Reseed \cup StageTool \cup CoreTool : Opens(kind)
  \/ Overwrites \/ Verifies \/ Erases \/ Commits \/ Removes \/ Empties \/ Selects
  \/ Resets(Reseed, "selected", "first boot") \/ Reopens(Reseed, "first boot", "again")
  \/ MarksValid \/ Puts \/ Preloads \/ Resets(Reseed, "staged", "done")
  \/ Copies \/ Discards \/ Adopts \/ Records \/ Exits \/ Activates
  \/ SelectsCore
  \/ Resets(StageTool, "half", "phase")       \/ Reopens(StageTool, "phase", "resumed")
  \/ Resets(StageTool, "copied", "restarted") \/ Reopens(StageTool, "restarted", "returned")
  \/ Resets({"activate"}, "activated", "done")

UsbSpec == UsbInit /\ [][UsbNext]_usbVars

-----------------------------------------------------------------------------
UsbTypeOK ==
  /\ mode \in {"off", "starting", "running", "repl"}
  /\ core.runs \in 1 .. 2 /\ core.boots \in 1 .. 2 /\ core.trial \in {"no", "selected", "pending"}
  /\ nvs \in [config : BOOLEAN, key : {"none", "old", "new"}] /\ fs \in Files
  /\ usbExposed \subseteq UsbExposure

\* What is ready to be activated, or on trial, is whole, and of the release recorded: the
\* updater never meets what a tool left half copied.
ReadyIsWhole ==
  (fs.record # "idle" /\ tool.at # "emptying") => fs.bundle \in {"staged", "new"}

\* Wherever a tool was cut off, the device has a core that starts, and is provisioned or asks
\* for a setup password: it is never left with its prompt only.
NeverStranded ==
  /\ core.image[core.runs] # "torn"
  /\ (~nvs.config /\ tool.at # "erased") => nvs.key # "none"

\* A tool that ends well has done what it says: the reseeded device runs the new core, which
\* stays, knows nothing of before and has the application staged; a staged bundle is the
\* tool's.
Reports ==
  (tool.at = "staged" /\ tool'.at = "done") =>
    /\ tool.kind \notin CoreTool => fs.record = "ready" /\ fs.bundle = "new"
    /\ tool.kind \in CoreTool => core.image[Opposite(core.runs)] = "new"
    /\ tool.kind = "reseed" =>
         /\ core.image[core.runs] = "new" /\ core.trial = "no"
         /\ nvs = [config |-> FALSE, key |-> "new"] /\ ~fs.kept

\* A device that is set up with the new password keeps nothing of its last owner.
StartsAfresh == (~nvs.config /\ nvs'.config /\ nvs.key = "new") => ~fs.kept

UsbHolds ==
  [][UsbTypeOK' /\
     (UsbPromised' => ReadyIsWhole' /\ NeverStranded' /\ Reports /\ StartsAfresh)]_usbVars
=============================================================================
