------------------------------ MODULE AppUpdate ------------------------------
(***************************************************************************)
(* The application updater (app_update.py) as the boot supervisor, the     *)
(* portal and the recovery console drive it.                               *)
(*                                                                         *)
(* The application lives in two slots; module_settings.json is shared by   *)
(* both and is replaced in place, behind a backup.  A record in flash, the *)
(* transaction, says how far an update has come.  Every handler here runs  *)
(* without an await between its flash operations, so the only thing that   *)
(* can come between two of its steps is a loss of power: pc and running    *)
(* are in RAM, all the other variables are files.                          *)
(*                                                                         *)
(* Generation 1 is the application in the root directory, the higher ones  *)
(* are signed releases, numbered by their release sequence.                *)
(***************************************************************************)
EXTENDS Naturals, FiniteSets

CONSTANTS
  MaxRelease,   \* the last signed release; a bound of the model
  Excused       \* the exposures after which AtomicRelease promises nothing

ASSUME MaxReleaseAssumption == MaxRelease \in Nat /\ MaxRelease >= 1

VARIABLES
  txn,          \* .app-update-state.json
  bundle,       \* .app-update.bundle: the release it holds, or 0
  slot,         \* .app-slots/<s>: the release and the files that are there
  chosen,       \* "active" of .app-slot-state.json
  seq,          \* "sequences" of .app-slot-state.json
  relSeq,       \* .app-release-sequence
  shared,       \* module_settings.json: its generation, 0 when absent
  backup,       \* .app-update-backup/module_settings.json, 0 when absent
  pc,           \* the step the running code has reached
  running,      \* where the running application was loaded from
  exposed       \* history: which of the uncovered events have happened

files == <<txn, bundle, slot, chosen, seq, relSeq, shared, backup>>
vars  == <<txn, bundle, slot, chosen, seq, relSeq, shared, backup, pc, running,
           exposed>>

Slot       == {"a", "b"}
NoSlot     == "none"
Part       == {"entry", "rest", "seal"}
Root       == "root"
Off        == "off"
Generation == 0 .. MaxRelease
Release    == 2 .. MaxRelease
Status     == {"idle", "ready", "activating", "trial", "committing"}
Exposure   == {"torn", "overwritten", "mismatched", "unconfirmed slot",
               "commit undone"}

\* "applied" of the record: whether module_settings.json has been given up to
\* the update, and whether there was one to put back.
Transaction ==
  [status : Status, release : Generation, hasApp : BOOLEAN,
   settings : BOOLEAN, applied : {"no", "replaced", "created"},
   target : Slot \cup {NoSlot}, previous : Slot \cup {NoSlot}]

Idle == [status |-> "idle", release |-> 0, hasApp |-> FALSE,
         settings |-> FALSE, applied |-> "no",
         target |-> NoSlot, previous |-> NoSlot]

Empty == [release |-> 0, parts |-> {}]

Step == {"boot", "portal", "start", "up", "reclaim", "install", "noteApplied",
         "writeSettings", "rbSettings", "rbSelect", "rbTree", "rbBackup",
         "rbBundle", "rbState", "coSlots", "coSeq", "coBackup", "coBundle",
         "coState", "stage", "drop", "manual", "strip"}

TypeOK ==
  /\ txn \in Transaction
  /\ bundle \in Generation
  /\ slot \in [Slot -> [release : Generation, parts : SUBSET Part]]
  /\ chosen \in Slot \cup {NoSlot}
  /\ seq \in [Slot -> Generation]
  /\ relSeq \in Generation
  /\ shared \in Generation
  /\ backup \in Generation
  /\ pc \in Step
  /\ running \in Slot \cup {Root, Off}
  /\ exposed \in SUBSET Exposure

-----------------------------------------------------------------------------
(* What the code computes from the files.                                  *)

Other(s) == IF s = "a" THEN "b" ELSE "a"

Whole(s) == {"entry", "rest"} \subseteq slot[s].parts

\* A slot without the integrity list passes: it may predate those lists.
Intact(s) == "seal" \in slot[s].parts => Whole(s)

ActiveSlot ==
  IF chosen \in Slot /\ "entry" \in slot[chosen].parts THEN chosen ELSE NoSlot

\* Only the presence of the entry file is looked at.
PreviousSlot ==
  IF "entry" \in slot[Other(chosen)].parts THEN Other(chosen) ELSE NoSlot

Installed ==
  IF chosen \in Slot /\ seq[chosen] # 0 THEN seq[chosen] ELSE relSeq

ValidBundle ==
  bundle # 0 /\ (Installed # 0 => bundle > Installed)

\* The bundle has been replaced and its record has not.
Mismatch == txn.status = "ready" /\ bundle # txn.release

OnTrial == txn.status \in {"trial", "committing"}

ApplicationRoot ==
  IF OnTrial /\ txn.target \in Slot /\ "entry" \in slot[txn.target].parts
             /\ Intact(txn.target)
  THEN txn.target
  ELSE IF ActiveSlot # NoSlot THEN ActiveSlot ELSE Root

Init ==
  /\ txn = Idle
  /\ bundle = 0
  /\ slot = [s \in Slot |-> Empty]
  /\ chosen = NoSlot
  /\ seq = [s \in Slot |-> 0]
  /\ relSeq = 0
  /\ shared \in {0, 1}
  /\ backup = 0
  /\ pc = "boot"
  /\ running = Off
  /\ exposed = {}

-----------------------------------------------------------------------------
(* Steps that several handlers share.                                      *)

Goto(p) == pc' = p

\* A request ends where it was served: by the application or the console.
Resume == Goto(IF running = Off THEN "portal" ELSE "up")

\* _remove_tree unlinks the files one at a time, in the directory's order.
Without(s, p) ==
  IF slot[s].parts = {p} THEN Empty
  ELSE [release |-> slot[s].release, parts |-> slot[s].parts \ {p}]

RemovePart(s) ==
  \E p \in slot[s].parts : slot' = [slot EXCEPT ![s] = Without(s, p)]

-----------------------------------------------------------------------------
(* Staging: receive_bundle, or adopt_bundle for an upload already in flash.*)

\* No status of the transaction refuses an upload.  A running application has
\* decided about its own trial before the portal can finish one.
Stage ==
  /\ pc \in {"up", "portal"}
  /\ pc = "up" => txn.status # "trial"
  /\ \E r \in Release :
       /\ Installed # 0 => r > Installed
       /\ bundle' = r
  /\ Goto("stage")
  /\ UNCHANGED <<txn, slot, chosen, seq, relSeq, shared, backup, running,
                 exposed>>

StageReady ==
  /\ pc = "stage"
  /\ \E app \in BOOLEAN :
       txn' = [Idle EXCEPT !.status = "ready", !.release = bundle,
                           !.hasApp = app]
  /\ exposed' = IF txn.status \notin {"idle", "ready"}
                THEN exposed \cup {"overwritten"} ELSE exposed
  /\ Resume
  /\ UNCHANGED <<bundle, slot, chosen, seq, relSeq, shared, backup, running>>

\* The record does not fit: an upload that was streamed leaves its bundle
\* behind, one that was adopted removes bundle and record.
StageFails ==
  /\ pc = "stage"
  /\ \/ /\ exposed' = IF Mismatch THEN exposed \cup {"mismatched"} ELSE exposed
        /\ UNCHANGED <<txn, bundle>>
     \/ /\ txn.status \in {"idle", "ready"}
        /\ bundle' = 0
        /\ txn' = Idle
        /\ UNCHANGED exposed
  /\ Resume
  /\ UNCHANGED <<slot, chosen, seq, relSeq, shared, backup, running>>

\* The administrator's choice of the optional files of the bundle.  From the
\* console it is always "none", and both callers then reset the device.
Configure ==
  /\ pc \in {"up", "portal"}
  /\ txn.status = "ready"
  /\ ValidBundle
  /\ \E selected \in IF pc = "up" THEN BOOLEAN ELSE {FALSE} :
       txn' = [txn EXCEPT !.settings = selected]
  /\ UNCHANGED <<bundle, slot, chosen, seq, relSeq, shared, backup, pc,
                 running, exposed>>

Discard ==
  /\ pc \in {"up", "portal"}
  /\ txn.status = "ready"
  /\ bundle' = 0
  /\ Goto("drop")
  /\ UNCHANGED <<txn, slot, chosen, seq, relSeq, shared, backup, running,
                 exposed>>

DropState ==
  /\ pc = "drop"
  /\ txn' = Idle
  /\ Resume
  /\ UNCHANGED <<bundle, slot, chosen, seq, relSeq, shared, backup, running,
                 exposed>>

-----------------------------------------------------------------------------
(* Boot: activate_pending, or the console when too many boots were         *)
(* unhealthy (recovery_boot counts them; here either may happen).          *)

BootConsole ==
  /\ pc = "boot"
  /\ Goto("portal")
  /\ UNCHANGED <<files, running, exposed>>

BootActivate ==
  /\ pc = "boot"
  /\ \/ txn.status = "idle" /\ Goto("start")
     \/ txn.status \in {"trial", "activating"} /\ Goto("rbSettings")
     \/ txn.status = "committing" /\ Goto("coSlots")
     \/ txn.status = "ready" /\ Goto(IF ValidBundle THEN "reclaim"
                                                    ELSE "rbSettings")
  /\ UNCHANGED <<files, running, exposed>>

\* Mutant: the whole directory of slots is cleared.
ReclaimAll ==
  /\ pc = "reclaim"
  /\ txn.hasApp
  /\ \E s \in Slot : RemovePart(s)
  /\ UNCHANGED <<txn, bundle, chosen, seq, relSeq, shared, backup, pc, running,
                 exposed>>

\* The inactive slot is emptied before the free space is checked.
Reclaim ==
  /\ pc = "reclaim"
  /\ txn.hasApp
  /\ RemovePart(Other(ActiveSlot))
  /\ UNCHANGED <<txn, bundle, chosen, seq, relSeq, shared, backup, pc, running,
                 exposed>>

BeginActivation ==
  /\ pc = "reclaim"
  /\ txn.hasApp => slot[Other(ActiveSlot)] = Empty
  /\ txn' = [txn EXCEPT !.status = "activating", !.applied = "no",
                        !.previous = ActiveSlot,
                        !.target = IF txn.hasApp THEN Other(ActiveSlot)
                                                 ELSE NoSlot]
  /\ Goto("install")
  /\ UNCHANGED <<bundle, slot, chosen, seq, relSeq, shared, backup, running,
                 exposed>>

\* Mutant: the new settings are in place before the record says so.
BackUpAndWriteSettings ==
  /\ pc = "install"
  /\ txn.settings /\ txn.applied = "no"
  /\ backup' = IF shared # 0 THEN shared ELSE backup
  /\ shared' = bundle
  /\ Goto("noteApplied")
  /\ UNCHANGED <<txn, bundle, slot, chosen, seq, relSeq, running, exposed>>

BackUpSettings ==
  /\ pc = "install"
  /\ txn.settings /\ txn.applied = "no"
  /\ backup' = IF shared # 0 THEN shared ELSE backup
  /\ Goto("noteApplied")
  /\ UNCHANGED <<txn, bundle, slot, chosen, seq, relSeq, shared, running,
                 exposed>>

NoteApplied ==
  /\ pc = "noteApplied"
  /\ txn' = [txn EXCEPT !.applied =
               IF shared # 0 THEN "replaced" ELSE "created"]
  /\ Goto("writeSettings")
  /\ UNCHANGED <<bundle, slot, chosen, seq, relSeq, shared, backup, running,
                 exposed>>

WriteSettings ==
  /\ pc = "writeSettings"
  /\ shared' = bundle
  /\ Goto("install")
  /\ UNCHANGED <<txn, bundle, slot, chosen, seq, relSeq, backup, running,
                 exposed>>

\* The application's files, in the order of the manifest (any order).
InstallPart ==
  /\ pc = "install"
  /\ txn.target \in Slot
  /\ \E p \in {"entry", "rest"} \ slot[txn.target].parts :
       slot' = [slot EXCEPT ![txn.target] =
                  [release |-> bundle, parts |-> @.parts \cup {p}]]
  /\ UNCHANGED <<txn, bundle, chosen, seq, relSeq, shared, backup, pc, running,
                 exposed>>

SettingsDone == txn.settings => txn.applied # "no"

SealSlot ==
  /\ pc = "install"
  /\ SettingsDone
  /\ txn.target \in Slot /\ Whole(txn.target)
  /\ "seal" \notin slot[txn.target].parts
  /\ slot' = [slot EXCEPT ![txn.target].parts = @ \cup {"seal"}]
  /\ UNCHANGED <<txn, bundle, chosen, seq, relSeq, shared, backup, pc, running,
                 exposed>>

\* Mutant: the trial begins as soon as the entry file is there.
BeginTrialEarly ==
  /\ pc = "install"
  /\ SettingsDone
  /\ txn.target \in Slot => "entry" \in slot[txn.target].parts
  /\ txn' = [txn EXCEPT !.status = "trial"]
  /\ Goto("start")
  /\ UNCHANGED <<bundle, slot, chosen, seq, relSeq, shared, backup, running,
                 exposed>>

BeginTrial ==
  /\ pc = "install"
  /\ SettingsDone
  /\ txn.target \in Slot => slot[txn.target].parts = Part
  /\ txn' = [txn EXCEPT !.status = "trial"]
  /\ Goto("start")
  /\ UNCHANGED <<bundle, slot, chosen, seq, relSeq, shared, backup, running,
                 exposed>>

\* Any exception of the activation: no space, a short or a damaged bundle.
ActivationFails ==
  /\ pc \in {"reclaim", "install", "noteApplied", "writeSettings"}
  /\ Goto("rbSettings")
  /\ UNCHANGED <<files, running, exposed>>

-----------------------------------------------------------------------------
(* rollback_update                                                         *)

RbSettings ==
  /\ pc = "rbSettings"
  /\ shared' = CASE txn.applied = "replaced" /\ backup # 0 -> backup
                 [] txn.applied = "created" -> 0
                 [] OTHER -> shared
  /\ Goto("rbSelect")
  /\ UNCHANGED <<txn, bundle, slot, chosen, seq, relSeq, backup, running,
                 exposed>>

RbSelect ==
  /\ pc = "rbSelect"
  /\ chosen' = IF txn.target = NoSlot \/ chosen # txn.target THEN chosen
               ELSE IF txn.previous \in Slot
                       /\ "entry" \in slot[txn.previous].parts
                    THEN txn.previous ELSE NoSlot
  /\ Goto("rbTree")
  /\ UNCHANGED <<txn, bundle, slot, seq, relSeq, shared, backup, running,
                 exposed>>

RbTree ==
  /\ pc = "rbTree"
  /\ IF txn.target \in Slot /\ slot[txn.target].parts # {}
     THEN RemovePart(txn.target) /\ UNCHANGED pc
     ELSE Goto("rbBackup") /\ UNCHANGED slot
  /\ UNCHANGED <<txn, bundle, chosen, seq, relSeq, shared, backup, running,
                 exposed>>

RbBackup ==
  /\ pc = "rbBackup"
  /\ backup' = 0
  /\ Goto("rbBundle")
  /\ UNCHANGED <<txn, bundle, slot, chosen, seq, relSeq, shared, running,
                 exposed>>

RbBundle ==
  /\ pc = "rbBundle"
  /\ bundle' = 0
  /\ Goto("rbState")
  /\ UNCHANGED <<txn, slot, chosen, seq, relSeq, shared, backup, running,
                 exposed>>

\* The supervisor then starts the application, or resets and does.
RbState ==
  /\ pc = "rbState"
  /\ txn' = Idle
  /\ Goto("start")
  /\ UNCHANGED <<bundle, slot, chosen, seq, relSeq, shared, backup, running,
                 exposed>>

-----------------------------------------------------------------------------
(* confirm_update and _finish_commit                                       *)

Confirm ==
  /\ pc = "up"
  /\ txn.status = "trial"
  /\ txn.target \in Slot => Intact(txn.target)
  /\ txn' = [txn EXCEPT !.status = "committing"]
  /\ Goto("coSlots")
  /\ UNCHANGED <<bundle, slot, chosen, seq, relSeq, shared, backup, running,
                 exposed>>

CommitSlots ==
  /\ pc = "coSlots"
  /\ txn.hasApp => "entry" \in slot[txn.target].parts
  /\ IF txn.hasApp
     THEN /\ chosen' = txn.target
          /\ seq' = [seq EXCEPT ![txn.target] = txn.release]
     ELSE UNCHANGED <<chosen, seq>>
  /\ Goto("coSeq")
  /\ UNCHANGED <<txn, bundle, slot, relSeq, shared, backup, running, exposed>>

CommitSequence ==
  /\ pc = "coSeq"
  /\ relSeq' = IF txn.hasApp THEN txn.release ELSE relSeq
  /\ Goto("coBackup")
  /\ UNCHANGED <<txn, bundle, slot, chosen, seq, shared, backup, running,
                 exposed>>

CommitBackup ==
  /\ pc = "coBackup"
  /\ backup' = 0
  /\ Goto("coBundle")
  /\ UNCHANGED <<txn, bundle, slot, chosen, seq, relSeq, shared, running,
                 exposed>>

CommitBundle ==
  /\ pc = "coBundle"
  /\ bundle' = 0
  /\ Goto("coState")
  /\ UNCHANGED <<txn, slot, chosen, seq, relSeq, shared, backup, running,
                 exposed>>

CommitState ==
  /\ pc = "coState"
  /\ txn' = Idle
  /\ Goto(IF running = Off THEN "start" ELSE "up")
  /\ UNCHANGED <<bundle, slot, chosen, seq, relSeq, shared, backup, running,
                 exposed>>

\* A write of the commit fails, or the entry file is gone: the exception ends
\* the application, and the supervisor rolls the half-confirmed update back.
CommitFails ==
  /\ pc \in {"coSlots", "coSeq"}
  /\ running' = Off
  /\ exposed' = exposed \cup {"commit undone"}
  /\ Goto("rbSettings")
  /\ UNCHANGED files

-----------------------------------------------------------------------------
(* The running application, and the requests of an administrator.          *)

StartApplication ==
  /\ pc = "start"
  /\ running' = ApplicationRoot
  /\ Goto("up")
  /\ UNCHANGED <<files, exposed>>

\* An exception or a return of the application, before it is confirmed or at
\* any later time.
ApplicationEnds ==
  /\ pc = "up"
  /\ running' = Off
  /\ Goto(IF txn.status \in {"activating", "trial", "committing"}
          THEN "rbSettings" ELSE "boot")
  /\ UNCHANGED <<files, exposed>>

ConsoleRollback ==
  /\ pc = "portal"
  /\ txn.status \in {"activating", "trial", "committing"}
  /\ exposed' = IF txn.status = "committing"
                THEN exposed \cup {"commit undone"} ELSE exposed
  /\ Goto("rbSettings")
  /\ UNCHANGED <<files, running>>

ManualRollback ==
  /\ pc \in {"up", "portal"}
  /\ txn.status = "idle"
  /\ ActiveSlot # NoSlot /\ PreviousSlot # NoSlot
  /\ chosen' = PreviousSlot
  /\ exposed' = IF Whole(PreviousSlot)
                   /\ seq[PreviousSlot] = slot[PreviousSlot].release
                THEN exposed ELSE exposed \cup {"unconfirmed slot"}
  /\ Goto("manual")
  /\ UNCHANGED <<txn, bundle, slot, seq, relSeq, shared, backup, running>>

ManualSequence ==
  /\ pc = "manual"
  /\ relSeq' = IF seq[chosen] # 0 THEN seq[chosen] ELSE relSeq
  /\ Resume
  /\ UNCHANGED <<txn, bundle, slot, chosen, seq, shared, backup, running,
                 exposed>>

\* reclaim_inactive_slot: a large upload takes the inactive slot's space.
BeginStrip ==
  /\ pc \in {"up", "portal"}
  /\ txn.status = "idle"
  /\ ActiveSlot # NoSlot
  /\ Goto("strip")
  /\ UNCHANGED <<files, running, exposed>>

Strip ==
  /\ pc = "strip"
  /\ IF slot[Other(ActiveSlot)].parts # {}
     THEN RemovePart(Other(ActiveSlot)) /\ UNCHANGED pc
     ELSE Resume /\ UNCHANGED slot
  /\ UNCHANGED <<txn, bundle, chosen, seq, relSeq, shared, backup, running,
                 exposed>>

-----------------------------------------------------------------------------
(* Loss of power, and every reset, between two flash operations.           *)

PowerLoss ==
  /\ pc' = "boot"
  /\ running' = Off
  /\ exposed' = IF pc = "stage" /\ Mismatch
                THEN exposed \cup {"mismatched"} ELSE exposed
  /\ UNCHANGED files

(***************************************************************************)
(* _replace_file removes the target before it renames the new file over    *)
(* it.  Power may fail in between, and the boot's cleanup then deletes the *)
(* new file as an interrupted leftover: the file is lost in both versions. *)
(***************************************************************************)

TearTransaction ==
  /\ \/ pc \in {"reclaim", "noteApplied", "install", "stage"}
     \/ pc = "up" /\ txn.status \in {"ready", "trial"}
     \/ pc = "portal" /\ txn.status = "ready"
  /\ txn # Idle
  /\ txn' = Idle
  /\ exposed' = IF txn.status = "ready" THEN exposed
                ELSE exposed \cup {"torn"}
  /\ UNCHANGED <<bundle, slot, chosen, seq, relSeq, shared, backup>>

TearSlots ==
  /\ \/ pc = "coSlots" /\ txn.hasApp
     \/ pc = "rbSelect" /\ txn.target # NoSlot /\ chosen = txn.target
     \/ pc \in {"up", "portal"} /\ txn.status = "idle"
        /\ ActiveSlot # NoSlot /\ PreviousSlot # NoSlot
  /\ chosen' = NoSlot
  /\ seq' = [s \in Slot |-> 0]
  /\ exposed' = IF pc = "coSlots" THEN exposed ELSE exposed \cup {"torn"}
  /\ UNCHANGED <<txn, bundle, slot, relSeq, shared, backup>>

TearSettings ==
  /\ \/ pc = "writeSettings"
     \/ pc = "rbSettings" /\ txn.applied = "replaced" /\ backup # 0
  /\ shared' = 0
  /\ UNCHANGED <<txn, bundle, slot, chosen, seq, relSeq, backup, exposed>>

TearOthers ==
  /\ \/ pc = "coSeq" /\ txn.hasApp /\ relSeq' = 0 /\ UNCHANGED bundle
     \/ pc = "manual" /\ seq[chosen] # 0 /\ relSeq' = 0 /\ UNCHANGED bundle
     \/ pc \in {"up", "portal"} /\ bundle # 0
        /\ bundle' = 0 /\ UNCHANGED relSeq
  /\ UNCHANGED <<txn, slot, chosen, seq, shared, backup, exposed>>

PowerLossInReplace ==
  /\ TearTransaction \/ TearSlots \/ TearSettings \/ TearOthers
  /\ pc' = "boot"
  /\ running' = Off

-----------------------------------------------------------------------------
Staging    == Stage \/ StageReady \/ StageFails \/ Configure \/ Discard \/ DropState
Activation == BootConsole \/ BootActivate \/ Reclaim \/ BeginActivation
              \/ BackUpSettings \/ NoteApplied \/ WriteSettings \/ InstallPart
              \/ SealSlot \/ BeginTrial \/ ActivationFails
Rollback   == RbSettings \/ RbSelect \/ RbTree \/ RbBackup \/ RbBundle
              \/ RbState
Commit     == Confirm \/ CommitSlots \/ CommitSequence \/ CommitBackup
              \/ CommitBundle \/ CommitState \/ CommitFails
Operation  == StartApplication \/ ApplicationEnds \/ ConsoleRollback
              \/ ManualRollback \/ ManualSequence \/ BeginStrip \/ Strip

Next == Staging \/ Activation \/ Rollback \/ Commit \/ Operation
        \/ PowerLoss \/ PowerLossInReplace

Spec == Init /\ [][Next]_vars

-----------------------------------------------------------------------------
(* Correctness.                                                            *)

\* What the device has installed, read off the files alone: what a boot that
\* met no further trouble would end up with.
InstalledApp ==
  IF txn.status = "committing" /\ txn.hasApp THEN slot[txn.target].release
  ELSE IF chosen \in Slot THEN slot[chosen].release ELSE 1

InstalledSettings ==
  IF txn.status \notin {"activating", "trial"} THEN shared
  ELSE CASE txn.applied = "replaced" /\ backup # 0 -> backup
         [] txn.applied = "created" -> 0
         [] OTHER -> shared

\* The slot a rollback by hand would select, while it holds a whole release
\* that was once confirmed.
KeptApp ==
  LET current == IF txn.status = "committing" /\ txn.hasApp THEN txn.target
                 ELSE chosen
      other   == Other(current)
  IN IF /\ current \in Slot
        /\ Whole(other) /\ seq[other] = slot[other].release
        /\ ~(txn.status \in {"activating", "trial"} /\ txn.target = other)
     THEN slot[other].release ELSE 0

OnTrialNow ==
  IF txn.status = "trial" /\ pc \in {"start", "up"}
  THEN [app |-> IF txn.hasApp THEN slot[txn.target].release ELSE 0,
        settings |-> IF txn.applied # "no" THEN shared ELSE 0]
  ELSE [app |-> 0, settings |-> 0]

Atomic == INSTANCE AtomicRelease WITH
  app <- InstalledApp, settings <- InstalledSettings, kept <- KeptApp,
  candidate <- OnTrialNow, excused <- exposed \cap Excused # {}

\* Whatever the update is interrupted by, the application and the settings it
\* brings are installed together, by confirm_update, while they run on trial,
\* or neither is: a rollback cut short by a power loss included.
UpdateIsAtomic == Atomic!AbsSpec

\* The slot record names a slot that can boot, and no transaction works on
\* that slot: what activation and rollback touch is never what would boot.
SlotPointers ==
  /\ chosen \in Slot => "entry" \in slot[chosen].parts
  /\ pc \in {"install", "noteApplied", "writeSettings", "rbTree"} =>
       (txn.target \in Slot => txn.target # chosen)
  /\ txn.target \in Slot => txn.target # txn.previous

\* No step of any handler changes a file of the slot the device would boot:
\* activation, reclaiming and rollback only ever empty the other one.
ActiveSlotUntouched ==
  [][\A s \in Slot : s = ActiveSlot => (slot'[s] = slot[s])]_vars

\* The supervisor never executes an application with files missing, unless an
\* administrator selected a half-removed slot or a failed commit was rolled
\* back (both only look at the entry file).
LoadsWholeRelease ==
  [][(running = Off /\ running' \in Slot) =>
        \/ Whole(running')
        \/ exposed \cap {"unconfirmed slot", "commit undone"} # {}]_vars

\* Anti-rollback: an update that is confirmed brings a newer release than the
\* one it replaces, by the content of the slots and not only by the recorded
\* sequence numbers.
ConfirmsOnlyNewer ==
  [][(txn.status = "trial" /\ txn'.status = "committing" /\ txn.hasApp) =>
       \/ slot[txn.target].release > InstalledApp
       \/ exposed \cap Excused # {}]_vars

\* What is run is whole, and what is confirmed is newer.
OnlyWholeAndNewer == LoadsWholeRelease /\ ConfirmsOnlyNewer

==============================================================================
