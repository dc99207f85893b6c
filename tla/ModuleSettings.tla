----------------------------- MODULE ModuleSettings -----------------------------
(***************************************************************************)
(* Which modules a device runs: module_settings.json, the operations of    *)
(* the portal that replace it, and the start of the application that reads *)
(* it, checks it again, reserves the hardware and sets the drivers up      *)
(* (iotmd_runtime.py, configuration_manager.py, device_modules/loader.py,  *)
(* resources.py and validation.py).                                        *)
(*                                                                         *)
(* The operations run without an await, so they do not interleave; but an  *)
(* import is previewed in one request and applied in a later one, power    *)
(* may be lost between two steps of a write, and what is stored is only    *)
(* used after the next restart.  A document is a plan, which is a sequence *)
(* of modules, and the calibration of one of them.                         *)
(***************************************************************************)
EXTENDS Integers, Sequences, FiniteSets

CONSTANTS
  Plan,            \* the module lists a user may store
  Calibrated,      \* the module that can be calibrated
  Expiry, Period,  \* ten minutes, and the period of ticks_ms
  MaxSaves         \* a bound of the model

Claim  == [key : STRING, name : STRING, shared : BOOLEAN, signature : Nat]
Device == [id : STRING, packaged : BOOLEAN, listed : BOOLEAN, entities : BOOLEAN,
           claims : Seq(Claim), touches : SUBSET STRING, asks : SUBSET STRING]

ASSUME PlanAssumption ==
  /\ << >> \in Plan
  /\ \A p \in Plan : \A i \in DOMAIN p : p[i] \in Device
ASSUME ModBounds ==
  Expiry \in Nat /\ Period \in Nat /\ Expiry < (Period - 1) \div 2 /\ MaxSaves \in Nat

VARIABLES
  document, earlier, \* module_settings.json and its .previous
  pending,        \* pending_configuration_import, pending_secure_configuration_import
  main,           \* the application is off, on, or has failed to start
  loaded,         \* the document it was started with, and the calibration in memory
  works,          \* the modules that were set up
  marked,         \* a restart is asked for
  wanted,         \* what the next start may begin with (history)
  gaps,           \* exposures that have happened (history)
  saves           \* bound

modVars == <<document, earlier, pending, main, loaded, works, marked, wanted, gaps, saves>>

Doc(p, c)  == [plan |-> p, calibration |-> c]
Missing    == Doc(<< >>, -1)
NoModules  == Doc(<< >>, 0)
IsFile(d)  == d.calibration >= 0
Current(d) == IF IsFile(d) THEN d ELSE NoModules
NoPreview  == [doc |-> Missing, over |-> Missing, age |-> 0, late |-> FALSE]
Kinds      == {"import", "secure"}

ModInit ==
  /\ document = NoModules /\ earlier = Missing
  /\ pending = [k \in Kinds |-> NoPreview]
  /\ main = "off" /\ loaded = NoModules /\ works = {} /\ marked = FALSE
  /\ wanted = NoModules /\ gaps = {} /\ saves = 0

-----------------------------------------------------------------------------
(* Hardware.                                                               *)

\* ResourceManager.reserve refuses a resource that both do not share alike.
\* Mutant: it is enough that one of them shares it.
ClashUnlessEither(x, y) == x.key = y.key /\ ~(x.shared \/ y.shared)

Clash(x, y) == x.key = y.key /\ ~(x.shared /\ y.shared /\ x.signature = y.signature)

\* A logical name belongs to a module, and maps to one resource.
Ambiguous(x, y) == x.name = y.name /\ x.key # y.key

Claims(p) == UNION {{<<i, j>> : j \in DOMAIN p[i].claims} : i \in DOMAIN p}
ClaimAt(p, c) == p[c[1]].claims[c[2]]

\* validate_resources finds no error.
Reservable(p) ==
  \A a, b \in Claims(p) :
    a # b => /\ ~Clash(ClaimAt(p, a), ClaimAt(p, b))
             /\ a[1] = b[1] => ~Ambiguous(ClaimAt(p, a), ClaimAt(p, b))

Packaged(p) == \A i \in DOMAIN p : p[i].packaged
Distinct(p) == \A i, j \in DOMAIN p : i # j => p[i].id # p[j].id

\* device_types_for_devices and validate_device_config.
Acceptable(p) == Packaged(p) /\ Distinct(p) /\ Reservable(p)

\* _validate_device lets a light without entities pass; the start reads them after it has
\* set the light up, outside of any try.
Complete(p) == \A i \in DOMAIN p : p[i].listed => p[i].entities

\* ResourceScope.acquire knows the names the module's configuration declares.
Acquires(d) == d.asks \subseteq {d.claims[j].name : j \in DOMAIN d.claims}

\* setup_device: deviceValidation leaves modules out, and a driver's setup may raise.
SetUpAble(p) == {i \in DOMAIN p : p[i].listed /\ Acquires(p[i])}

\* Any of them may fail; one failure at a start is enough for the model.
SetsUp(p) == \E failing \in {{}} \cup {{i} : i \in DOMAIN p} : works' = SetUpAble(p) \ failing

\* Drivers that fall back to pins their configuration does not mention.
Undeclared(p) ==
  \E i \in DOMAIN p : ~(p[i].touches \subseteq {p[i].claims[j].key : j \in DOMAIN p[i].claims})

-----------------------------------------------------------------------------
(* The application starts.                                                 *)

\* load_json_with_backup: the previous generation is used when it can be copied.
Loads ==
  \/ UNCHANGED document /\ loaded' = Current(document)
  \/ /\ ~IsFile(document) /\ IsFile(earlier)
     /\ document' = earlier /\ loaded' = earlier

\* The module level of iotmd_runtime: an error ends the start.
Starts ==
  /\ main = "off"
  /\ Loads
  /\ main' = IF Acceptable(loaded'.plan) /\ Complete(loaded'.plan) THEN "on" ELSE "failed"
  /\ IF main' = "on" THEN SetsUp(loaded'.plan) ELSE works' = {}
  /\ wanted' = Current(document')
  /\ gaps' = gaps \cup (IF Undeclared(loaded'.plan) THEN {"undeclared"} ELSE {})
                  \cup (IF IsFile(earlier) /\ ~IsFile(document') THEN {"unreadable"} ELSE {})
  /\ UNCHANGED <<earlier, pending, marked, saves>>

\* A restart, which the supervisor makes of a failed start, or a power loss.
StopsApplication ==
  /\ main' = "off" /\ works' = {} /\ marked' = FALSE
  /\ pending' = [k \in Kinds |-> NoPreview]

Restarts ==
  /\ main # "off" /\ StopsApplication
  /\ UNCHANGED <<document, earlier, loaded, wanted, gaps, saves>>

-----------------------------------------------------------------------------
(* Storing.                                                                *)

Happened(gap, happens) == gaps' = gaps \cup (IF happens THEN {gap} ELSE {})

\* Previews that stay when the document they were shown against is replaced.
Outdated(applied) == {k \in Kinds \ applied : pending[k] # NoPreview}

\* commit_file_with_backup
Commits(doc) == document' = doc /\ earlier' = document

\* What is exposed by a document that was validated and stored.
Stored(doc, applied) ==
  gaps' = gaps \cup (IF Outdated(applied) # {} THEN {"stale"} ELSE {})
               \cup (IF Complete(doc.plan) THEN {} ELSE {"incomplete"})

\* Its last step fails and is undone; the request is answered with the error, ...
SaveFails == earlier' = Missing /\ UNCHANGED document

Refuses == SaveFails /\ UNCHANGED <<pending, main, loaded, works, marked, wanted, gaps>>

\* ... or the power is lost after its first or second step.
CutShort ==
  /\ \/ SaveFails
     \/ document' = Missing /\ earlier' = document
  /\ StopsApplication
  /\ UNCHANGED <<loaded, wanted, gaps>>

\* mark_restart_required
Marked == marked' = TRUE

\* update_module_settings
SavesModules(p) ==
  /\ main = "on" /\ saves < MaxSaves
  /\ Acceptable(p)
  /\ saves' = saves + 1
  /\ LET doc == Doc(p, Current(document).calibration) IN
       \/ /\ Commits(doc) /\ Marked /\ wanted' = doc
          /\ Stored(doc, {})
          /\ UNCHANGED <<pending, main, loaded, works>>
       \/ Refuses
       \/ CutShort

\* The calibrate action: memory first, then the stored document, which may have
\* been replaced since the start; memory goes back when that fails.
Calibrates ==
  /\ main = "on" /\ saves < MaxSaves
  /\ \E i \in works : loaded.plan[i].id = Calibrated
  /\ saves' = saves + 1
  /\ LET doc == Doc(document.plan, saves + 1) IN
       \/ /\ IsFile(document) /\ \E i \in DOMAIN document.plan : document.plan[i].id = Calibrated
          /\ Commits(doc)
          /\ loaded' = Doc(loaded.plan, saves + 1) /\ wanted' = doc
          /\ Stored(doc, {})
          /\ UNCHANGED <<pending, main, works, marked>>
       \/ Refuses
       \/ CutShort

\* Mutant: what runs is taken for what is stored.
ShownAgainstMemory == loaded

ShownAgainst == Current(document)

\* The document is found valid and shown; it replaces the one shown before.
Shows(k, p) ==
  /\ Acceptable(p)
  /\ pending' = [pending EXCEPT ![k] =
                   [doc |-> Doc(p, 0), over |-> ShownAgainst, age |-> 0, late |-> FALSE]]
  /\ UNCHANGED <<document, earlier, main, loaded, works, marked, wanted, gaps, saves>>

PreviewsImport(p) == main = "on" /\ Shows("import", p)

PreviewsBackup(p) == main = "on" /\ Shows("secure", p)

\* ticks_diff
Elapsed(age) == ((age + Period \div 2) % Period) - Period \div 2

Time ==
  /\ \E k \in Kinds : pending[k] # NoPreview
  /\ pending' = [k \in Kinds |->
       IF pending[k] = NoPreview THEN NoPreview
       ELSE [pending[k] EXCEPT !.age = (@ + 1) % Period, !.late = @ \/ pending[k].age >= Expiry]]
  /\ Happened("wrapped", \E k \in Kinds : Elapsed(pending'[k].age) < 0)
  /\ UNCHANGED <<document, earlier, main, loaded, works, marked, wanted, saves>>

Valid(k) == pending[k] # NoPreview /\ Elapsed(pending[k].age) <= Expiry

\* The modules are replaced, the preview is used up and a restart asked for.
Restores(k) ==
  /\ Commits(pending[k].doc) /\ Marked /\ wanted' = pending[k].doc
  /\ pending' = [pending EXCEPT ![k] = NoPreview]
  /\ Stored(pending[k].doc, {k})
  /\ UNCHANGED <<main, loaded, works>>

AppliesImport ==
  /\ main = "on" /\ saves < MaxSaves /\ Valid("import")
  /\ saves' = saves + 1
  /\ Restores("import") \/ Refuses \/ CutShort

\* A backup goes on to certificates and credentials; when they fail, the modules stay
\* replaced, the preview stays and no restart is asked for.
AppliesBackup ==
  /\ main = "on" /\ saves < MaxSaves /\ Valid("secure")
  /\ saves' = saves + 1
  /\ \/ Restores("secure") \/ Refuses \/ CutShort
     \/ /\ Commits(pending["secure"].doc)
        /\ gaps' = gaps \cup {"halfway"}
        /\ UNCHANGED <<pending, main, loaded, works, marked, wanted>>

-----------------------------------------------------------------------------
ModNext ==
  \/ Starts \/ Restarts \/ Calibrates \/ Time
  \/ \E p \in Plan : SavesModules(p) \/ PreviewsImport(p) \/ PreviewsBackup(p)
  \/ AppliesImport \/ AppliesBackup

ModSpec == ModInit /\ [][ModNext]_modVars

\* A bound: nothing is explored after a second exposure.
FewGaps == Cardinality(gaps) <= 1

\* The documents there are, one that is missing included
Docs == {Doc(p, c) : p \in Plan, c \in -1 .. MaxSaves}

\* The variables keep their types.
ModTypeOK ==
  /\ {document, earlier, loaded, wanted} \subseteq Docs
  /\ main \in {"off", "on", "failed"} /\ marked \in BOOLEAN
  /\ works \subseteq DOMAIN loaded.plan
  /\ gaps \subseteq {"undeclared", "incomplete", "stale", "wrapped", "halfway", "unreadable"}
  /\ saves \in 0 .. MaxSaves

\* docs/modules/README.md:3-8: "Every entry needs [...] an `entities` object. The
\* configuration is validated against module_settings.schema.json before it is committed."
\* So what the portal accepts and stores, the next start accepts: no document it has let
\* through keeps the application from starting.
SavedStarts == main # "failed"

\* None but one that has a module without its entities (or came with half a backup).
CompleteStarts == gaps \cap {"incomplete", "halfway"} = {} => SavedStarts

\* What runs is what is stored, calibration included, unless a restart is asked for;
\* a restore that failed halfway and a copy that could not be made are the exceptions.
StoredIsRunning ==
  (main = "on" /\ ~marked /\ gaps \cap {"halfway", "unreadable"} = {}) => loaded = Current(document)

\* No two modules that work drive the same pin, converter or bus, unless both have
\* declared it shared; a driver's undeclared default pins are known to nobody.
OwnersAreExclusive ==
  LET At(i) == loaded.plan[i]
      Shares(i, key) == \E j \in DOMAIN At(i).claims :
                          At(i).claims[j].key = key /\ At(i).claims[j].shared
  IN  "undeclared" \in gaps \/
      \A i, j \in works : i # j =>
        \A key \in At(i).touches \cap At(j).touches : Shares(i, key) /\ Shares(j, key)

\* A device runs the modules it was given, each with its own hardware.
RunsAsConfigured == ModTypeOK /\ CompleteStarts /\ StoredIsRunning /\ OwnersAreExclusive

\* A start begins with the document stored last, whenever the power was lost, and an
\* import replaces the document it was shown against, within ten minutes.
AppliesWhatIsAsked ==
  [][/\ (main = "off" /\ main' # "off" /\ gaps' \cap {"halfway", "unreadable"} = {}) =>
          loaded' = wanted
     /\ \A k \in Kinds :
          (pending[k] # NoPreview /\ pending'[k] = NoPreview /\ main' = "on") =>
             /\ gaps \cap {"stale", "halfway"} # {} \/ pending[k].over = Current(document)
             /\ "wrapped" \in gaps \/ ~pending[k].late]_modVars
=============================================================================
