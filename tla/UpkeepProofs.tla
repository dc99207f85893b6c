----------------------------- MODULE UpkeepProofs -----------------------------
(***************************************************************************)
(* Theorems about what runs from boot to boot.  BootState: for any number  *)
(* of boots and of failed writes, with and without a backup memory.        *)
(* Enrolment: for any number of changes, of certificates that come of age  *)
(* and of restarts, with and without the device API.  ModuleSettings: for  *)
(* any set of module lists and any number of saves.                        *)
(***************************************************************************)
EXTENDS BootState, Enrolment, ModuleSettings, TLAPS

(* The boot state.                                                         *)

Stages == {"reset", "platform", "persistent-state", "update-reconcile", "filesystem",
           "configuration", "certificates", "hardware", "network", "portal",
           "essential-services", "health-check", "running", "safe-mode"}

Records ==
  [boots : -1 .. MaxBoots, generation : Int, failures : Nat, incomplete : BOOLEAN,
   healthy : BOOLEAN, stage : Stages]

\* A copy that is there has been numbered.
Copies == {r \in Records : r = None \/ (r.boots >= 0 /\ r.generation >= 0)}

Places == {"off", "reset", "platform", "persistent-state", "update-reconcile", "filesystem",
           "configuration", "certificates", "hardware", "network", "portal",
           "essential-services", "health-check", "confirmed", "running",
           "console", "setup", "failed", "returned"}

Types ==
  /\ provider \in BOOLEAN /\ settled \in BOOLEAN /\ confirmed \in BOOLEAN
  /\ at \in Places
  /\ memory \in Copies /\ memory # None
  /\ backup \in Copies /\ flash \in Copies
  /\ unhealthy \in Nat /\ faults \in 0 .. MaxFaults /\ bootExposed \subseteq BootExposure

\* Neither of the two exposures that lose a record or leave one behind.
Clean == "lost" \notin bootExposed /\ "stale" \notin bootExposed

Open(r) == IF r.incomplete THEN 1 ELSE 0

\* The newest copy is the last record.
Latest == Clean => Load = memory

\* The record and what is still open in it make up the boots that were not healthy.
Counted ==
  Clean => /\ memory.failures + Open(memory) = unhealthy + IF confirmed THEN 0 ELSE 1
           /\ confirmed => ~memory.incomplete

\* What a loss of power leaves of a record whose last durable checkpoint is in flash: it may
\* lack stages, and counts the same.
OnFlash == IF flash = None THEN Empty ELSE flash
Durable ==
  (Clean /\ settled) =>
    OnFlash.failures = memory.failures /\ OnFlash.incomplete = memory.incomplete

\* A boot that finishes was confirmed before.
Finishes == at = "confirmed" => confirmed /\ unhealthy = 0

\* The inductive invariant.
BootInv == Types /\ Latest /\ Counted /\ Durable /\ Finishes

-----------------------------------------------------------------------------
(* Records.                                                                *)

LEMMA RecordFields ==
  ASSUME NEW b, NEW g, NEW f, NEW i, NEW h, NEW s
  PROVE  /\ Record(b, g, f, i, h, s).boots = b
         /\ Record(b, g, f, i, h, s).generation = g
         /\ Record(b, g, f, i, h, s).failures = f
         /\ Record(b, g, f, i, h, s).incomplete = i
         /\ Record(b, g, f, i, h, s).healthy = h
         /\ Record(b, g, f, i, h, s).stage = s
BY DEF Record

LEMMA RecordType ==
  ASSUME NEW b \in -1 .. MaxBoots, NEW g \in Int, NEW f \in Nat, NEW i \in BOOLEAN,
         NEW h \in BOOLEAN, NEW s \in Stages
  PROVE  Record(b, g, f, i, h, s) \in Records
BY DEF Record, Records

LEMMA EmptyFacts ==
  /\ Empty \in Copies /\ Empty # None /\ None \in Copies
  /\ Empty.boots = 0 /\ Empty.generation = 0 /\ Empty.failures = 0 /\ Empty.incomplete = FALSE
  /\ None.boots = -1 /\ None.generation = -1
<1>1. /\ Empty.boots = 0 /\ Empty.generation = 0 /\ Empty.failures = 0
      /\ Empty.incomplete = FALSE /\ None.boots = -1 /\ None.generation = -1
  BY DEF Empty, None, Record
<1>2. Empty \in Records /\ None \in Records
  BY BootAssumption DEF Empty, None, Record, Records, Stages
<1> QED
  BY <1>1, <1>2 DEF Copies

\* What checkpoint() writes differs from the record in its number, which is higher.
LEMMA NumberedFacts ==
  ASSUME NEW r \in Copies, r # None
  PROVE  /\ Numbered(r) \in Copies /\ Numbered(r) # None
         /\ Numbered(r).boots = r.boots /\ Numbered(r).generation = r.generation + 1
         /\ Numbered(r).failures = r.failures /\ Numbered(r).incomplete = r.incomplete
         /\ Numbered(r).healthy = r.healthy
<1>1. /\ r \in Records /\ r.boots >= 0 /\ r.generation >= 0
  BY DEF Copies
<1>2. /\ r.boots \in 0 .. MaxBoots /\ r.generation \in Nat /\ r.failures \in Nat
      /\ r.incomplete \in BOOLEAN /\ r.healthy \in BOOLEAN /\ r.stage \in Stages
  BY <1>1, BootAssumption DEF Records
<1>3. /\ Numbered(r).boots = r.boots /\ Numbered(r).generation = r.generation + 1
      /\ Numbered(r).failures = r.failures /\ Numbered(r).incomplete = r.incomplete
      /\ Numbered(r).healthy = r.healthy
  BY RecordFields DEF Numbered
<1>4. r.boots \in -1 .. MaxBoots /\ r.generation + 1 \in Int
  BY <1>2, BootAssumption
<1>5. Numbered(r) \in Records
  BY <1>2, <1>4, RecordType DEF Numbered
<1>6. Numbered(r) \in Copies
  BY <1>2, <1>3, <1>5 DEF Copies
<1>7. Numbered(r) # None
  BY <1>2, <1>3, EmptyFacts
<1> QED
  BY <1>3, <1>6, <1>7

\* A record with a count of boots and a number, of any state, is a copy.
LEMMA RecordIsCopy ==
  ASSUME NEW b \in 0 .. MaxBoots, NEW g \in Nat, NEW f \in Nat, NEW i \in BOOLEAN,
         NEW h \in BOOLEAN, NEW s \in Stages
  PROVE  Record(b, g, f, i, h, s) \in Copies /\ Record(b, g, f, i, h, s) # None
<1>1. Record(b, g, f, i, h, s).boots = b /\ Record(b, g, f, i, h, s).generation = g
  BY RecordFields
<1>2. b \in -1 .. MaxBoots /\ g \in Int
  BY BootAssumption
<1>3. Record(b, g, f, i, h, s) \in Records
  BY <1>2, RecordType
<1> HIDE DEF Record
<1> QED
  BY <1>1, <1>3, EmptyFacts DEF Copies

LEMMA CopyFields ==
  ASSUME NEW r \in Copies
  PROVE  /\ r.boots \in -1 .. MaxBoots /\ r.generation \in Int /\ r.failures \in Nat
         /\ r.incomplete \in BOOLEAN /\ r.healthy \in BOOLEAN /\ r.stage \in Stages
         /\ r # None => r.boots \in 0 .. MaxBoots /\ r.generation \in Nat
<1>1. r \in Records
  BY DEF Copies
<1>2. /\ r.boots \in -1 .. MaxBoots /\ r.generation \in Int /\ r.failures \in Nat
      /\ r.incomplete \in BOOLEAN /\ r.healthy \in BOOLEAN /\ r.stage \in Stages
  BY <1>1 DEF Records
<1>3. r # None => r.boots >= 0 /\ r.generation >= 0
  BY DEF Copies
<1> QED
  BY <1>2, <1>3, BootAssumption

LEMMA BegunFacts ==
  ASSUME NEW r \in Copies, r # None, r.boots < MaxBoots
  PROVE  /\ Begun(r) \in Copies /\ Begun(r) # None
         /\ Begun(r).boots = r.boots + 1
         /\ Begun(r).failures = r.failures + Open(r) /\ Begun(r).incomplete = TRUE
<1>1. /\ r.boots + 1 \in 0 .. MaxBoots
      /\ (r.failures + IF r.incomplete THEN 1 ELSE 0) \in Nat
  BY CopyFields, BootAssumption
<1>2. /\ Begun(r).boots = r.boots + 1 /\ Begun(r).incomplete = TRUE
      /\ Begun(r).failures = r.failures + IF r.incomplete THEN 1 ELSE 0
  BY DEF Begun, Record
<1>3. TRUE \in BOOLEAN /\ FALSE \in BOOLEAN /\ "reset" \in Stages /\ 0 \in Nat
  BY DEF Stages
<1>4. Begun(r) \in Copies /\ Begun(r) # None
  BY <1>1, <1>3, RecordIsCopy DEF Begun
<1> QED
  BY <1>2, <1>4 DEF Open

LEMMA StagedFacts ==
  ASSUME NEW r \in Copies, r # None, NEW stage \in Stages
  PROVE  /\ Staged(r, stage) \in Copies /\ Staged(r, stage) # None
         /\ Staged(r, stage).boots = r.boots /\ Staged(r, stage).generation = r.generation
         /\ Staged(r, stage).failures = r.failures
         /\ Staged(r, stage).incomplete = r.incomplete
<1>1. Staged(r, stage) \in Copies /\ Staged(r, stage) # None
  BY CopyFields, RecordIsCopy DEF Staged
<1> QED
  BY <1>1 DEF Staged, Record

LEMMA FailedFacts ==
  ASSUME NEW r \in Copies, r # None, NEW safe \in BOOLEAN
  PROVE  /\ Failed(r, safe) \in Copies /\ Failed(r, safe) # None
         /\ Failed(r, safe).boots = r.boots /\ Failed(r, safe).generation = r.generation
         /\ Failed(r, safe).failures = r.failures + Open(r)
         /\ Failed(r, safe).incomplete = FALSE
<1> DEFINE f == r.failures + IF r.incomplete THEN 1 ELSE 0
           s == IF safe THEN "safe-mode" ELSE r.stage
<1>1. /\ r.boots \in 0 .. MaxBoots /\ r.generation \in Nat /\ r.failures \in Nat
      /\ r.stage \in Stages
  BY CopyFields
<1>2. f \in Nat
  BY <1>1
<1>3. s \in Stages /\ FALSE \in BOOLEAN
  BY <1>1 DEF Stages
<1>4. Failed(r, safe) = Record(r.boots, r.generation, f, FALSE, FALSE, s)
  BY DEF Failed, Reported
<1>5. f = r.failures + Open(r)
  BY DEF Open
<1> HIDE DEF f, s
<1>6. Failed(r, safe) \in Copies /\ Failed(r, safe) # None
  BY <1>1, <1>2, <1>3, <1>4, RecordIsCopy
<1> QED
  BY <1>4, <1>5, <1>6 DEF Record

LEMMA ConfirmedFacts ==
  ASSUME NEW r \in Copies, r # None, NEW stage \in Stages
  PROVE  /\ Confirmed(r, stage) \in Copies /\ Confirmed(r, stage) # None
         /\ Confirmed(r, stage).boots = r.boots
         /\ Confirmed(r, stage).generation = r.generation
         /\ Confirmed(r, stage).failures = 0 /\ Confirmed(r, stage).incomplete = FALSE
         /\ Confirmed(r, stage).healthy = TRUE
<1>1. TRUE \in BOOLEAN /\ FALSE \in BOOLEAN /\ 0 \in Nat
  OBVIOUS
<1>2. Confirmed(r, stage) \in Copies /\ Confirmed(r, stage) # None
  BY <1>1, CopyFields, RecordIsCopy DEF Confirmed
<1> QED
  BY <1>2 DEF Confirmed, Record

LEMMA StepsFacts ==
  ASSUME NEW s \in Steps
  PROVE  s[2] \in Stages /\ s[2] \in Places /\ s[3] \in BOOLEAN /\ s[2] # "confirmed"
<1> DEFINE Names == {"platform", "persistent-state", "update-reconcile", "filesystem",
                     "configuration", "certificates", "hardware", "network", "portal",
                     "essential-services", "health-check"}
<1>1. \E a : \E b \in Names : \E d \in BOOLEAN : s = <<a, b, d>>
  BY DEF Steps
<1>2. PICK a : \E b \in Names : \E d \in BOOLEAN : s = <<a, b, d>>
  BY <1>1
<1>2a. PICK b \in Names : \E d \in BOOLEAN : s = <<a, b, d>>
  BY <1>2
<1>2b. PICK d \in BOOLEAN : s = <<a, b, d>>
  BY <1>2a
<1>3. s[2] = b /\ s[3] = d
  BY <1>2b
<1>4. b \in Stages /\ b \in Places /\ b # "confirmed"
  BY DEF Stages, Places
<1> HIDE DEF Names
<1> QED
  BY <1>3, <1>4

-----------------------------------------------------------------------------
(* The two copies.                                                         *)

LEMMA NotOlderTotal ==
  ASSUME NEW a \in Copies, NEW b \in Copies
  PROVE  NotOlder(a, b) \/ NotOlder(b, a)
BY CopyFields DEF NotOlder

LEMMA NotOlderNone ==
  ASSUME NEW a \in Copies, a # None
  PROVE  NotOlder(a, None) /\ NotOlder(a, Empty)
BY CopyFields, EmptyFacts DEF NotOlder

\* The copy that is loaded is the newer of those that are there.
LEMMA LoadFacts ==
  ASSUME Types
  PROVE  /\ Load \in Copies /\ Load # None
         /\ backup # None => NotOlder(Load, backup)
         /\ flash # None => NotOlder(Load, flash)
<1>1. backup \in Copies /\ flash \in Copies
  BY DEF Types
<1>2. CASE backup # None /\ NotOlder(backup, flash)
  <2>1. NotOlder(backup, backup)
    BY <1>1, NotOlderTotal
  <2> QED
    BY <1>1, <1>2, <2>1 DEF Load
<1>3. CASE ~(backup # None /\ NotOlder(backup, flash)) /\ flash # None
  <2>1. NotOlder(flash, flash)
    BY <1>1, NotOlderTotal
  <2>2. Load = flash
    BY <1>3 DEF Load
  <2>3. backup # None => NotOlder(flash, backup)
    BY <1>1, <1>3, NotOlderTotal
  <2> QED
    BY <1>1, <1>3, <2>1, <2>2, <2>3
<1>4. CASE ~(backup # None /\ NotOlder(backup, flash)) /\ flash = None
  <2>1. backup = None
    BY <1>1, <1>4, NotOlderNone
  <2> QED
    BY <1>4, <2>1, EmptyFacts DEF Load
<1> QED
  BY <1>2, <1>3, <1>4

\* A record that is not older than what is loaded is newer than both copies once it has its
\* number.
LEMMA NumberedIsNewer ==
  ASSUME Types, NEW r \in Copies, r # None, NotOlder(r, Load), NEW c \in {backup, flash, None}
  PROVE  NotOlder(Numbered(r), c) /\ ~NotOlder(c, Numbered(r))
<1>1. /\ r.boots \in Nat /\ r.generation \in Nat
      /\ Numbered(r).boots = r.boots /\ Numbered(r).generation = r.generation + 1
  BY CopyFields, NumberedFacts
<1>2. CASE c = None
  BY <1>1, <1>2, EmptyFacts DEF NotOlder
<1>3. CASE c # None
  <2>1. NotOlder(Load, c)
    BY <1>3, LoadFacts
  <2>2. c \in Copies /\ Load \in Copies
    BY LoadFacts, EmptyFacts DEF Types
  <2>3. /\ c.boots \in Int /\ c.generation \in Int /\ Load.boots \in Int
        /\ Load.generation \in Int
    BY <2>2, CopyFields
  <2> QED
    BY <1>1, <2>1, <2>3 DEF NotOlder
<1> QED
  BY <1>2, <1>3

\* checkpoint(): whatever fails, a copy has the record, or it is known to be lost.
LEMMA CheckpointFacts ==
  ASSUME Types, NEW r \in Copies, r # None, NEW durable \in BOOLEAN, NEW next \in Places,
         Checkpoint(r, durable, next)
  PROVE  /\ memory' = Numbered(r) /\ at' = next
         /\ backup' \in Copies /\ flash' \in Copies /\ settled' \in BOOLEAN
         /\ faults' \in 0 .. MaxFaults /\ bootExposed' \subseteq BootExposure
         /\ Clean' => Clean
         /\ (Clean' /\ NotOlder(r, Load)) => Load' = Numbered(r)
         /\ (Clean' /\ settled') => \/ flash' = Numbered(r)
                                    \/ ~durable /\ settled /\ flash' = flash
<1> DEFINE new == Numbered(r)
<1>1. PICK backupTakes \in BOOLEAN, flashTakes \in BOOLEAN :
        LET backed == provider /\ backupTakes
            writes == durable \/ ~backed
            failed == (IF provider /\ ~backupTakes THEN 1 ELSE 0)
                      + (IF writes /\ ~flashTakes THEN 1 ELSE 0)
        IN /\ (~provider => backupTakes) /\ (~writes => flashTakes)
           /\ faults' = faults + failed /\ faults' <= MaxFaults
           /\ backup' = IF backed THEN new ELSE backup
           /\ flash' \in IF ~writes THEN {flash}
                         ELSE IF flashTakes THEN {new} ELSE {flash, None}
           /\ settled' = IF writes THEN flashTakes ELSE settled
           /\ bootExposed' = bootExposed \cup IF failed > 0 /\ ~backed /\ ~flashTakes
                                              THEN {"lost"} ELSE {}
           /\ memory' = new /\ at' = next
  BY DEF Checkpoint
<1> DEFINE backed == provider /\ backupTakes
           writes == durable \/ ~backed
           failed == (IF provider /\ ~backupTakes THEN 1 ELSE 0)
                     + (IF writes /\ ~flashTakes THEN 1 ELSE 0)
<1>2. /\ ~writes => flashTakes
      /\ faults' = faults + failed /\ faults' <= MaxFaults
      /\ backup' = IF backed THEN new ELSE backup
      /\ flash' \in IF ~writes THEN {flash} ELSE IF flashTakes THEN {new} ELSE {flash, None}
      /\ settled' = IF writes THEN flashTakes ELSE settled
      /\ bootExposed' = bootExposed \cup IF failed > 0 /\ ~backed /\ ~flashTakes
                                         THEN {"lost"} ELSE {}
      /\ memory' = new /\ at' = next
  BY <1>1
<1>3. failed \in 0 .. 2 /\ (~backed /\ ~flashTakes => failed > 0)
  OBVIOUS
<1>4. ~backed => writes
  OBVIOUS
<1>5. backed \in BOOLEAN /\ writes \in BOOLEAN
  OBVIOUS
<1> HIDE DEF failed, backed, writes, new
<1>6. new \in Copies /\ new # None
  BY NumberedFacts DEF new
<1>7. backup' \in Copies /\ flash' \in Copies
  BY <1>2, <1>6, EmptyFacts DEF Types
<1>8. settled' \in BOOLEAN
  BY <1>2 DEF Types
<1>9. faults' \in 0 .. MaxFaults
  BY <1>2, <1>3, BootAssumption DEF Types
<1>10. bootExposed' \subseteq BootExposure /\ bootExposed \subseteq bootExposed'
  BY <1>2 DEF Types, BootExposure
<1>11. Clean' => Clean
  BY <1>10 DEF Clean
<1>12. Clean' => backed \/ flashTakes
  BY <1>2, <1>3 DEF Clean
<1>13. ASSUME Clean', NotOlder(r, Load) PROVE Load' = new
  <2>1. \A c \in {backup, flash, None} : NotOlder(new, c) /\ ~NotOlder(c, new)
    BY <1>13, NumberedIsNewer DEF new
  <2>2. NotOlder(new, new)
    BY <1>6, NotOlderTotal
  <2>3. CASE backed
    <3>1. backup' = new
      BY <1>2, <2>3
    <3>2. flash' \in {flash, new, None}
      BY <1>2
    <3>3. NotOlder(backup', flash')
      BY <2>1, <2>2, <3>1, <3>2
    <3> QED
      BY <1>6, <3>1, <3>3 DEF Load
  <2>4. CASE ~backed
    <3>1. backup' = backup
      BY <1>2, <2>4
    <3>2. flash' = new
      BY <1>2, <1>4, <1>12, <1>13, <2>4
    <3>3. ~NotOlder(backup', flash')
      BY <2>1, <3>1, <3>2
    <3> QED
      BY <1>6, <3>2, <3>3 DEF Load
  <2> QED
    BY <2>3, <2>4
<1>14. ASSUME Clean', settled' PROVE flash' = new \/ (~durable /\ settled /\ flash' = flash)
  <2>1. CASE writes
    BY <1>2, <1>14, <2>1
  <2>2. CASE ~writes
    <3>1. ~durable
      BY <2>2 DEF writes
    <3> QED
      BY <1>2, <1>14, <2>2, <3>1
  <2> QED
    BY <2>1, <2>2
<1> QED
  BY <1>2, <1>7, <1>8, <1>9, <1>10, <1>11, <1>13, <1>14 DEF new

\* The same of a checkpoint that is cut off.
LEMMA CutOffFacts ==
  ASSUME Types, NEW r \in Copies, r # None, NEW durable \in BOOLEAN, CutOff(r, durable)
  PROVE  /\ memory' \in {memory, Numbered(r)} /\ at' = "off"
         /\ backup' \in Copies /\ flash' \in Copies /\ settled' \in BOOLEAN
         /\ faults' \in 0 .. MaxFaults /\ bootExposed' \subseteq BootExposure
         /\ Clean' => Clean /\ memory' = Numbered(r)
         /\ (Clean' /\ NotOlder(r, Load)) => Load' = Numbered(r)
         /\ (Clean' /\ settled') => ~durable /\ settled /\ flash' = flash
<1>0. Numbered(r) \in Copies /\ Numbered(r) # None
  BY NumberedFacts
<1>1. CASE provider
  <2>1. /\ at' = "off" /\ backup' = Numbered(r) /\ memory' = Numbered(r)
        /\ flash' \in IF durable THEN {flash, None} ELSE {flash}
        /\ settled' = (settled /\ ~durable) /\ UNCHANGED <<bootExposed, faults>>
    BY <1>1 DEF CutOff
  <2>2. flash' \in {flash, None}
    BY <2>1
  <2>3. settled' \in BOOLEAN
    BY <2>1 DEF Types
  <2>4. Clean' => Clean
    BY <2>1 DEF Clean
  <2>5. ASSUME NotOlder(r, Load) PROVE Load' = Numbered(r)
    <3>1. NotOlder(Numbered(r), flash')
      BY <2>2, <2>5, NumberedIsNewer
    <3> QED
      BY <1>0, <2>1, <3>1 DEF Load
  <2>6. settled' => ~durable /\ settled /\ flash' = flash
    BY <2>1
  <2>7. backup' \in Copies /\ flash' \in Copies
    BY <1>0, <2>1, <2>2, EmptyFacts DEF Types
  <2> QED
    BY <2>1, <2>3, <2>4, <2>5, <2>6, <2>7 DEF Types
<1>2. CASE ~provider
  <2>1. /\ at' = "off" /\ UNCHANGED <<backup, memory, faults>> /\ flash' = None
        /\ settled' = FALSE /\ bootExposed' = bootExposed \cup {"lost"}
    BY <1>2 DEF CutOff
  <2>2. ~Clean'
    BY <2>1 DEF Clean
  <2>3. backup' \in Copies /\ flash' \in Copies /\ settled' \in BOOLEAN
    BY <2>1, EmptyFacts DEF Types
  <2> QED
    BY <2>1, <2>2, <2>3 DEF Types, BootExposure
<1> QED
  BY <1>1, <1>2 DEF Types

-----------------------------------------------------------------------------
(* The boot.                                                               *)

\* What a checkpoint of a record does to the invariant, but for what it counts.
LEMMA KeepsFacts ==
  ASSUME BootInv, NEW r \in Copies, r # None, Clean => NotOlder(r, Load), NEW durable \in BOOLEAN,
         NEW next \in Places, Keeps(r, durable, next)
  PROVE  /\ provider' \in BOOLEAN /\ settled' \in BOOLEAN /\ at' \in {next, "off"}
         /\ memory' \in Copies /\ memory' # None /\ backup' \in Copies /\ flash' \in Copies
         /\ faults' \in 0 .. MaxFaults /\ bootExposed' \subseteq BootExposure
         /\ Latest'
         /\ memory' \in {memory, Numbered(r)}
         /\ at' # "off" => memory' = Numbered(r)
         /\ Clean' => Clean /\ memory' = Numbered(r)
         /\ (Clean' /\ settled') => \/ flash' = Numbered(r)
                                    \/ ~durable /\ settled /\ flash' = flash
<1>1. Types /\ provider' = provider
  BY DEF Keeps, BootInv
<1>2. Numbered(r) \in Copies /\ Numbered(r) # None
  BY NumberedFacts
<1>3. CASE Checkpoint(r, durable, next)
  <2>1. /\ memory' = Numbered(r) /\ at' = next
        /\ backup' \in Copies /\ flash' \in Copies /\ settled' \in BOOLEAN
        /\ faults' \in 0 .. MaxFaults /\ bootExposed' \subseteq BootExposure
        /\ Clean' => Clean
        /\ (Clean' /\ NotOlder(r, Load)) => Load' = Numbered(r)
        /\ (Clean' /\ settled') => \/ flash' = Numbered(r)
                                   \/ ~durable /\ settled /\ flash' = flash
    BY <1>1, <1>3, CheckpointFacts
  <2>2. Latest'
    BY <2>1 DEF Latest
  <2> QED
    BY <1>1, <1>2, <2>1, <2>2 DEF Types
<1>4. CASE CutOff(r, durable)
  <2>1. /\ memory' \in {memory, Numbered(r)} /\ at' = "off"
        /\ backup' \in Copies /\ flash' \in Copies /\ settled' \in BOOLEAN
        /\ faults' \in 0 .. MaxFaults /\ bootExposed' \subseteq BootExposure
        /\ Clean' => Clean /\ memory' = Numbered(r)
        /\ (Clean' /\ NotOlder(r, Load)) => Load' = Numbered(r)
        /\ (Clean' /\ settled') => ~durable /\ settled /\ flash' = flash
    BY <1>1, <1>4, CutOffFacts
  <2>2. Latest'
    BY <2>1 DEF Latest
  <2> QED
    BY <1>1, <1>2, <2>1, <2>2 DEF Types
<1> QED
  BY <1>3, <1>4 DEF Keeps

\* A checkpoint of the record of this boot: it may close what is open, and count it.
LEMMA KeepsRecord ==
  ASSUME BootInv, NEW r \in Copies, r # None,
         r.boots = memory.boots, r.generation = memory.generation,
         NEW durable \in BOOLEAN, NEW next \in Places \ {"confirmed"}, Keeps(r, durable, next),
         UNCHANGED <<confirmed, unhealthy>>,
         ~durable => r.failures = memory.failures /\ r.incomplete = memory.incomplete,
         Clean => /\ r.failures + Open(r) = unhealthy + IF confirmed THEN 0 ELSE 1
                  /\ confirmed => ~r.incomplete
  PROVE  BootInv'
<1>1. Clean => NotOlder(r, Load)
  <2>1. Clean => Load = memory
    BY DEF BootInv, Latest
  <2>2. memory \in Copies
    BY DEF BootInv, Types
  <2> QED
    BY <2>1, <2>2, CopyFields DEF NotOlder
<1>2. /\ provider' \in BOOLEAN /\ settled' \in BOOLEAN /\ at' \in {next, "off"}
      /\ memory' \in Copies /\ memory' # None /\ backup' \in Copies /\ flash' \in Copies
      /\ faults' \in 0 .. MaxFaults /\ bootExposed' \subseteq BootExposure
      /\ Latest'
      /\ Clean' => Clean /\ memory' = Numbered(r)
      /\ (Clean' /\ settled') => \/ flash' = Numbered(r)
                                 \/ ~durable /\ settled /\ flash' = flash
  BY <1>1, KeepsFacts
<1>3. Types'
  BY <1>2 DEF BootInv, Types, Places
<1>4. Numbered(r).failures = r.failures /\ Numbered(r).incomplete = r.incomplete
      /\ Numbered(r) # None
  BY NumberedFacts
<1>5. Counted'
  <2> SUFFICES ASSUME Clean'
               PROVE  /\ memory'.failures + Open(memory') =
                           unhealthy' + IF confirmed' THEN 0 ELSE 1
                      /\ confirmed' => ~memory'.incomplete
    BY DEF Counted, Open
  <2> QED
    BY <1>2, <1>4 DEF Open
<1>6. Durable'
  <2> SUFFICES ASSUME Clean', settled'
               PROVE  /\ OnFlash'.failures = memory'.failures
                      /\ OnFlash'.incomplete = memory'.incomplete
    BY DEF Durable
  <2>1. Clean /\ memory' = Numbered(r)
    BY <1>2
  <2>2. CASE flash' = Numbered(r)
    BY <1>4, <2>1, <2>2 DEF OnFlash
  <2>3. CASE ~durable /\ settled /\ flash' = flash
    <3>1. OnFlash' = OnFlash
      BY <2>3 DEF OnFlash
    <3>2. OnFlash.failures = memory.failures /\ OnFlash.incomplete = memory.incomplete
      BY <2>1, <2>3 DEF BootInv, Durable
    <3> QED
      BY <1>4, <2>1, <2>3, <3>1, <3>2
  <2> QED
    BY <1>2, <2>2, <2>3
<1>7. Finishes'
  BY <1>2 DEF Finishes
<1> QED
  BY <1>2, <1>3, <1>5, <1>6, <1>7 DEF BootInv

\* The record stays; the boot goes to another point, or ends.
LEMMA MovesOnly ==
  ASSUME BootInv, at' \in Places \ {"confirmed"},
         UNCHANGED <<provider, memory, backup, flash, settled, confirmed, unhealthy, faults,
                     bootExposed>>
  PROVE  BootInv'
<1>1. Types'
  BY DEF BootInv, Types
<1>2. Latest' /\ Counted' /\ Durable'
  BY DEF BootInv, Latest, Load, NotOlder, Counted, Open, Durable, OnFlash, Clean
<1>3. Finishes'
  BY DEF Finishes
<1> QED
  BY <1>1, <1>2, <1>3 DEF BootInv

LEMMA BootInitHolds == BootInit => BootInv
<1> SUFFICES ASSUME BootInit PROVE BootInv
  OBVIOUS
<1>1. Types
  BY EmptyFacts, BootAssumption DEF BootInit, Types, Places
<1>2. Latest
  BY DEF BootInit, Latest, Load
<1>3. Counted
  BY EmptyFacts DEF BootInit, Counted, Open
<1>4. Durable
  BY DEF BootInit, Durable, OnFlash
<1>5. Finishes
  BY DEF BootInit, Finishes
<1> QED
  BY <1>1, <1>2, <1>3, <1>4, <1>5 DEF BootInv

LEMMA MemoryFacts ==
  ASSUME BootInv
  PROVE  /\ memory \in Copies /\ memory # None
         /\ memory.failures \in Nat /\ unhealthy \in Nat /\ confirmed \in BOOLEAN
         /\ memory.incomplete \in BOOLEAN
BY CopyFields DEF BootInv, Types

\* fail() of the record counts what is open, and closes it.
LEMMA KeepsFailed ==
  ASSUME BootInv, NEW safe \in BOOLEAN, NEW next \in Places \ {"confirmed"},
         Keeps(Failed(memory, safe), TRUE, next), UNCHANGED <<confirmed, unhealthy>>
  PROVE  BootInv'
<1> DEFINE r == Failed(memory, safe)
<1>1. memory \in Copies /\ memory # None
  BY MemoryFacts
<1>2. /\ r \in Copies /\ r # None
      /\ r.boots = memory.boots /\ r.generation = memory.generation
      /\ r.failures = memory.failures + Open(memory) /\ r.incomplete = FALSE
  BY <1>1, FailedFacts
<1> HIDE DEF r
<1>3. Open(r) = 0
  BY <1>2 DEF Open
<1>4. memory.failures \in Nat /\ Open(memory) \in Nat
  BY MemoryFacts DEF Open
<1>5. Clean => memory.failures + Open(memory) = unhealthy + IF confirmed THEN 0 ELSE 1
  BY DEF BootInv, Counted
<1>6. Clean => r.failures + Open(r) = unhealthy + IF confirmed THEN 0 ELSE 1
  BY <1>2, <1>3, <1>4, <1>5
<1>7. confirmed => ~r.incomplete
  BY <1>2
<1>8. Keeps(r, TRUE, next)
  BY DEF r
<1> QED
  BY <1>2, <1>6, <1>7, <1>8, KeepsRecord

\* A stage leaves what is counted as it is.
LEMMA KeepsStaged ==
  ASSUME BootInv, NEW stage \in Stages, NEW durable \in BOOLEAN,
         NEW next \in Places \ {"confirmed"}, Keeps(Staged(memory, stage), durable, next),
         UNCHANGED <<confirmed, unhealthy>>
  PROVE  BootInv'
<1> DEFINE r == Staged(memory, stage)
<1>1. memory \in Copies /\ memory # None
  BY MemoryFacts
<1>2. /\ r \in Copies /\ r # None
      /\ r.boots = memory.boots /\ r.generation = memory.generation
      /\ r.failures = memory.failures /\ r.incomplete = memory.incomplete
  BY <1>1, StagedFacts
<1>3. Keeps(r, durable, next)
  OBVIOUS
<1> HIDE DEF r
<1>4. Open(r) = Open(memory)
  BY <1>2 DEF Open
<1>5. Clean => /\ r.failures + Open(r) = unhealthy + IF confirmed THEN 0 ELSE 1
               /\ confirmed => ~r.incomplete
  BY <1>2, <1>4 DEF BootInv, Counted
<1> QED
  BY <1>2, <1>3, <1>5, KeepsRecord

\* begin() of the record that was loaded: what it left open is counted, and this boot is open.
LEMMA BeginHolds == ASSUME BootInv, Begin PROVE BootInv'
<1> DEFINE r == Begun(Load)
<1>0. Types
  BY DEF BootInv
<1>1. Load \in Copies /\ Load # None /\ Load.boots < MaxBoots
  BY <1>0, LoadFacts DEF Begin
<1>2. /\ r \in Copies /\ r # None /\ r.boots = Load.boots + 1
      /\ r.failures = Load.failures + Open(Load) /\ r.incomplete = TRUE
  BY <1>1, BegunFacts
<1>3. Keeps(r, TRUE, "reset")
  BY DEF Begin
<1>4. "reset" \in Places /\ TRUE \in BOOLEAN
  BY DEF Places
<1> HIDE DEF r
<1>5. NotOlder(r, Load)
  BY <1>1, <1>2, CopyFields DEF NotOlder
<1>6. /\ provider' \in BOOLEAN /\ settled' \in BOOLEAN /\ at' \in {"reset", "off"}
      /\ memory' \in Copies /\ memory' # None /\ backup' \in Copies /\ flash' \in Copies
      /\ faults' \in 0 .. MaxFaults /\ bootExposed' \subseteq BootExposure
      /\ Latest'
      /\ Clean' => Clean /\ memory' = Numbered(r)
      /\ (Clean' /\ settled') => flash' = Numbered(r)
  BY <1>2, <1>3, <1>4, <1>5, KeepsFacts
<1>7. /\ confirmed' = FALSE
      /\ unhealthy' = unhealthy + IF confirmed THEN 0 ELSE 1
  BY DEF Begin
<1>8. unhealthy' \in Nat
  BY <1>0, <1>7 DEF Types
<1>9. confirmed' \in BOOLEAN /\ at' \in Places
  BY <1>6, <1>7 DEF Places
<1>10. Types'
  BY <1>6, <1>8, <1>9 DEF Types
<1>11. /\ Numbered(r).failures = r.failures /\ Numbered(r).incomplete = r.incomplete
       /\ Numbered(r) # None
  BY <1>2, NumberedFacts
<1>12. Counted'
  <2> SUFFICES ASSUME Clean'
               PROVE  /\ memory'.failures + Open(memory') =
                           unhealthy' + IF confirmed' THEN 0 ELSE 1
                      /\ confirmed' => ~memory'.incomplete
    BY DEF Counted, Open
  <2>1. Clean /\ memory' = Numbered(r)
    BY <1>6
  <2>2. Load = memory
    BY <2>1 DEF BootInv, Latest
  <2>3. memory.failures + Open(memory) = unhealthy + IF confirmed THEN 0 ELSE 1
    BY <2>1 DEF BootInv, Counted
  <2>4. memory'.failures = memory.failures + Open(memory) /\ memory'.incomplete = TRUE
    BY <1>2, <1>11, <2>1, <2>2
  <2>5. Open(memory') = 1
    BY <2>4 DEF Open
  <2>6. memory.failures \in Nat /\ Open(memory) \in Nat /\ unhealthy' \in Nat
    BY <1>8, MemoryFacts DEF Open
  <2>7. ~confirmed'
    BY <1>7
  <2>8. memory'.failures + Open(memory') = unhealthy' + 1
    BY <1>7, <2>3, <2>4, <2>5, <2>6
  <2> QED
    BY <2>7, <2>8
<1>13. Durable'
  <2> SUFFICES ASSUME Clean', settled'
               PROVE  /\ OnFlash'.failures = memory'.failures
                      /\ OnFlash'.incomplete = memory'.incomplete
    BY DEF Durable
  <2> QED
    BY <1>6, <1>11 DEF OnFlash
<1>14. Finishes'
  BY <1>6 DEF Finishes
<1> QED
  BY <1>6, <1>10, <1>12, <1>13, <1>14 DEF BootInv

LEMMA FactoryResetHolds == ASSUME BootInv, FactoryReset PROVE BootInv'
<1>1. /\ at' = "setup" /\ memory' = Empty
      /\ flash' \in {None, flash} /\ backup' \in {None, backup}
      /\ confirmed' = TRUE /\ unhealthy' = 0 /\ settled' = TRUE /\ provider' = provider
  BY DEF FactoryReset
<1> DEFINE remains == IF flash' # None \/ backup' # None THEN 1 ELSE 0
<1>2. /\ faults' = faults + remains
      /\ bootExposed' = bootExposed \cup IF remains = 1 THEN {"stale"} ELSE {}
  BY DEF FactoryReset
<1>3. faults' \in 0 .. MaxFaults
  <2>1. CASE faults < MaxFaults
    BY <1>2, <2>1, BootAssumption DEF BootInv, Types
  <2>2. CASE ~(faults < MaxFaults)
    <3>1. flash' = None /\ backup' = None
      BY <2>2 DEF FactoryReset
    <3> QED
      BY <1>2, <3>1, BootAssumption DEF BootInv, Types
  <2> QED
    BY <2>1, <2>2
<1>4. Clean' => flash' = None /\ backup' = None
  BY <1>2 DEF Clean
<1>5. bootExposed' \subseteq BootExposure
  BY <1>2 DEF BootInv, Types, BootExposure
<1> HIDE DEF remains
<1>6. /\ provider' \in BOOLEAN /\ settled' \in BOOLEAN /\ confirmed' \in BOOLEAN
      /\ at' \in Places
  BY <1>1 DEF BootInv, Types, Places
<1>7. Types'
  BY <1>1, <1>3, <1>5, <1>6, EmptyFacts DEF BootInv, Types
<1>8. Latest'
  BY <1>1, <1>4 DEF Latest, Load
<1>9. Counted'
  <2>1. memory'.failures = 0 /\ memory'.incomplete = FALSE
    BY <1>1, EmptyFacts
  <2>2. Open(memory') = 0
    BY <2>1 DEF Open
  <2> QED
    BY <1>1, <2>1, <2>2 DEF Counted, Open
<1>10. Durable'
  BY <1>1, <1>4 DEF Durable, OnFlash
<1>11. Finishes'
  BY <1>1 DEF Finishes
<1> QED
  BY <1>7, <1>8, <1>9, <1>10, <1>11 DEF BootInv

\* confirm_health(): nothing is open, and nothing is counted.
LEMMA ConfirmsHolds == ASSUME BootInv, ConfirmsHealth PROVE BootInv'
<1> DEFINE r == Confirmed(memory, "health-check")
<1>1. memory \in Copies /\ memory # None
  BY MemoryFacts
<1>2. "health-check" \in Stages /\ "confirmed" \in Places /\ TRUE \in BOOLEAN
  BY DEF Stages, Places
<1>3. /\ r \in Copies /\ r # None
      /\ r.boots = memory.boots /\ r.generation = memory.generation
      /\ r.failures = 0 /\ r.incomplete = FALSE /\ r.healthy = TRUE
  BY <1>1, <1>2, ConfirmedFacts
<1>4. Keeps(r, TRUE, "confirmed")
  BY DEF ConfirmsHealth
<1> HIDE DEF r
<1>5. Clean => NotOlder(r, Load)
  BY <1>1, <1>3, CopyFields DEF NotOlder, BootInv, Latest
<1>6. /\ provider' \in BOOLEAN /\ settled' \in BOOLEAN /\ at' \in {"confirmed", "off"}
      /\ memory' \in Copies /\ memory' # None /\ backup' \in Copies /\ flash' \in Copies
      /\ faults' \in 0 .. MaxFaults /\ bootExposed' \subseteq BootExposure
      /\ Latest'
      /\ at' # "off" => memory' = Numbered(r)
      /\ Clean' => Clean /\ memory' = Numbered(r)
      /\ (Clean' /\ settled') => flash' = Numbered(r)
  BY <1>2, <1>3, <1>4, <1>5, KeepsFacts
<1>7. /\ Numbered(r).failures = 0 /\ Numbered(r).incomplete = FALSE
      /\ Numbered(r).healthy = TRUE /\ Numbered(r) # None
  BY <1>3, NumberedFacts
<1>8. /\ memory' = Numbered(r) => confirmed' = TRUE /\ unhealthy' = 0
      /\ confirmed' \in {TRUE, confirmed} /\ unhealthy' \in {0, unhealthy}
  BY <1>7 DEF ConfirmsHealth
<1>9. unhealthy' \in Nat /\ at' \in Places
  BY <1>2, <1>6, <1>8 DEF BootInv, Types, Places
<1>9a. confirmed' \in BOOLEAN
  BY <1>8 DEF BootInv, Types
<1>10. Types'
  BY <1>6, <1>9, <1>9a DEF Types
<1>11. Counted'
  <2> SUFFICES ASSUME Clean'
               PROVE  /\ memory'.failures + Open(memory') =
                           unhealthy' + IF confirmed' THEN 0 ELSE 1
                      /\ confirmed' => ~memory'.incomplete
    BY DEF Counted, Open
  <2>1. memory' = Numbered(r)
    BY <1>6
  <2>2. memory'.failures = 0 /\ ~memory'.incomplete
    BY <1>7, <2>1
  <2>3. Open(memory') = 0
    BY <2>2 DEF Open
  <2>4. confirmed' /\ unhealthy' = 0
    BY <1>8, <2>1
  <2> QED
    BY <2>2, <2>3, <2>4
<1>12. Durable'
  <2> SUFFICES ASSUME Clean', settled'
               PROVE  /\ OnFlash'.failures = memory'.failures
                      /\ OnFlash'.incomplete = memory'.incomplete
    BY DEF Durable
  <2> QED
    BY <1>6, <1>7 DEF OnFlash
<1>13. Finishes'
  BY <1>6, <1>8 DEF Finishes
<1> QED
  BY <1>6, <1>10, <1>11, <1>12, <1>13 DEF BootInv

LEMMA FinalisesHolds == ASSUME BootInv, Finalises PROVE BootInv'
<1>1. memory \in Copies /\ memory # None
  BY MemoryFacts
<1>2. /\ "running" \in Stages /\ "running" \in Places \ {"confirmed"} /\ TRUE \in BOOLEAN
  BY DEF Stages, Places
<1>3. UNCHANGED <<confirmed, unhealthy>>
  BY DEF Finalises
<1>4. confirmed /\ unhealthy = 0
  BY DEF Finalises, BootInv, Finishes
<1>5. CASE Keeps(Confirmed(memory, "running"), TRUE, "running")
  <2> DEFINE r == Confirmed(memory, "running")
  <2>1. /\ r \in Copies /\ r # None
        /\ r.boots = memory.boots /\ r.generation = memory.generation
        /\ r.failures = 0 /\ r.incomplete = FALSE
    BY <1>1, <1>2, ConfirmedFacts
  <2>2. Keeps(r, TRUE, "running")
    BY <1>5
  <2> HIDE DEF r
  <2>3. Open(r) = 0
    BY <2>1 DEF Open
  <2>4. /\ r.failures + Open(r) = unhealthy + IF confirmed THEN 0 ELSE 1
        /\ confirmed => ~r.incomplete
    BY <1>4, <2>1, <2>3
  <2> QED
    BY <1>2, <1>3, <2>1, <2>2, <2>4, KeepsRecord
<1>6. CASE Keeps(memory, TRUE, "running")
  <2>1. Clean => /\ memory.failures + Open(memory) = unhealthy + IF confirmed THEN 0 ELSE 1
                 /\ confirmed => ~memory.incomplete
    BY DEF BootInv, Counted
  <2> QED
    BY <1>1, <1>2, <1>3, <1>6, <2>1, KeepsRecord
<1> QED
  BY <1>5, <1>6 DEF Finalises

\* What the power leaves is in flash, and the record of the device is what is found there.
LEMMA PowerLossHolds == ASSUME BootInv, PowerLoss PROVE BootInv'
<1>1. /\ at' = "off" /\ backup' = None /\ memory' = OnFlash
      /\ bootExposed' = bootExposed \cup IF settled THEN {} ELSE {"lost"}
      /\ UNCHANGED <<provider, flash, settled, confirmed, unhealthy, faults>>
  BY DEF PowerLoss, OnFlash
<1>2. Clean' => Clean /\ settled
  BY <1>1 DEF Clean
<1>3. OnFlash \in Copies /\ OnFlash # None
  BY EmptyFacts DEF OnFlash, BootInv, Types
<1>4. Types'
  <2>1. bootExposed' \subseteq BootExposure
    BY <1>1 DEF BootInv, Types, BootExposure
  <2> QED
    BY <1>1, <1>3, <2>1, EmptyFacts DEF BootInv, Types, Places
<1>5. Latest'
  BY <1>1 DEF Latest, Load, OnFlash
<1>6. Counted'
  <2> SUFFICES ASSUME Clean'
               PROVE  /\ memory'.failures + Open(memory') =
                           unhealthy' + IF confirmed' THEN 0 ELSE 1
                      /\ confirmed' => ~memory'.incomplete
    BY DEF Counted, Open
  <2>1. memory'.failures = memory.failures /\ memory'.incomplete = memory.incomplete
    BY <1>1, <1>2 DEF BootInv, Durable
  <2>2. Open(memory') = Open(memory)
    BY <2>1 DEF Open
  <2> QED
    BY <1>1, <1>2, <2>1, <2>2 DEF BootInv, Counted
<1>7. Durable'
  BY <1>1 DEF Durable, OnFlash
<1>8. Finishes'
  BY <1>1 DEF Finishes
<1> QED
  BY <1>4, <1>5, <1>6, <1>7, <1>8 DEF BootInv

LEMMA BootNextHolds == ASSUME BootInv, [BootNext]_bootVars PROVE BootInv'
<1>1. CASE Begin
  BY <1>1, BeginHolds
<1>2. CASE Stage
  <2>1. PICK s \in Steps : Keeps(Staged(memory, s[2]), s[3], s[2])
    BY <1>2 DEF Stage
  <2>2. /\ s[2] \in Stages /\ s[2] \in Places \ {"confirmed"} /\ s[3] \in BOOLEAN
        /\ UNCHANGED <<confirmed, unhealthy>>
    BY <1>2, StepsFacts DEF Stage
  <2> QED
    BY <2>1, <2>2, KeepsStaged
<1>3. CASE FactoryReset
  BY <1>3, FactoryResetHolds
<1>4. CASE RequestsRecovery
  <2>1. \E next \in {"console", "setup", "off"} : Keeps(Failed(memory, TRUE), TRUE, next)
    BY <1>4 DEF RequestsRecovery
  <2>2. PICK next \in {"console", "setup", "off"} : Keeps(Failed(memory, TRUE), TRUE, next)
    BY <2>1
  <2>3. next \in Places \ {"confirmed"} /\ TRUE \in BOOLEAN
    BY DEF Places
  <2> QED
    BY <1>4, <2>2, <2>3, KeepsFailed DEF RequestsRecovery
<1>5. CASE TurnsAside
  <2>1. UNCHANGED <<confirmed, unhealthy>>
    BY <1>5 DEF TurnsAside
  <2>2. CASE Keeps(Staged(memory, "configuration"), FALSE, "setup")
    <3>1. /\ "configuration" \in Stages /\ "setup" \in Places \ {"confirmed"}
          /\ FALSE \in BOOLEAN
      BY DEF Stages, Places
    <3> QED
      BY <2>1, <2>2, <3>1, KeepsStaged
  <2>3. CASE ~Keeps(Staged(memory, "configuration"), FALSE, "setup")
    <3>1. /\ at' \in {"console", "off"}
          /\ UNCHANGED <<provider, memory, backup, flash, settled, faults, bootExposed>>
      BY <1>5, <2>3 DEF TurnsAside
    <3>2. at' \in Places \ {"confirmed"}
      BY <3>1 DEF Places
    <3> QED
      BY <2>1, <3>1, <3>2, MovesOnly
  <2> QED
    BY <2>2, <2>3
<1>6. CASE Raises
  <2>1. "failed" \in Places \ {"confirmed"} /\ FALSE \in BOOLEAN
    BY DEF Places
  <2> QED
    BY <1>6, <2>1, KeepsFailed DEF Raises
<1>7. CASE Returns
  <2>1. "returned" \in Places \ {"confirmed"} /\ FALSE \in BOOLEAN
    BY DEF Places
  <2>2. CASE Keeps(Failed(memory, FALSE), TRUE, "returned")
    BY <1>7, <2>1, <2>2, KeepsFailed DEF Returns
  <2>3. CASE ~Keeps(Failed(memory, FALSE), TRUE, "returned")
    <3>1. /\ at' = "returned"
          /\ UNCHANGED <<provider, memory, backup, flash, settled, confirmed, unhealthy, faults,
                         bootExposed>>
      BY <1>7, <2>3 DEF Returns
    <3> QED
      BY <2>1, <3>1, MovesOnly
  <2> QED
    BY <2>2, <2>3
<1>8. CASE ConfirmsHealth
  BY <1>8, ConfirmsHolds
<1>9. CASE Finalises
  BY <1>9, FinalisesHolds
<1>10. CASE Reset
  <2>1. "off" \in Places \ {"confirmed"}
    BY DEF Places
  <2> QED
    BY <1>10, <2>1, MovesOnly DEF Reset
<1>11. CASE PowerLoss
  BY <1>11, PowerLossHolds
<1>12. CASE UNCHANGED bootVars
  <2>1. /\ at' = at
        /\ UNCHANGED <<provider, memory, backup, flash, settled, confirmed, unhealthy, faults,
                       bootExposed>>
    BY <1>12 DEF bootVars
  <2>2. Types' /\ Finishes'
    BY <2>1 DEF BootInv, Types, Finishes
  <2>3. Latest' /\ Counted' /\ Durable'
    BY <2>1 DEF BootInv, Latest, Load, NotOlder, Counted, Open, Durable, OnFlash, Clean
  <2> QED
    BY <2>2, <2>3 DEF BootInv
<1> QED
  BY <1>1, <1>2, <1>3, <1>4, <1>5, <1>6, <1>7, <1>8, <1>9, <1>10, <1>11, <1>12 DEF BootNext

-----------------------------------------------------------------------------

LEMMA PlacesAreSteps ==
  Places \subseteq {"off", "reset", "console", "setup", "failed", "returned"} \cup Application
                   \cup {s[2] : s \in Steps}
<1>1. /\ <<"reset", "platform", TRUE>> \in Steps
      /\ <<"platform", "persistent-state", FALSE>> \in Steps
      /\ <<"persistent-state", "update-reconcile", TRUE>> \in Steps
  BY DEF Steps
<1>2. {"platform", "persistent-state", "update-reconcile"} \subseteq {s[2] : s \in Steps}
  BY <1>1
<1> QED
  BY <1>2 DEF Places, Application

\* What is trusted of the record follows from the invariant.
LEMMA InvariantRemembers ==
  ASSUME {"lost", "stale"} \subseteq BootExcused, BootInv
  PROVE  Remembers
<1>1. BootTypeOK
  <2>1. \A r \in {memory, backup, flash} : r.boots \in -1 .. MaxBoots /\ r.generation >= -1
    <3>1. ASSUME NEW r \in Copies PROVE r.boots \in -1 .. MaxBoots /\ r.generation >= -1
      BY CopyFields, EmptyFacts
    <3> QED
      BY <3>1 DEF BootInv, Types
  <2> QED
    BY <2>1, PlacesAreSteps DEF BootTypeOK, BootInv, Types
<1>2. BootPromised => Clean
  BY DEF BootPromised, Clean
<1>3. ExactPoint
  BY <1>2 DEF ExactPoint, BootInv, Latest
<1>4. FailuresCounted
  <2> SUFFICES ASSUME Clean
               PROVE  memory.failures = unhealthy + IF memory.incomplete \/ confirmed THEN 0 ELSE 1
    BY <1>2 DEF FailuresCounted
  <2>1. /\ memory.failures + Open(memory) = unhealthy + IF confirmed THEN 0 ELSE 1
        /\ confirmed => ~memory.incomplete
    BY DEF BootInv, Counted
  <2>2. memory.failures \in Nat /\ unhealthy \in Nat
    BY MemoryFacts
  <2>3. CASE memory.incomplete
    BY <2>1, <2>2, <2>3 DEF Open
  <2>4. CASE ~memory.incomplete
    BY <2>1, <2>2, <2>4 DEF Open
  <2> QED
    BY <2>3, <2>4
<1> QED
  BY <1>1, <1>3, <1>4 DEF Remembers

\* Unless a checkpoint reached no copy, or a copy was left that should have been removed, the
\* boot record can be trusted (boot_state.py): after any sequence of resets, losses of power and
\* failed writes the next boot finds the exact point the last one reached, and the record counts
\* each boot that did not become healthy once.
THEOREM RemembersHolds ==
  ASSUME {"lost", "stale"} \subseteq BootExcused
  PROVE  BootSpec => []Remembers
<1>1. BootInit => BootInv
  BY BootInitHolds
<1>2. BootInv /\ [BootNext]_bootVars => BootInv'
  BY BootNextHolds
<1>3. BootInv => Remembers
  BY InvariantRemembers
<1> QED
  BY <1>1, <1>2, <1>3, PTL DEF BootSpec

-----------------------------------------------------------------------------
(* Enrolment and renewal.                                                  *)

\* A change is saved or asked for at most once, so the bound on what is asked for bounds
\* what is saved.
Numbers ==
  /\ changes \in 0 .. MaxChanges /\ job \in BOOLEAN
  /\ latest \in 0 .. MaxChanges /\ renewing \in 0 .. MaxChanges + 1
  /\ settings.change <= changes
  /\ job => settings.change + 1 <= changes

\* Neither of the two exposures that bring an older identity back.
Untouched == "between" \notin exposed /\ "overtaken" \notin exposed

\* What carries a method and the number of a change is of an earlier change than the
\* settings, or of their method.
Follows(method, change) ==
  /\ change <= settings.change
  /\ change = settings.change => method = settings.method

\* Everything an identity may be made from follows the settings: the identity itself, the
\* enrolment on file, the monitor, and the renewal that is under way.
Choice ==
  Untouched =>
    /\ latest <= portal.change
    /\ Follows(portal.method, portal.change)
    /\ Follows("iot_ca", iot.change)
    /\ Follows(monitor.method, monitor.change)
    /\ monitor.phase = "renewing" => Follows(monitor.method, renewing)

\* The inductive invariant.
EnrolmentInv == TypeOK /\ Numbers /\ Choice

-----------------------------------------------------------------------------
(* Small facts.                                                            *)

LEMMA ListenerFacts == {"portal"} \subseteq Listener
BY DEF Listener

LEMMA UnwatchedFacts == Unwatched \subseteq {"unwatched"}
BY DEF Unwatched

\* A reload is scheduled for listeners only, and only two exposures can come of it.
LEMMA SchedulesFacts ==
  ASSUME NEW listeners \in SUBSET Listener, TypeOK, Schedules(listeners)
  PROVE  /\ reload' \subseteq Listener
         /\ exposed' \subseteq Exposure
         /\ exposed \subseteq exposed'
         /\ exposed' \subseteq exposed \cup {"unwatched", "unscheduled"}
BY UnwatchedFacts DEF Schedules, Reloads, TypeOK, Exposure

\* An enrolment that is due for a renewal has a number.
LEMMA DueEnrolment ==
  ASSUME TypeOK, iot.due, iot # NoIoT
  PROVE  iot.change \in 0 .. MaxChanges + 1
<1>1. iot = [change |-> iot.change, due |-> iot.due]
  BY DEF TypeOK
<1>2. iot.due \in BOOLEAN /\ iot.change \in -1 .. MaxChanges + 1
  BY DEF TypeOK
<1>3. iot.due = TRUE
  BY <1>2
<1>4. iot.change # -1
  BY <1>1, <1>3 DEF NoIoT
<1> QED
  BY <1>2, <1>4, EnrolmentAssumption

-----------------------------------------------------------------------------
(* Types and numbers.                                                      *)

LEMMA InitTypes == Init => TypeOK /\ Numbers
<1> SUFFICES ASSUME Init PROVE TypeOK /\ Numbers
  OBVIOUS
<1> USE EnrolmentAssumption
<1>1. PICK method \in Method :
        /\ settings = [method |-> method, change |-> 0]
        /\ portal = [method |-> method, change |-> 0]
        /\ iot = IF method = "iot_ca" THEN [change |-> 0, due |-> FALSE] ELSE NoIoT
        /\ local \in IF method \in {"self_signed", "acme"} THEN {"fresh"} ELSE {"none", "fresh"}
        /\ monitor = [method |-> method, change |-> 0, phase |-> "watching"]
  BY DEF Init
<1>2. settings \in [method : Method, change : 0 .. MaxChanges]
  BY <1>1
<1>3. portal \in [method : Method, change : 0 .. MaxChanges + 1]
  BY <1>1
<1>4. iot \in [change : -1 .. MaxChanges + 1, due : BOOLEAN]
  BY <1>1 DEF NoIoT
<1>5. local \in {"none", "fresh", "due"}
  BY <1>1
<1>6. monitor \in [method : Method, change : 0 .. MaxChanges,
                   phase : {"watching", "renewing", "renewed", "ended"}]
  BY <1>1
<1>7. stale \subseteq Listener /\ reload \subseteq Listener /\ exposed \subseteq Exposure
  BY DEF Init
<1>8. Numbers
  <2>1. settings.change = 0 /\ changes = 0 /\ latest = 0 /\ renewing = 0
    BY <1>1 DEF Init
  <2>2. job = FALSE
    BY DEF Init
  <2>3. job \in BOOLEAN /\ ~job
    BY <2>2
  <2> QED
    BY <2>1, <2>3 DEF Numbers
<1> QED
  BY <1>2, <1>3, <1>4, <1>5, <1>6, <1>7, <1>8 DEF TypeOK

LEMMA NextTypes ==
  ASSUME TypeOK, Numbers, [Next]_vars
  PROVE  TypeOK' /\ Numbers'
<1> USE EnrolmentAssumption, ListenerFacts
<1>1. CASE ChangesToSelfSigned
  <2>1. Schedules({"portal"})
    BY <1>1 DEF ChangesToSelfSigned
  <2> QED
    BY <1>1, <2>1, SchedulesFacts
    DEF ChangesToSelfSigned, Asks, Change, TypeOK, Numbers, Method
<1>2. CASE AsksEnrolment
  BY <1>2 DEF AsksEnrolment, Asks, TypeOK, Numbers
<1>3. CASE Uploads
  <2>1. PICK listeners \in {{"portal"}, Listener} :
          /\ stale' = stale \cup listeners
          /\ \/ Schedules(listeners)
             \/ reload' = reload /\ exposed' = exposed \cup Unwatched \cup {"postponed"}
    BY <1>3 DEF Uploads
  <2>2. listeners \in SUBSET Listener
    OBVIOUS
  <2>3. stale' \subseteq Listener /\ reload' \subseteq Listener /\ exposed' \subseteq Exposure
    <3>1. CASE Schedules(listeners)
      BY <2>1, <2>2, <3>1, SchedulesFacts DEF TypeOK
    <3>2. CASE reload' = reload /\ exposed' = exposed \cup Unwatched \cup {"postponed"}
      BY <2>1, <2>2, <3>2, UnwatchedFacts DEF TypeOK, Exposure
    <3> QED
      BY <2>1, <3>1, <3>2
  <2> QED
    BY <1>3, <2>3 DEF Uploads, Asks, Change, TypeOK, Numbers, Method
<1>4. CASE SavesAcme
  <2>1. PICK method \in {"acme", "manual"} : settings' = SettingsAfter(method)
    BY <1>4 DEF SavesAcme
  <2> QED
    BY <1>4, <2>1, UnwatchedFacts
    DEF SavesAcme, SettingsAfter, Asks, Change, TypeOK, Numbers, Method, Exposure
<1>5. CASE Enrolled
  <2>1. Schedules(Listener)
    BY <1>5 DEF Enrolled
  <2>2. job' = FALSE
    BY <1>5 DEF Enrolled
  <2>3. Change <= changes /\ Change \in 0 .. MaxChanges
    BY <1>5 DEF Enrolled, Change, TypeOK, Numbers
  <2>4. TypeOK'
    BY <1>5, <2>1, <2>3, SchedulesFacts DEF Enrolled, SettingsAfter, TypeOK, Method
  <2>5. settings'.change = Change /\ latest' = Change
    BY <1>5 DEF Enrolled, SettingsAfter
  <2> QED
    BY <1>5, <2>2, <2>3, <2>4, <2>5 DEF Enrolled, Numbers
<1>6. CASE EnrolledUnsaved
  <2>1. job' = FALSE
    BY <1>6 DEF EnrolledUnsaved
  <2>2. Change \in 0 .. MaxChanges
    BY <1>6 DEF EnrolledUnsaved, Change, TypeOK, Numbers
  <2>3. portal' \in [method : Method, change : 0 .. MaxChanges + 1]
    BY <1>6, <2>2 DEF EnrolledUnsaved, Method
  <2>4. iot' \in [change : -1 .. MaxChanges + 1, due : BOOLEAN]
    BY <1>6, <2>2 DEF EnrolledUnsaved
  <2>5. TypeOK'
    BY <1>6, <2>3, <2>4 DEF EnrolledUnsaved, TypeOK, Exposure
  <2> QED
    BY <1>6, <2>1, <2>5 DEF EnrolledUnsaved, Numbers
<1>7. CASE EnrolmentFails
  BY <1>7 DEF EnrolmentFails, TypeOK, Numbers
<1>8. CASE RenewalBegins
  <2>1. renewing' \in 0 .. MaxChanges + 1
    BY <1>8, DueEnrolment DEF RenewalBegins, Due, TypeOK
  <2>2. monitor' \in [method : Method, change : 0 .. MaxChanges,
                      phase : {"watching", "renewing", "renewed", "ended"}]
    BY <1>8 DEF RenewalBegins, TypeOK
  <2> QED
    BY <1>8, <2>1, <2>2 DEF RenewalBegins, TypeOK, Numbers
<1>9. CASE RenewalFails
  BY <1>9 DEF RenewalFails, TypeOK, Numbers
<1>10. ASSUME NEW change \in 0 .. MaxChanges + 1, Installs(change)
       PROVE  TypeOK' /\ Numbers'
  <2>1. stale' \subseteq Listener /\ exposed' \subseteq Exposure
    BY <1>10 DEF Installs, TypeOK, Exposure
  <2>2. /\ iot' \in [change : -1 .. MaxChanges + 1, due : BOOLEAN]
        /\ local' \in {"none", "fresh", "due"}
    <3>1. CASE monitor.method = "iot_ca"
      <4>1. iot' = [change |-> change, due |-> FALSE] /\ local' = local
        BY <1>10, <3>1 DEF Installs
      <4>2. change \in -1 .. MaxChanges + 1
        OBVIOUS
      <4> QED
        BY <4>1, <4>2 DEF TypeOK
    <3>2. CASE monitor.method # "iot_ca"
      BY <1>10, <3>2 DEF Installs, TypeOK
    <3> QED
      BY <3>1, <3>2
  <2>3. monitor' \in [method : Method, change : 0 .. MaxChanges,
                      phase : {"watching", "renewing", "renewed", "ended"}]
    BY <1>10 DEF Installs, TypeOK
  <2>4. portal' \in [method : Method, change : 0 .. MaxChanges + 1]
    BY <1>10 DEF Installs, TypeOK
  <2> QED
    BY <1>10, <2>1, <2>2, <2>3, <2>4 DEF Installs, TypeOK, Numbers
<1>11. CASE Renewed
  BY <1>10, <1>11 DEF Renewed, Numbers
<1>12. CASE RenewsSelfSigned
  <2>1. monitor.change \in 0 .. MaxChanges + 1
    BY DEF TypeOK
  <2> QED
    BY <1>10, <1>12, <2>1 DEF RenewsSelfSigned
<1>13. CASE MonitorEnds
  <2>1. Schedules(IF monitor.method = "iot_ca" THEN Listener ELSE {"portal"})
    BY <1>13 DEF MonitorEnds
  <2>2. reload' \subseteq Listener /\ exposed' \subseteq Exposure
    BY <2>1, SchedulesFacts
  <2> QED
    BY <1>13, <2>2 DEF MonitorEnds, TypeOK, Numbers
<1>14. CASE Ages
  <2>1. /\ iot' \in [change : -1 .. MaxChanges + 1, due : BOOLEAN]
        /\ local' \in {"none", "fresh", "due"}
    BY <1>14 DEF Ages, TypeOK
  <2> QED
    BY <1>14, <2>1, UnwatchedFacts DEF Ages, TypeOK, Numbers, Exposure
<1>15. CASE Restart
  <2>1. monitor' \in [method : Method, change : 0 .. MaxChanges,
                      phase : {"watching", "renewing", "renewed", "ended"}]
    BY <1>15 DEF Restart, MonitorOf, TypeOK
  <2>2. TypeOK'
    BY <1>15, <2>1 DEF Restart, TypeOK
  <2>3. job' \in BOOLEAN /\ ~job'
    BY <1>15 DEF Restart
  <2>4. /\ settings' = settings /\ changes' = changes /\ latest' = latest
        /\ renewing' = 0
    BY <1>15 DEF Restart
  <2> QED
    BY <2>2, <2>3, <2>4 DEF Numbers
<1>16. CASE CrashBetween
  <2>1. \/ job /\ changes' = changes
        \/ changes < MaxChanges /\ changes' = changes + 1
    BY <1>16 DEF CrashBetween, Asks
  <2>2. Change \in 0 .. MaxChanges /\ changes' \in changes .. MaxChanges
    BY <2>1 DEF Change, TypeOK, Numbers
  <2>3. portal' \in [method : Method, change : 0 .. MaxChanges + 1]
    BY <1>16, <2>2 DEF CrashBetween, Method
  <2>4. iot' \in [change : -1 .. MaxChanges + 1, due : BOOLEAN]
    <3>1. iot' = iot \/ iot' = [change |-> Change, due |-> FALSE]
      BY <1>16 DEF CrashBetween
    <3>2. Change \in -1 .. MaxChanges + 1
      BY <2>2
    <3>3. CASE iot' = iot
      BY <3>3 DEF TypeOK
    <3>4. CASE iot' = [change |-> Change, due |-> FALSE]
      BY <3>2, <3>4
    <3> QED
      BY <3>1, <3>3, <3>4
  <2>5. local' \in {"none", "fresh", "due"}
    BY <1>16 DEF CrashBetween, TypeOK
  <2>6. monitor' \in [method : Method, change : 0 .. MaxChanges,
                      phase : {"watching", "renewing", "renewed", "ended"}]
    BY <1>16 DEF CrashBetween, MonitorOf, TypeOK
  <2>7. TypeOK'
    BY <1>16, <2>3, <2>4, <2>5, <2>6 DEF CrashBetween, TypeOK, Exposure
  <2>8. job' \in BOOLEAN /\ ~job'
    BY <1>16 DEF CrashBetween
  <2>9. settings' = settings /\ latest' = latest /\ renewing' = 0
    BY <1>16 DEF CrashBetween
  <2> QED
    BY <2>2, <2>7, <2>8, <2>9 DEF TypeOK, Numbers
<1>17. ASSUME NEW l \in Listener, ReloadRuns(l) PROVE TypeOK' /\ Numbers'
  BY <1>17 DEF ReloadRuns, TypeOK, Numbers
<1>18. CASE UNCHANGED vars
  BY <1>18 DEF vars, TypeOK, Numbers
<1> QED
  BY <1>1, <1>2, <1>3, <1>4, <1>5, <1>6, <1>7, <1>8, <1>9, <1>11, <1>12, <1>13, <1>14, <1>15,
     <1>16, <1>17, <1>18 DEF Next, Owner, Job, Monitor

\* The certificate settings, the identity and the tasks keep their types
\* (certificate_manager.py, iot_ca_enrollment.py), and a change is saved at most once.
THEOREM TypeCorrect == Spec => []TypeOK
<1>1. TypeOK /\ Numbers /\ [Next]_vars => (TypeOK /\ Numbers)'
  BY NextTypes
<1> QED
  BY InitTypes, <1>1, PTL DEF Spec

-----------------------------------------------------------------------------
(* The owner's choice.                                                     *)

LEMMA InitChoice == Init => Choice
<1> SUFFICES ASSUME Init PROVE Choice
  OBVIOUS
<1>1. PICK method \in Method :
        /\ settings = [method |-> method, change |-> 0]
        /\ portal = [method |-> method, change |-> 0]
        /\ iot = IF method = "iot_ca" THEN [change |-> 0, due |-> FALSE] ELSE NoIoT
        /\ monitor = [method |-> method, change |-> 0, phase |-> "watching"]
  BY DEF Init
<1> QED
  BY <1>1 DEF Init, Choice, Follows, NoIoT

LEMMA NextChoice ==
  ASSUME EnrolmentInv, [Next]_vars
  PROVE  Choice'
<1> USE EnrolmentAssumption, ListenerFacts DEF EnrolmentInv
<1> SUFFICES ASSUME Untouched'
             PROVE  /\ latest' <= portal'.change
                    /\ Follows(portal.method, portal.change)'
                    /\ Follows("iot_ca", iot.change)'
                    /\ Follows(monitor.method, monitor.change)'
                    /\ (monitor.phase = "renewing" => Follows(monitor.method, renewing))'
  BY DEF Choice
<1>0. /\ settings.change \in Nat /\ portal.change \in Nat /\ iot.change \in Int
      /\ monitor.change \in Nat /\ renewing \in Nat /\ latest \in Nat
  BY DEF TypeOK, Numbers
\* A change of the owner's: everything that stays is of an earlier one.
<1>1. CASE ChangesToSelfSigned
  <2>1. Schedules({"portal"})
    BY <1>1 DEF ChangesToSelfSigned
  <2>2. Untouched
    BY <2>1, SchedulesFacts DEF Untouched
  <2> QED
    BY <1>0, <1>1, <2>2 DEF ChangesToSelfSigned, Change, Choice, Follows
<1>2. CASE AsksEnrolment
  BY <1>0, <1>2 DEF AsksEnrolment, Choice, Follows, Untouched
<1>3. CASE Uploads
  <2>1. PICK listeners \in {{"portal"}, Listener} :
          \/ Schedules(listeners)
          \/ reload' = reload /\ exposed' = exposed \cup Unwatched \cup {"postponed"}
    BY <1>3 DEF Uploads
  <2>2. exposed \subseteq exposed'
    BY <2>1, SchedulesFacts
  <2>3. Untouched
    BY <2>2 DEF Untouched
  <2> QED
    BY <1>0, <1>3, <2>3 DEF Uploads, Change, Choice, Follows
<1>4. CASE SavesAcme
  <2>1. PICK method \in {"acme", "manual"} : settings' = SettingsAfter(method)
    BY <1>4 DEF SavesAcme
  <2>2. Untouched
    BY <1>4 DEF SavesAcme, Untouched
  <2> QED
    BY <1>0, <1>4, <2>1, <2>2 DEF SavesAcme, SettingsAfter, Change, Choice, Follows
<1>5. CASE Enrolled
  <2>1. Schedules(Listener)
    BY <1>5 DEF Enrolled
  <2>2. Untouched
    BY <2>1, SchedulesFacts DEF Untouched
  <2> QED
    BY <1>0, <1>5, <2>2 DEF Enrolled, SettingsAfter, Change, Choice, Follows
<1>6. CASE EnrolledUnsaved
  BY <1>6 DEF EnrolledUnsaved, Untouched
<1>7. CASE EnrolmentFails
  BY <1>0, <1>7 DEF EnrolmentFails, Choice, Follows, Untouched
\* The monitor begins with an enrolment or settings that follow, and installs what it
\* began with.
<1>8. CASE RenewalBegins
  <2>1. Untouched
    BY <1>8 DEF RenewalBegins, Untouched
  <2>2. monitor'.method = monitor.method /\ monitor'.change = monitor.change
    BY <1>8 DEF RenewalBegins, TypeOK
  <2>3. Follows(monitor.method, renewing)'
    BY <1>0, <1>8, <2>1, <2>2 DEF RenewalBegins, Choice, Follows
  <2> QED
    BY <1>0, <1>8, <2>1, <2>2, <2>3 DEF RenewalBegins, Choice, Follows
<1>9. CASE RenewalFails
  <2>1. /\ monitor'.method = monitor.method /\ monitor'.change = monitor.change
        /\ monitor'.phase = "watching"
    BY <1>9 DEF RenewalFails, TypeOK
  <2> QED
    BY <1>0, <1>9, <2>1 DEF RenewalFails, Choice, Follows, Untouched
<1>10. ASSUME NEW change \in Nat, Installs(change), Untouched => Follows(monitor.method, change)
       PROVE  /\ latest' <= portal'.change
              /\ Follows(portal.method, portal.change)'
              /\ Follows("iot_ca", iot.change)'
              /\ Follows(monitor.method, monitor.change)'
              /\ (monitor.phase = "renewing" => Follows(monitor.method, renewing))'
  <2>1. Untouched /\ ~(change < latest)
    BY <1>10 DEF Installs, Untouched
  <2>2. /\ monitor'.method = monitor.method /\ monitor'.change = monitor.change
        /\ monitor'.phase = "renewed"
    BY <1>10 DEF Installs, TypeOK
  <2>3. portal'.method = monitor.method /\ portal'.change = change
    BY <1>10 DEF Installs
  <2>4. settings' = settings /\ latest' = latest
    BY <1>10 DEF Installs
  <2>5. iot'.change = iot.change \/ (monitor.method = "iot_ca" /\ iot'.change = change)
    BY <1>10 DEF Installs
  <2> QED
    BY <1>0, <1>10, <2>1, <2>2, <2>3, <2>4, <2>5 DEF Choice, Follows
<1>11. CASE Renewed
  BY <1>0, <1>10, <1>11 DEF Renewed, Choice
<1>12. CASE RenewsSelfSigned
  BY <1>0, <1>10, <1>12 DEF RenewsSelfSigned, Choice
<1>13. CASE MonitorEnds
  <2>1. Schedules(IF monitor.method = "iot_ca" THEN Listener ELSE {"portal"})
    BY <1>13 DEF MonitorEnds
  <2>2. Untouched
    BY <2>1, SchedulesFacts DEF Untouched
  <2>3. /\ monitor'.method = monitor.method /\ monitor'.change = monitor.change
        /\ monitor'.phase = "ended"
    BY <1>13 DEF MonitorEnds, TypeOK
  <2> QED
    BY <1>0, <1>13, <2>2, <2>3 DEF MonitorEnds, Choice, Follows
<1>14. CASE Ages
  <2>1. iot'.change = iot.change
    BY <1>14 DEF Ages, TypeOK
  <2>2. Untouched
    BY <1>14 DEF Ages, Untouched
  <2> QED
    BY <1>0, <1>14, <2>1, <2>2 DEF Ages, Choice, Follows
\* The monitor of the next start is that of the settings.
<1>15. CASE Restart
  BY <1>0, <1>15 DEF Restart, MonitorOf, Choice, Follows, Untouched
<1>16. CASE CrashBetween
  BY <1>16 DEF CrashBetween, Untouched
<1>17. ASSUME NEW l \in Listener, ReloadRuns(l) PROVE Choice'
  BY <1>17 DEF ReloadRuns, Choice, Follows, Untouched
<1>18. CASE UNCHANGED vars
  BY <1>18 DEF vars, Choice, Follows, Untouched
<1> QED
  BY <1>1, <1>2, <1>3, <1>4, <1>5, <1>6, <1>7, <1>8, <1>9, <1>11, <1>12, <1>13, <1>14, <1>15,
     <1>16, <1>17, <1>18 DEF Next, Owner, Job, Monitor, Choice

LEMMA ChoiceKeeps ==
  ASSUME {"between", "overtaken"} \subseteq Excused, EnrolmentInv
  PROVE  KeepsChoice
<1> SUFFICES ASSUME Promised
             PROVE  /\ portal.change \in latest .. settings.change
                    /\ portal.change = settings.change => portal.method = settings.method
  BY DEF KeepsChoice
<1>1. Untouched
  BY DEF Promised, Untouched
<1>2. latest \in Int /\ settings.change \in Int /\ portal.change \in Int
  BY DEF EnrolmentInv, TypeOK, Numbers
<1> QED
  BY <1>1, <1>2 DEF EnrolmentInv, Choice, Follows

\* Unless power fails between an identity and its method, or an older renewal overtakes a
\* later enrolment, the portal has the identity of the owner's last change: no restart, no
\* failed enrolment, no renewal that was under way (iot_ca_enrollment.py:445-510,
\* certificate_lifecycle.py) brings back what was replaced.
THEOREM KeepsChoiceHolds ==
  ASSUME {"between", "overtaken"} \subseteq Excused
  PROVE  Spec => []KeepsChoice
<1>1. Init => EnrolmentInv
  BY InitTypes, InitChoice DEF EnrolmentInv
<1>2. EnrolmentInv /\ [Next]_vars => EnrolmentInv'
  BY NextTypes, NextChoice DEF EnrolmentInv
<1>3. EnrolmentInv => KeepsChoice
  BY ChoiceKeeps
<1> QED
  BY <1>1, <1>2, <1>3, PTL DEF Spec

-----------------------------------------------------------------------------
(* The modules.                                                            *)

Preview == [doc : Docs, over : Docs, age : Int, late : BOOLEAN]

\* What is stored, and what may be, has passed the portal's checks, but for half a backup.
Accepted ==
  /\ \A k \in Kinds : Acceptable(pending[k].doc.plan)
  /\ gaps \cap {"incomplete", "halfway"} = {} =>
       \A d \in {document, earlier} : Acceptable(d.plan) /\ Complete(d.plan)

\* What runs has passed those of the start.
Admitted ==
  /\ main # "on" => works = {}
  /\ main = "on" => Acceptable(loaded.plan)
  /\ (main = "on" /\ "undeclared" \notin gaps) => ~Undeclared(loaded.plan)

ModInv ==
  /\ ModTypeOK /\ pending \in [Kinds -> Preview] /\ Accepted /\ Admitted
  /\ CompleteStarts /\ StoredIsRunning

-----------------------------------------------------------------------------
\* No modules are no trouble.
LEMMA EmptyPlan ==
  /\ << >> \in Plan /\ Acceptable(<< >>) /\ Complete(<< >>) /\ ~Undeclared(<< >>)
BY PlanAssumption
DEF Acceptable, Packaged, Distinct, Reservable, Claims, Complete, Undeclared

LEMMA Documents ==
  /\ \A p \in Plan : \A c \in -1 .. MaxSaves :
       Doc(p, c) \in Docs /\ Doc(p, c).plan = p /\ Doc(p, c).calibration = c
  /\ \A d \in Docs : d = Doc(d.plan, d.calibration) /\ d.plan \in Plan
                     /\ d.calibration \in -1 .. MaxSaves
  /\ Missing \in Docs /\ NoModules \in Docs /\ Missing.plan = << >> /\ NoModules.plan = << >>
  /\ ~IsFile(Missing) /\ IsFile(NoModules) /\ Missing # NoModules
  /\ MaxSaves \in Nat
<1>1. MaxSaves \in Nat /\ -1 \in -1 .. MaxSaves /\ 0 \in -1 .. MaxSaves
  BY ModBounds
<1>2. \A p \in Plan : \A c \in -1 .. MaxSaves :
        Doc(p, c) \in Docs /\ Doc(p, c).plan = p /\ Doc(p, c).calibration = c
  BY DEF Docs, Doc
<1>3. \A d \in Docs : d = Doc(d.plan, d.calibration) /\ d.plan \in Plan
                       /\ d.calibration \in -1 .. MaxSaves
  <2> SUFFICES ASSUME NEW d \in Docs
               PROVE  /\ d = Doc(d.plan, d.calibration) /\ d.plan \in Plan
                      /\ d.calibration \in -1 .. MaxSaves
    OBVIOUS
  <2>1. PICK p \in Plan, c \in -1 .. MaxSaves : d = Doc(p, c)
    BY DEF Docs
  <2> QED
    BY <1>2, <2>1
<1>4. /\ Missing = Doc(<< >>, -1) /\ NoModules = Doc(<< >>, 0)
      /\ Missing.calibration = -1 /\ NoModules.calibration = 0
  BY DEF Missing, NoModules, Doc
<1>5. Missing \in Docs /\ NoModules \in Docs
  BY <1>1, <1>2, <1>4, EmptyPlan
<1>6. Missing.plan = << >> /\ NoModules.plan = << >>
  BY DEF Missing, NoModules, Doc
<1> QED
  BY <1>1, <1>2, <1>3, <1>4, <1>5, <1>6 DEF IsFile

LEMMA Previews ==
  /\ NoPreview \in Preview /\ NoPreview.doc.plan = << >>
  /\ [k \in Kinds |-> NoPreview] \in [Kinds -> Preview]
BY Documents DEF Preview, NoPreview

\* What two modules that were accepted both touch is shared by both.
LEMMA Owners ==
  ASSUME NEW p \in Plan, Acceptable(p), ~Undeclared(p), NEW i \in DOMAIN p, NEW j \in DOMAIN p,
         i # j, NEW key \in p[i].touches \cap p[j].touches
  PROVE  /\ \E a \in DOMAIN p[i].claims : p[i].claims[a].key = key /\ p[i].claims[a].shared
         /\ \E b \in DOMAIN p[j].claims : p[j].claims[b].key = key /\ p[j].claims[b].shared
<1>1. PICK a \in DOMAIN p[i].claims : p[i].claims[a].key = key
  BY DEF Undeclared
<1>2. PICK b \in DOMAIN p[j].claims : p[j].claims[b].key = key
  BY DEF Undeclared
<1>3. <<i, a>> \in Claims(p) /\ <<j, b>> \in Claims(p) /\ <<i, a>> # <<j, b>>
  BY DEF Claims
<1>4. ~Clash(p[i].claims[a], p[j].claims[b])
  BY <1>3 DEF Acceptable, Reservable, ClaimAt
<1> QED
  BY <1>1, <1>2, <1>4 DEF Clash

LEMMA Exclusive == ModInv => OwnersAreExclusive
<1> SUFFICES ASSUME ModInv, "undeclared" \notin gaps, NEW i \in works, NEW j \in works, i # j,
                    NEW key \in loaded.plan[i].touches \cap loaded.plan[j].touches
             PROVE  LET Shares(k) == \E a \in DOMAIN loaded.plan[k].claims :
                          loaded.plan[k].claims[a].key = key /\ loaded.plan[k].claims[a].shared
                    IN  Shares(i) /\ Shares(j)
  BY DEF OwnersAreExclusive
<1>1. main = "on" /\ i \in DOMAIN loaded.plan /\ j \in DOMAIN loaded.plan
  BY DEF ModInv, ModTypeOK, Admitted
<1>2. loaded.plan \in Plan
  BY Documents DEF ModInv, ModTypeOK
<1> QED
  BY <1>1, <1>2, Owners DEF ModInv, Admitted

-----------------------------------------------------------------------------
LEMMA ModInitHolds == ModInit => ModInv
<1> SUFFICES ASSUME ModInit
             PROVE  ModInv
  OBVIOUS
<1>1. ModTypeOK
  <2>1. {document, earlier, loaded, wanted} \subseteq Docs
    BY Documents DEF ModInit
  <2>2. saves \in 0 .. MaxSaves
    BY Documents DEF ModInit
  <2> QED
    BY <2>1, <2>2 DEF ModInit, ModTypeOK
<1>2. pending \in [Kinds -> Preview] /\ \A k \in Kinds : pending[k].doc.plan = << >>
  BY Previews DEF ModInit
<1>3. Accepted
  BY <1>2, Documents, EmptyPlan DEF ModInit, Accepted
<1> QED
  BY <1>1, <1>2, <1>3
  DEF ModInit, ModInv, Admitted, CompleteStarts, SavedStarts, StoredIsRunning

LEMMA StartsHold ==
  ASSUME ModInv, Starts
  PROVE  ModInv'
<1>1. /\ document \in Docs /\ earlier \in Docs /\ pending' = pending /\ earlier' = earlier
      /\ marked' = marked /\ saves' = saves
  BY DEF Starts, ModInv, ModTypeOK
<1>2. Current(document) \in Docs /\ Current(earlier) \in Docs
  BY <1>1, Documents DEF Current
<1>3. /\ document' \in {document, earlier} /\ loaded' \in Docs /\ wanted' \in Docs
      /\ loaded' = Current(document')
  BY <1>1, <1>2, Documents DEF Starts, Loads, Current
<1>4. /\ main' = IF Acceptable(loaded'.plan) /\ Complete(loaded'.plan) THEN "on" ELSE "failed"
      /\ main' = "on" => works' \subseteq SetUpAble(loaded'.plan)
      /\ main' # "on" => works' = {}
  BY DEF Starts, SetsUp
<1>5. /\ gaps \subseteq gaps' /\ gaps' \subseteq gaps \cup {"undeclared", "unreadable"}
      /\ Undeclared(loaded'.plan) => "undeclared" \in gaps'
  BY DEF Starts
<1>6. ModTypeOK'
  <2>1. main' \in {"off", "on", "failed"} /\ works' \subseteq DOMAIN loaded'.plan
    BY <1>4 DEF SetUpAble
  <2> QED
    BY <1>1, <1>3, <1>5, <2>1 DEF ModInv, ModTypeOK
<1>7. gaps \cap {"incomplete", "halfway"} = {} =>
        Acceptable(loaded'.plan) /\ Complete(loaded'.plan)
  BY <1>3, EmptyPlan, Documents DEF ModInv, Accepted, Current
<1>8. Accepted'
  BY <1>1, <1>3, <1>5 DEF ModInv, Accepted
<1>9. Admitted'
  BY <1>4, <1>5 DEF Admitted
<1>10. CompleteStarts'
  BY <1>4, <1>5, <1>7 DEF CompleteStarts, SavedStarts
<1>11. StoredIsRunning'
  BY <1>3 DEF StoredIsRunning
<1> QED
  BY <1>1, <1>6, <1>8, <1>9, <1>10, <1>11 DEF ModInv

\* A stop leaves what is stored, whichever step of a write it came after.
LEMMA StopsHold ==
  ASSUME ModInv, StopsApplication, document' \in {document, Missing},
         earlier' \in {earlier, document, Missing}, saves' \in saves .. MaxSaves,
         UNCHANGED <<loaded, wanted, gaps>>
  PROVE  ModInv'
<1>1. ModTypeOK'
  <2>1. saves' \in 0 .. MaxSaves
    BY DEF ModInv, ModTypeOK
  <2>2. {document', earlier', loaded', wanted'} \subseteq Docs
    BY Documents DEF ModInv, ModTypeOK
  <2> QED
    BY <2>1, <2>2 DEF ModInv, ModTypeOK, StopsApplication
<1>2. Accepted'
  BY Documents, Previews, EmptyPlan DEF ModInv, Accepted, StopsApplication
<1> QED
  BY <1>1, <1>2, Previews
  DEF ModInv, Admitted, CompleteStarts, SavedStarts, StoredIsRunning, StopsApplication

\* A save that fails and is undone.
LEMMA RefusesHold ==
  ASSUME ModInv, Refuses, saves' \in saves .. MaxSaves
  PROVE  ModInv'
<1>1. ModTypeOK'
  BY Documents DEF ModInv, ModTypeOK, Refuses, SaveFails
<1>2. Accepted'
  BY Documents, EmptyPlan DEF ModInv, Accepted, Refuses, SaveFails
<1> QED
  BY <1>1, <1>2
  DEF ModInv, Admitted, CompleteStarts, SavedStarts, StoredIsRunning, Refuses, SaveFails

\* A document that was accepted is stored while the application is on.
LEMMA CommitsHold ==
  ASSUME ModInv, NEW doc \in Docs, main = "on", main' = "on", Commits(doc),
         saves' \in saves .. MaxSaves, loaded' \in Docs, loaded'.plan = loaded.plan,
         works' = works, wanted' \in Docs, marked' \in BOOLEAN, pending' \in [Kinds -> Preview],
         \A k \in Kinds : pending'[k] \in {pending[k], NoPreview},
         gaps \subseteq gaps', gaps' \subseteq gaps \cup {"incomplete", "stale", "halfway"},
         \/ "halfway" \in gaps'
         \/ /\ gaps \cap {"incomplete", "halfway"} = {} => Acceptable(doc.plan)
            /\ Complete(doc.plan) \/ "incomplete" \in gaps'
            /\ marked' \/ gaps \cap {"halfway", "unreadable"} # {} \/ loaded' = Current(doc)
  PROVE  ModInv'
<1>1. ModTypeOK'
  BY Documents DEF ModInv, ModTypeOK, Commits
<1>2. Accepted'
  <2>1. \A k \in Kinds : Acceptable(pending'[k].doc.plan)
    BY Previews, EmptyPlan DEF ModInv, Accepted
  <2> QED
    BY <2>1 DEF ModInv, Accepted, Commits
<1>3. Admitted'
  BY DEF ModInv, Admitted
<1>4. StoredIsRunning'
  BY DEF StoredIsRunning, Commits
<1> QED
  BY <1>1, <1>2, <1>3, <1>4 DEF ModInv, CompleteStarts, SavedStarts

LEMMA SavesHold ==
  ASSUME ModInv, NEW p \in Plan, SavesModules(p)
  PROVE  ModInv'
<1> DEFINE doc == Doc(p, Current(document).calibration)
<1>1. /\ main = "on" /\ Acceptable(p) /\ saves' = saves + 1 /\ saves < MaxSaves
      /\ saves \in 0 .. MaxSaves /\ document \in Docs
  BY DEF SavesModules, ModInv, ModTypeOK
<1>2. saves' \in saves .. MaxSaves
  BY <1>1, ModBounds
<1>3. doc \in Docs /\ doc.plan = p
  BY <1>1, Documents DEF Current
<1>4. CASE Refuses
  BY <1>2, <1>4, RefusesHold
<1>5. CASE CutShort
  BY <1>2, <1>5, StopsHold DEF CutShort, SaveFails
<1>6. CASE /\ Commits(doc) /\ Marked /\ wanted' = doc /\ Stored(doc, {})
           /\ UNCHANGED <<pending, main, loaded, works>>
  <2>1. /\ gaps \subseteq gaps' /\ gaps' \subseteq gaps \cup {"incomplete", "stale", "halfway"}
        /\ Complete(doc.plan) \/ "incomplete" \in gaps'
    BY <1>6 DEF Stored
  <2> HIDE DEF doc
  <2> QED
    BY <1>1, <1>2, <1>3, <1>6, <2>1, CommitsHold DEF Marked, ModInv, ModTypeOK
<1> QED
  BY <1>4, <1>5, <1>6 DEF SavesModules

LEMMA CalibratesHold ==
  ASSUME ModInv, Calibrates
  PROVE  ModInv'
<1> DEFINE doc == Doc(document.plan, saves + 1)
<1>1. /\ main = "on" /\ saves' = saves + 1 /\ saves < MaxSaves
      /\ saves \in 0 .. MaxSaves /\ document \in Docs /\ loaded \in Docs
  BY DEF Calibrates, ModInv, ModTypeOK
<1>2. saves' \in saves .. MaxSaves /\ saves + 1 \in -1 .. MaxSaves /\ saves + 1 >= 0
  BY <1>1, ModBounds
<1>3. doc \in Docs /\ doc.plan = document.plan /\ Current(doc) = doc
  BY <1>1, <1>2, Documents DEF Current, IsFile
<1>4. CASE Refuses
  BY <1>2, <1>4, RefusesHold
<1>5. CASE CutShort
  BY <1>2, <1>5, StopsHold DEF CutShort, SaveFails
<1>6. CASE /\ IsFile(document) /\ Commits(doc)
           /\ loaded' = Doc(loaded.plan, saves + 1) /\ wanted' = doc
           /\ Stored(doc, {}) /\ UNCHANGED <<pending, main, works, marked>>
  <2>1. /\ gaps \subseteq gaps' /\ gaps' \subseteq gaps \cup {"incomplete", "stale", "halfway"}
        /\ Complete(doc.plan) \/ "incomplete" \in gaps'
    BY <1>6 DEF Stored
  <2>2. loaded' \in Docs /\ loaded'.plan = loaded.plan
    BY <1>1, <1>2, <1>6, Documents
  <2>3. marked \/ gaps \cap {"halfway", "unreadable"} # {} \/ loaded' = doc
    <3>1. ASSUME loaded = Current(document)
          PROVE  loaded' = doc
      BY <1>6, <3>1 DEF Current
    <3> QED
      BY <1>1, <3>1 DEF ModInv, StoredIsRunning
  <2>4. gaps \cap {"incomplete", "halfway"} = {} => Acceptable(doc.plan)
    BY <1>3 DEF ModInv, Accepted
  <2> HIDE DEF doc
  <2> QED
    BY <1>1, <1>2, <1>3, <1>6, <2>1, <2>2, <2>3, <2>4, CommitsHold DEF ModInv, ModTypeOK
<1> QED
  BY <1>4, <1>5, <1>6 DEF Calibrates

\* A preview changes nothing that is stored or runs.
LEMMA LooksHold ==
  ASSUME ModInv, pending' \in [Kinds -> Preview],
         \A k \in Kinds : Acceptable(pending'[k].doc.plan),
         gaps \subseteq gaps', gaps' \subseteq gaps \cup {"wrapped"},
         UNCHANGED <<document, earlier, main, loaded, works, marked, wanted, saves>>
  PROVE  ModInv'
<1>1. ModTypeOK'
  BY DEF ModInv, ModTypeOK
<1>2. Accepted' /\ Admitted'
  BY DEF ModInv, Accepted, Admitted
<1> QED
  BY <1>1, <1>2 DEF ModInv, CompleteStarts, SavedStarts, StoredIsRunning

LEMMA ShowsHold ==
  ASSUME ModInv, NEW k \in Kinds, NEW p \in Plan, Shows(k, p)
  PROVE  ModInv'
<1> DEFINE preview == [doc |-> Doc(p, 0), over |-> ShownAgainst, age |-> 0, late |-> FALSE]
<1>1. ShownAgainst \in Docs
  BY Documents DEF ShownAgainst, Current, ModInv, ModTypeOK
<1>2. Doc(p, 0) \in Docs /\ Doc(p, 0).plan = p
  BY Documents
<1>3. preview \in Preview /\ preview.doc.plan = p
  BY <1>1, <1>2 DEF Preview
<1>4. pending' = [pending EXCEPT ![k] = preview] /\ Acceptable(p)
  BY DEF Shows
<1> HIDE DEF preview
<1>5. /\ pending' \in [Kinds -> Preview]
      /\ \A j \in Kinds : Acceptable(pending'[j].doc.plan)
  BY <1>3, <1>4 DEF ModInv, Accepted
<1> QED
  BY <1>5, LooksHold DEF Shows

LEMMA TimeHolds ==
  ASSUME ModInv, Time
  PROVE  ModInv'
<1>1. Period \in Nat /\ Period > 0
  BY ModBounds
<1>2. ASSUME NEW k \in Kinds
      PROVE  pending'[k] \in Preview /\ pending'[k].doc = pending[k].doc
  <2>1. CASE pending[k] = NoPreview
    BY <1>2, <2>1, Previews DEF Time
  <2>2. CASE pending[k] # NoPreview
    <3>1. /\ pending[k] \in Preview
          /\ pending'[k] = [pending[k] EXCEPT !.age = (@ + 1) % Period,
                                              !.late = @ \/ pending[k].age >= Expiry]
      BY <1>2, <2>2 DEF ModInv, Time
    <3>2. (pending[k].age + 1) % Period \in Int
      BY <1>1, <3>1 DEF Preview
    <3> QED
      BY <3>1, <3>2 DEF Preview
  <2> QED
    BY <2>1, <2>2
<1>3. pending' \in [Kinds -> Preview]
  BY <1>2 DEF Time
<1>4. \A k \in Kinds : Acceptable(pending'[k].doc.plan)
  BY <1>2 DEF ModInv, Accepted
<1> QED
  BY <1>3, <1>4, LooksHold DEF Time, Happened

LEMMA AppliesHold ==
  ASSUME ModInv, NEW k \in Kinds, main = "on", saves < MaxSaves, saves' = saves + 1,
         \/ Restores(k) \/ Refuses \/ CutShort
         \/ /\ Commits(pending[k].doc) /\ gaps' = gaps \cup {"halfway"}
            /\ UNCHANGED <<pending, main, loaded, works, marked, wanted>>
  PROVE  ModInv'
<1>1. saves' \in saves .. MaxSaves
  BY ModBounds DEF ModInv, ModTypeOK
<1>2. pending[k].doc \in Docs /\ Acceptable(pending[k].doc.plan)
  BY DEF ModInv, Preview, Accepted
<1>3. CASE Refuses
  BY <1>1, <1>3, RefusesHold
<1>4. CASE CutShort
  BY <1>1, <1>4, StopsHold DEF CutShort, SaveFails
<1>5. CASE Restores(k)
  <2>1. /\ gaps \subseteq gaps' /\ gaps' \subseteq gaps \cup {"incomplete", "stale", "halfway"}
        /\ Complete(pending[k].doc.plan) \/ "incomplete" \in gaps'
    BY <1>5 DEF Restores, Stored
  <2>2. /\ pending' \in [Kinds -> Preview]
        /\ \A j \in Kinds : pending'[j] \in {pending[j], NoPreview}
    BY <1>5, Previews DEF Restores, ModInv
  <2> QED
    BY <1>1, <1>2, <1>5, <2>1, <2>2, CommitsHold DEF Restores, Marked, ModInv, ModTypeOK
<1>6. CASE /\ Commits(pending[k].doc) /\ gaps' = gaps \cup {"halfway"}
           /\ UNCHANGED <<pending, main, loaded, works, marked, wanted>>
  BY <1>1, <1>2, <1>6, CommitsHold DEF ModInv, ModTypeOK
<1> QED
  BY <1>3, <1>4, <1>5, <1>6

LEMMA ModNextHolds == ModInv /\ [ModNext]_modVars => ModInv'
<1> SUFFICES ASSUME ModInv, [ModNext]_modVars
             PROVE  ModInv'
  OBVIOUS
<1> USE DEF Kinds
<1>1. CASE Starts
  BY <1>1, StartsHold
<1>2. CASE Restarts
  BY <1>2, StopsHold DEF Restarts, ModInv, ModTypeOK
<1>3. CASE Calibrates
  BY <1>3, CalibratesHold
<1>4. CASE Time
  BY <1>4, TimeHolds
<1>5. CASE \E p \in Plan : SavesModules(p) \/ PreviewsImport(p) \/ PreviewsBackup(p)
  BY <1>5, SavesHold, ShowsHold DEF PreviewsImport, PreviewsBackup
<1>6. CASE AppliesImport
  BY <1>6, AppliesHold DEF AppliesImport
<1>7. CASE AppliesBackup
  BY <1>7, AppliesHold DEF AppliesBackup
<1>8. CASE UNCHANGED modVars
  BY <1>8 DEF modVars, ModInv, ModTypeOK, Accepted, Admitted, CompleteStarts, SavedStarts,
              StoredIsRunning
<1> QED
  BY <1>1, <1>2, <1>3, <1>4, <1>5, <1>6, <1>7, <1>8 DEF ModNext

\* A device runs the modules it was given, each with its own hardware: what is stored is what
\* runs unless a restart is asked for, what the portal let through the next start accepts, and
\* no two modules that work share hardware that both have not declared shared
\* (update_module_settings(), ResourceManager.reserve()).
THEOREM RunsAsConfiguredHolds == ModSpec => []RunsAsConfigured
<1>1. ModInv => RunsAsConfigured
  BY Exclusive DEF RunsAsConfigured, ModInv
<1> QED
  BY <1>1, ModInitHolds, ModNextHolds, PTL DEF ModSpec

-----------------------------------------------------------------------------
\* What the next start finds: the previous generation where the last is missing
Loadable ==
  IF IsFile(document) THEN document ELSE IF IsFile(earlier) THEN earlier ELSE NoModules

\* What the next start finds is what was stored last.
Lasting ==
  gaps \cap {"halfway", "unreadable"} = {} =>
    Loadable = wanted /\ (main = "on" => IsFile(document) \/ ~IsFile(earlier))

\* A preview is lost with the application, and is of the document that is stored.
Shown ==
  \A k \in Kinds : pending[k] # NoPreview =>
    /\ main = "on" /\ IsFile(pending[k].doc)
    /\ gaps \cap {"stale", "halfway"} = {} => pending[k].over = Current(document)

\* Its age is that of the clock.
Aged ==
  \A k \in Kinds :
    /\ pending[k].age \in 0 .. Period - 1
    /\ "wrapped" \notin gaps =>
         /\ Elapsed(pending[k].age) >= 0
         /\ pending[k].late => pending[k].age > Expiry

AskInv == ModInv /\ Lasting /\ Shown /\ Aged

LEMMA Clock ==
  ASSUME NEW age \in 0 .. Period - 1
  PROVE  /\ Elapsed(age) >= 0 => Elapsed(age) = age
         /\ Elapsed(0) = 0 /\ 0 \in 0 .. Period - 1
         /\ (age + 1) % Period \in 0 .. Period - 1
         /\ Elapsed(age) >= 0 => (age + 1) % Period = age + 1
         /\ Period \in Nat /\ Expiry \in Nat
<1>1. Period \in Nat /\ Expiry \in Nat /\ Period > 2
  BY ModBounds
<1> DEFINE h == Period \div 2
<1>2. h \in Nat /\ 2 * h <= Period /\ Period <= 2 * h + 1 /\ h >= 1
  BY <1>1
<1> HIDE DEF h
<1>3. CASE age + h < Period
  <2>1. (age + h) % Period = age + h
    BY <1>1, <1>2, <1>3
  <2> QED
    BY <1>1, <1>2, <1>3, <2>1 DEF Elapsed, h
<1>4. CASE age + h >= Period
  <2>1. age + h - Period \in 0 .. Period - 1
    BY <1>1, <1>2, <1>4
  <2>2. (age + h) % Period = age + h - Period
    BY <1>1, <1>2, <1>4, <2>1
  <2> QED
    BY <1>1, <1>2, <1>4, <2>2 DEF Elapsed, h
<1> QED
  BY <1>1, <1>2, <1>3, <1>4

LEMMA Nothing ==
  /\ 0 \in 0 .. Period - 1 /\ Elapsed(0) >= 0
  /\ NoPreview.age = 0 /\ ~NoPreview.late
BY Clock, ModBounds DEF NoPreview

LEMMA AskInitHolds == ModInit => AskInv
<1> SUFFICES ASSUME ModInit
             PROVE  AskInv
  OBVIOUS
<1>1. ModInv
  BY ModInitHolds
<1>2. Lasting
  BY Documents DEF ModInit, Lasting, Loadable
<1>3. \A k \in Kinds : pending[k] = NoPreview
  BY DEF ModInit
<1>4. Shown /\ Aged
  BY <1>3, Nothing DEF Shown, Aged
<1> QED
  BY <1>1, <1>2, <1>4 DEF AskInv

\* A stop leaves no preview, and finds again what it stopped in the middle of storing.
LEMMA StopsAsked ==
  ASSUME AskInv, StopsApplication, UNCHANGED <<wanted, gaps>>,
         \/ UNCHANGED <<document, earlier>>
         \/ main = "on" /\ SaveFails
         \/ main = "on" /\ document' = Missing /\ earlier' = document
  PROVE  Lasting' /\ Shown' /\ Aged'
<1>1. Lasting'
  BY Documents DEF AskInv, Lasting, Loadable, SaveFails, StopsApplication
<1>2. \A k \in Kinds : pending'[k] = NoPreview
  BY DEF StopsApplication
<1> QED
  BY <1>1, <1>2, Nothing DEF Shown, Aged

LEMMA RefusesAsked ==
  ASSUME AskInv, Refuses, main = "on"
  PROVE  Lasting' /\ Shown' /\ Aged'
<1>1. Lasting'
  BY Documents DEF AskInv, Lasting, Loadable, SaveFails, Refuses
<1> QED
  BY <1>1 DEF AskInv, Shown, Aged, Refuses, SaveFails

\* What is stored now is what was wanted, and no preview of something else stays unnoticed.
LEMMA CommitsAsked ==
  ASSUME AskInv, NEW doc, Commits(doc), IsFile(doc), main' = "on",
         gaps \subseteq gaps', wanted' = doc \/ "halfway" \in gaps',
         \A k \in Kinds : /\ pending'[k] \in {pending[k], NoPreview}
                          /\ pending'[k] # NoPreview => gaps' \cap {"stale", "halfway"} # {}
  PROVE  Lasting' /\ Shown' /\ Aged'
<1>1. Lasting'
  BY DEF Lasting, Loadable, Commits
<1>2. Shown'
  BY DEF AskInv, Shown
<1>3. Aged'
  BY Nothing DEF AskInv, Aged
<1> QED
  BY <1>1, <1>2, <1>3

LEMMA StartsAsked ==
  ASSUME AskInv, Starts
  PROVE  Lasting' /\ Shown' /\ Aged'
<1>1. Lasting'
  BY DEF Starts, Lasting, Loadable, Current
<1>2. \A k \in Kinds : pending'[k] = NoPreview
  BY DEF Starts, AskInv, Shown
<1> QED
  BY <1>1, <1>2, Nothing DEF Shown, Aged

\* Whoever stores a document without the preview of it makes the previews stale.
LEMMA StoredAsked ==
  ASSUME NEW doc, NEW applied, Stored(doc, applied)
  PROVE  /\ gaps \subseteq gaps'
         /\ \A k \in Kinds \ applied : pending[k] # NoPreview => "stale" \in gaps'
BY DEF Stored, Outdated

LEMMA SavesAsked ==
  ASSUME AskInv, NEW p \in Plan, SavesModules(p)
  PROVE  Lasting' /\ Shown' /\ Aged'
<1> DEFINE doc == Doc(p, Current(document).calibration)
<1>1. main = "on"
  BY DEF SavesModules
<1>2. CASE Refuses
  BY <1>1, <1>2, RefusesAsked
<1>3. CASE CutShort
  BY <1>1, <1>3, StopsAsked DEF CutShort
<1>4. CASE /\ Commits(doc) /\ Marked /\ wanted' = doc /\ Stored(doc, {})
           /\ UNCHANGED <<pending, main, loaded, works>>
  <2>1. document \in Docs
    BY DEF AskInv, ModInv, ModTypeOK
  <2>2. Current(document).calibration >= 0 /\ Current(document).calibration \in -1 .. MaxSaves
    BY <2>1, Documents DEF Current, IsFile
  <2>3. IsFile(doc)
    BY <2>2, Documents DEF IsFile
  <2> HIDE DEF doc
  <2> QED
    BY <1>1, <1>4, <2>3, StoredAsked, CommitsAsked
<1> QED
  BY <1>2, <1>3, <1>4 DEF SavesModules

LEMMA CalibratesAsked ==
  ASSUME AskInv, Calibrates
  PROVE  Lasting' /\ Shown' /\ Aged'
<1> DEFINE doc == Doc(document.plan, saves + 1)
<1>1. main = "on"
  BY DEF Calibrates
<1>2. CASE Refuses
  BY <1>1, <1>2, RefusesAsked
<1>3. CASE CutShort
  BY <1>1, <1>3, StopsAsked DEF CutShort
<1>4. CASE /\ Commits(doc) /\ wanted' = doc
           /\ Stored(doc, {}) /\ UNCHANGED <<pending, main, works, marked>>
  <2>1. document \in Docs /\ saves + 1 \in -1 .. MaxSaves /\ saves + 1 >= 0
    BY ModBounds DEF AskInv, ModInv, ModTypeOK, Calibrates
  <2>2. IsFile(doc)
    BY <2>1, Documents DEF IsFile
  <2> HIDE DEF doc
  <2> QED
    BY <1>1, <1>4, <2>2, StoredAsked, CommitsAsked
<1> QED
  BY <1>2, <1>3, <1>4 DEF Calibrates

LEMMA ShowsAsked ==
  ASSUME AskInv, NEW k \in Kinds, NEW p \in Plan, Shows(k, p), main = "on"
  PROVE  Lasting' /\ Shown' /\ Aged'
<1> DEFINE preview == [doc |-> Doc(p, 0), over |-> ShownAgainst, age |-> 0, late |-> FALSE]
<1>1. /\ pending' = [pending EXCEPT ![k] = preview] /\ pending \in [Kinds -> Preview]
      /\ UNCHANGED <<document, earlier, main, wanted, gaps>>
  BY DEF Shows, AskInv, ModInv
<1>2. IsFile(Doc(p, 0))
  BY Documents DEF IsFile
<1>3. IsFile(preview.doc) /\ preview.over = Current(document) /\ preview.age = 0 /\ ~preview.late
  BY <1>2 DEF ShownAgainst
<1> HIDE DEF preview
<1>4. Lasting'
  BY <1>1 DEF AskInv, Lasting, Loadable
<1>5. Shown'
  BY <1>1, <1>3 DEF AskInv, Shown
<1>6. Aged'
  BY <1>1, <1>3, Nothing DEF AskInv, Aged
<1> QED
  BY <1>4, <1>5, <1>6

LEMMA TimeAsked ==
  ASSUME AskInv, Time
  PROVE  Lasting' /\ Shown' /\ Aged'
<1>1. UNCHANGED <<document, earlier, main, wanted>> /\ gaps' \in {gaps, gaps \cup {"wrapped"}}
  BY DEF Time, Happened
<1>2. Lasting'
  BY <1>1 DEF AskInv, Lasting, Loadable
<1>3. ASSUME NEW k \in Kinds
      PROVE  \/ pending[k] = NoPreview /\ pending'[k] = NoPreview
             \/ /\ pending[k] # NoPreview
                /\ pending'[k].doc = pending[k].doc /\ pending'[k].over = pending[k].over
                /\ pending'[k].age = (pending[k].age + 1) % Period
                /\ pending'[k].late <=> (pending[k].late \/ pending[k].age >= Expiry)
  <2>1. CASE pending[k] = NoPreview
    BY <2>1 DEF Time
  <2>2. CASE pending[k] # NoPreview
    <3>1. /\ pending[k] \in Preview
          /\ pending'[k] = [pending[k] EXCEPT !.age = (@ + 1) % Period,
                                              !.late = @ \/ pending[k].age >= Expiry]
      BY <2>2 DEF AskInv, ModInv, Time
    <3> QED
      BY <2>2, <3>1 DEF Preview
  <2> QED
    BY <2>1, <2>2
<1>4. Shown'
  BY <1>1, <1>3 DEF AskInv, Shown
<1>5. ASSUME NEW k \in Kinds
      PROVE  /\ pending'[k].age \in 0 .. Period - 1
             /\ ("wrapped" \notin gaps' /\ pending'[k].late) => pending'[k].age > Expiry
  <2>1. CASE pending'[k] = NoPreview
    BY <2>1, Nothing
  <2>2. CASE pending'[k] # NoPreview
    <3>1. /\ pending'[k].age = (pending[k].age + 1) % Period
          /\ pending'[k].late <=> (pending[k].late \/ pending[k].age >= Expiry)
      BY <1>3, <2>2
    <3>2. pending[k].age \in 0 .. Period - 1
      BY DEF AskInv, Aged
    <3>3. (pending[k].age + 1) % Period \in 0 .. Period - 1
      BY <3>2, Clock
    <3>4. ASSUME "wrapped" \notin gaps', pending'[k].late
          PROVE  pending'[k].age > Expiry
      <4>1. "wrapped" \notin gaps
        BY <1>1, <3>4
      <4>2. Elapsed(pending[k].age) >= 0 /\ (pending[k].late => pending[k].age > Expiry)
        BY <4>1 DEF AskInv, Aged
      <4>3. (pending[k].age + 1) % Period = pending[k].age + 1
        BY <3>2, <4>2, Clock
      <4>4. pending[k].age >= Expiry \/ pending[k].age > Expiry
        BY <3>1, <3>4, <4>2
      <4> QED
        BY <3>1, <3>2, <4>3, <4>4, ModBounds
    <3> QED
      BY <3>1, <3>3, <3>4
  <2> QED
    BY <2>1, <2>2
<1>6. ASSUME NEW k \in Kinds, "wrapped" \notin gaps'
      PROVE  Elapsed(pending'[k].age) >= 0
  <2>1. ~(Elapsed(pending'[k].age) < 0)
    BY <1>6 DEF Time, Happened
  <2>2. Elapsed(pending'[k].age) \in Int
    BY <1>5, ModBounds DEF Elapsed
  <2> QED
    BY <2>1, <2>2
<1> QED
  BY <1>2, <1>4, <1>5, <1>6 DEF Aged

LEMMA AppliesAsked ==
  ASSUME AskInv, NEW k \in Kinds, main = "on", Valid(k),
         \/ Restores(k) \/ Refuses \/ CutShort
         \/ /\ Commits(pending[k].doc) /\ gaps' = gaps \cup {"halfway"}
            /\ UNCHANGED <<pending, main, loaded, works, marked, wanted>>
  PROVE  Lasting' /\ Shown' /\ Aged'
<1>1. IsFile(pending[k].doc)
  BY DEF AskInv, Shown, Valid
<1>2. CASE Refuses
  BY <1>2, RefusesAsked
<1>3. CASE CutShort
  BY <1>3, StopsAsked DEF CutShort
<1>4. CASE Restores(k)
  <2>1. /\ Commits(pending[k].doc) /\ wanted' = pending[k].doc /\ main' = "on"
        /\ Stored(pending[k].doc, {k})
    BY <1>4 DEF Restores
  <2>2. \A j \in Kinds : pending'[j] = IF j = k THEN NoPreview ELSE pending[j]
    BY <1>4 DEF Restores, AskInv, ModInv
  <2>3. /\ gaps \subseteq gaps'
        /\ \A j \in Kinds : j # k /\ pending[j] # NoPreview => "stale" \in gaps'
    BY <2>1, StoredAsked
  <2> QED
    BY <1>1, <2>1, <2>2, <2>3, CommitsAsked
<1>5. CASE /\ Commits(pending[k].doc) /\ gaps' = gaps \cup {"halfway"}
           /\ UNCHANGED <<pending, main, loaded, works, marked, wanted>>
  BY <1>1, <1>5, CommitsAsked
<1> QED
  BY <1>2, <1>3, <1>4, <1>5

LEMMA AskNextHolds == AskInv /\ [ModNext]_modVars => AskInv'
<1> SUFFICES ASSUME AskInv, [ModNext]_modVars
             PROVE  Lasting' /\ Shown' /\ Aged'
  BY ModNextHolds DEF AskInv
<1> USE DEF Kinds
<1>1. CASE Starts
  BY <1>1, StartsAsked
<1>2. CASE Restarts
  BY <1>2, StopsAsked DEF Restarts
<1>3. CASE Calibrates
  BY <1>3, CalibratesAsked
<1>4. CASE Time
  BY <1>4, TimeAsked
<1>5. CASE \E p \in Plan : SavesModules(p) \/ PreviewsImport(p) \/ PreviewsBackup(p)
  BY <1>5, SavesAsked, ShowsAsked DEF PreviewsImport, PreviewsBackup
<1>6. CASE AppliesImport
  BY <1>6, AppliesAsked DEF AppliesImport
<1>7. CASE AppliesBackup
  BY <1>7, AppliesAsked DEF AppliesBackup
<1>8. CASE UNCHANGED modVars
  BY <1>8 DEF modVars, AskInv, Lasting, Loadable, Shown, Aged
<1> QED
  BY <1>1, <1>2, <1>3, <1>4, <1>5, <1>6, <1>7, <1>8 DEF ModNext

\* A start begins with the document stored last.
LEMMA StartsWithWanted ==
  ASSUME AskInv, [ModNext]_modVars, main = "off", main' # "off",
         gaps' \cap {"halfway", "unreadable"} = {}
  PROVE  loaded' = wanted
<1>1. Starts
  <2> USE DEF ModNext
  <2>1. ~Restarts /\ ~Calibrates /\ ~AppliesImport /\ ~AppliesBackup
    BY DEF Restarts, Calibrates, AppliesImport, AppliesBackup
  <2>2. ~Time /\ ~UNCHANGED modVars
    BY DEF Time, modVars
  <2>3. \A p \in Plan : ~SavesModules(p) /\ ~PreviewsImport(p) /\ ~PreviewsBackup(p)
    BY DEF SavesModules, PreviewsImport, PreviewsBackup
  <2> QED
    BY <2>1, <2>2, <2>3
<1>2. Loadable = wanted
  BY <1>1 DEF AskInv, Lasting, Starts
<1> QED
  BY <1>1, <1>2 DEF Starts, Loads, Loadable, Current

\* A preview that is used up was valid, and of the document that is stored.
LEMMA RestoresShown ==
  ASSUME AskInv, [ModNext]_modVars, NEW k \in Kinds, pending[k] # NoPreview,
         pending'[k] = NoPreview, main' = "on"
  PROVE  /\ gaps \cap {"stale", "halfway"} # {} \/ pending[k].over = Current(document)
         /\ "wrapped" \in gaps \/ ~pending[k].late
<1>1. Valid(k)
  <2>1. main = "on"
    BY DEF AskInv, Shown
  <2>2. ~Starts /\ ~Restarts
    BY <2>1 DEF Starts, Restarts, StopsApplication
  <2>3. ~Calibrates
    BY DEF Calibrates, Refuses, CutShort, StopsApplication
  <2>4. ~UNCHANGED modVars
    BY DEF modVars
  <2>5. ~Time
    <3> SUFFICES ASSUME Time
                 PROVE  FALSE
      OBVIOUS
    <3>1. /\ pending[k] \in Preview
          /\ pending'[k] = [pending[k] EXCEPT !.age = (@ + 1) % Period,
                                              !.late = @ \/ pending[k].age >= Expiry]
      BY DEF AskInv, ModInv, Time
    <3>2. pending'[k].doc = pending[k].doc
      BY <3>1 DEF Preview
    <3>3. NoPreview.doc = Missing /\ IsFile(pending[k].doc)
      BY DEF NoPreview, AskInv, Shown
    <3> QED
      BY <3>2, <3>3, Documents
  <2>6. ASSUME NEW p \in Plan, SavesModules(p)
        PROVE  FALSE
    BY <2>6 DEF SavesModules, Refuses, CutShort, StopsApplication
  <2>7. ASSUME NEW p \in Plan, NEW j \in Kinds, Shows(j, p)
        PROVE  FALSE
    <3>1. pending'[j].doc = Doc(p, 0) /\ (j # k => pending'[k] = pending[k])
      BY <2>7 DEF Shows, AskInv, ModInv
    <3>2. IsFile(Doc(p, 0)) /\ NoPreview.doc = Missing
      BY Documents DEF IsFile, NoPreview
    <3> QED
      BY <3>1, <3>2, Documents
  <2>8. ASSUME NEW j \in Kinds, Valid(j),
               \/ Restores(j) \/ Refuses \/ CutShort
               \/ UNCHANGED pending
        PROVE  Valid(k)
    <3>1. Restores(j)
      BY <2>8 DEF Refuses, CutShort, StopsApplication
    <3>2. j # k => pending'[k] = pending[k]
      BY <3>1 DEF Restores, AskInv, ModInv
    <3> QED
      BY <2>8, <3>2
  <2>9. CASE AppliesImport
    BY <2>8, <2>9 DEF AppliesImport, Kinds
  <2>10. CASE AppliesBackup
    BY <2>8, <2>10 DEF AppliesBackup, Kinds
  <2> QED
    BY <2>2, <2>3, <2>4, <2>5, <2>6, <2>7, <2>9, <2>10
    DEF ModNext, PreviewsImport, PreviewsBackup, Kinds
<1>2. ASSUME "wrapped" \notin gaps
      PROVE  ~pending[k].late
  <2>1. /\ pending[k].age \in 0 .. Period - 1 /\ Elapsed(pending[k].age) >= 0
        /\ pending[k].late => pending[k].age > Expiry
    BY <1>2 DEF AskInv, Aged
  <2>2. Elapsed(pending[k].age) = pending[k].age
    BY <2>1, Clock
  <2>3. pending[k].age <= Expiry
    BY <1>1, <2>2 DEF Valid
  <2>4. ~(pending[k].age > Expiry)
    BY <2>1, <2>3, ModBounds
  <2> QED
    BY <2>1, <2>4
<1> QED
  BY <1>2 DEF AskInv, Shown

\* A start begins with the document stored last, whenever the power was lost, and an import
\* replaces the document it was shown against, within ten minutes
\* (load_json_with_backup(), commit_file_with_backup(), ticks_diff()).
THEOREM AppliesWhatIsAskedHolds == ModSpec => AppliesWhatIsAsked
<1>1. AskInv /\ [ModNext]_modVars =>
        [/\ (main = "off" /\ main' # "off" /\ gaps' \cap {"halfway", "unreadable"} = {}) =>
              loaded' = wanted
         /\ \A k \in Kinds :
              (pending[k] # NoPreview /\ pending'[k] = NoPreview /\ main' = "on") =>
                 /\ gaps \cap {"stale", "halfway"} # {} \/ pending[k].over = Current(document)
                 /\ "wrapped" \in gaps \/ ~pending[k].late]_modVars
  BY StartsWithWanted, RestoresShown
<1> QED
  BY <1>1, AskInitHolds, AskNextHolds, PTL DEF ModSpec, AppliesWhatIsAsked
==============================================================================
