--------------------------- MODULE AppUpdateProofs ---------------------------
(***************************************************************************)
(* Theorems about AppUpdate for every number of releases.                  *)
(***************************************************************************)
EXTENDS AppUpdate, TLAPS

\* A rollback by hand has selected a slot.
ManualPointer == pc = "manual" => chosen \in Slot

\* The inductive invariant.  SlotPointers carries the argument: the record of
\* the slots only ever names a bootable slot, so that the slot activation and
\* reclaiming empty, the other one, is never the slot that would boot.
IInv == TypeOK /\ SlotPointers /\ ManualPointer

\* The other slot of two is a slot, and another one.
LEMMA OtherSlot ==
  /\ \A s \in Slot \cup {NoSlot} : Other(s) \in Slot /\ Other(s) # s
  /\ NoSlot \notin Slot
BY DEF Other, Slot, NoSlot

\* While the record of the slots names a bootable slot, that is the slot the
\* updater takes for the active one.
LEMMA ActiveIsChosen ==
  ASSUME TypeOK, SlotPointers
  PROVE  ActiveSlot = chosen /\ ActiveSlot \in Slot \cup {NoSlot}
BY OtherSlot DEF ActiveSlot, SlotPointers, TypeOK

\* Unlinking a file keeps the slots well typed and touches one slot only.
LEMMA RemovePartFacts ==
  ASSUME TypeOK, NEW s \in Slot, RemovePart(s)
  PROVE  /\ slot' \in [Slot -> [release : Generation, parts : SUBSET Part]]
         /\ \A t \in Slot : t # s => slot'[t] = slot[t]
<1> DEFINE Content == [release : Generation, parts : SUBSET Part]
<1>1. PICK p \in slot[s].parts : slot' = [slot EXCEPT ![s] = Without(s, p)]
  BY DEF RemovePart
<1>2. slot[s] \in Content /\ slot \in [Slot -> Content]
  BY DEF TypeOK
<1>3. Without(s, p) \in Content
  BY <1>2, MaxReleaseAssumption DEF Without, Empty, Generation
<1> QED
  BY <1>1, <1>2, <1>3

-----------------------------------------------------------------------------
LEMMA IdleTransaction == Idle \in Transaction
BY MaxReleaseAssumption
DEF Idle, Transaction, Status, Generation, Slot, NoSlot

LEMMA InitIInv == Init => IInv
<1> SUFFICES ASSUME Init PROVE IInv
  OBVIOUS
<1>1. TypeOK
  BY MaxReleaseAssumption
  DEF Init, TypeOK, Idle, Empty, Transaction, Status, Slot, NoSlot, Part,
      Step, Off, Root, Generation, Exposure
<1>2. SlotPointers
  BY DEF Init, SlotPointers, Idle, Slot, NoSlot
<1>3. ManualPointer
  BY DEF Init, ManualPointer
<1> QED
  BY <1>1, <1>2, <1>3 DEF IInv

LEMMA StagingStep ==
  ASSUME IInv, Staging
  PROVE  TypeOK' /\ SlotPointers'
<1> USE DEF IInv
<1>1. CASE Stage
  <2>1. TypeOK'
    BY <1>1, MaxReleaseAssumption
    DEF Stage, TypeOK, Goto, Step, Generation, Release
  <2>2. SlotPointers'
    BY <1>1
    DEF Stage, SlotPointers, Goto
  <2> QED
    BY <2>1, <2>2
<1>2. CASE StageReady
  <2>1. TypeOK'
    BY <1>2
    DEF StageReady, TypeOK, Resume, Goto, Step, Transaction, Status, Idle,
        Exposure
  <2>2. SlotPointers'
    BY <1>2
    DEF StageReady, SlotPointers, Resume, Goto, Idle, NoSlot, Slot
  <2> QED
    BY <2>1, <2>2
<1>3. CASE StageFails
  <2>1. txn' \in Transaction /\ bundle' \in Generation
    BY <1>3, IdleTransaction, MaxReleaseAssumption
    DEF StageFails, TypeOK, Generation
  <2>2. pc' \in Step /\ exposed' \in SUBSET Exposure
    BY <1>3 DEF StageFails, TypeOK, Resume, Goto, Step, Exposure
  <2>3. TypeOK'
    BY <1>3, <2>1, <2>2 DEF StageFails, TypeOK
  <2>4. SlotPointers'
    BY <1>3, OtherSlot
    DEF StageFails, SlotPointers, Resume, Goto, Idle
  <2> QED
    BY <2>3, <2>4
<1>4. CASE Configure
  <2>1. TypeOK'
    <3>1. PICK selected \in BOOLEAN : txn' = [txn EXCEPT !.settings = selected]
      BY <1>4 DEF Configure
    <3>2. txn' \in Transaction
      BY <3>1 DEF TypeOK, Transaction
    <3> QED
      BY <1>4, <3>2 DEF Configure, TypeOK
  <2>2. SlotPointers'
    BY <1>4
    DEF Configure, SlotPointers
  <2> QED
    BY <2>1, <2>2
<1>5. CASE Discard
  <2>1. TypeOK'
    BY <1>5, MaxReleaseAssumption
    DEF Discard, TypeOK, Goto, Step, Generation
  <2>2. SlotPointers'
    BY <1>5
    DEF Discard, SlotPointers, Goto
  <2> QED
    BY <2>1, <2>2
<1>6. CASE DropState
  <2>1. TypeOK'
    BY <1>6, IdleTransaction
    DEF DropState, TypeOK, Resume, Goto, Step
  <2>2. SlotPointers'
    BY <1>6
    DEF DropState, SlotPointers, Resume, Goto, Idle, NoSlot, Slot
  <2> QED
    BY <2>1, <2>2
<1> QED
  BY <1>1, <1>2, <1>3, <1>4, <1>5, <1>6 DEF Staging

LEMMA ActivationStep ==
  ASSUME IInv, Activation
  PROVE  TypeOK' /\ SlotPointers'
<1> USE DEF IInv
<1>1. CASE BootConsole
  <2>1. TypeOK'
    BY <1>1
    DEF BootConsole, TypeOK, Goto, files, Step
  <2>2. SlotPointers'
    BY <1>1
    DEF BootConsole, SlotPointers, Goto, files
  <2> QED
    BY <2>1, <2>2
<1>2. CASE BootActivate
  <2>1. TypeOK'
    BY <1>2
    DEF BootActivate, TypeOK, Goto, files, Step
  <2>2. SlotPointers'
    BY <1>2
    DEF BootActivate, SlotPointers, Goto, files
  <2> QED
    BY <2>1, <2>2
<1>3. CASE Reclaim
  <2>1. TypeOK'
    BY <1>3, ActiveIsChosen, OtherSlot, RemovePartFacts
    DEF Reclaim, TypeOK
  <2>2. SlotPointers'
    BY <1>3, ActiveIsChosen, OtherSlot, RemovePartFacts
    DEF Reclaim, SlotPointers
  <2> QED
    BY <2>1, <2>2
<1>4. CASE BeginActivation
  <2>1. TypeOK'
    BY <1>4, ActiveIsChosen, OtherSlot
    DEF BeginActivation, TypeOK, Goto, Step, Transaction, Status
  <2>2. SlotPointers'
    BY <1>4, ActiveIsChosen, OtherSlot
    DEF BeginActivation, SlotPointers, Goto
  <2> QED
    BY <2>1, <2>2
<1>5. CASE BackUpSettings
  <2>1. TypeOK'
    BY <1>5, MaxReleaseAssumption
    DEF BackUpSettings, TypeOK, Goto, Step, Generation
  <2>2. SlotPointers'
    BY <1>5
    DEF BackUpSettings, SlotPointers, Goto
  <2> QED
    BY <2>1, <2>2
<1>6. CASE NoteApplied
  <2>1. TypeOK'
    BY <1>6
    DEF NoteApplied, TypeOK, Goto, Step, Transaction, Status
  <2>2. SlotPointers'
    BY <1>6
    DEF NoteApplied, SlotPointers, Goto
  <2> QED
    BY <2>1, <2>2
<1>7. CASE WriteSettings
  <2>1. TypeOK'
    BY <1>7, MaxReleaseAssumption
    DEF WriteSettings, TypeOK, Goto, Step, Generation
  <2>2. SlotPointers'
    BY <1>7
    DEF WriteSettings, SlotPointers, Goto
  <2> QED
    BY <2>1, <2>2
<1>8. CASE InstallPart
  <2>1. TypeOK'
    BY <1>8
    DEF InstallPart, TypeOK, Part, Transaction
  <2>2. SlotPointers'
    BY <1>8
    DEF InstallPart, SlotPointers
  <2> QED
    BY <2>1, <2>2
<1>9. CASE SealSlot
  <2>1. TypeOK'
    BY <1>9
    DEF SealSlot, TypeOK, Part, Transaction
  <2>2. SlotPointers'
    BY <1>9
    DEF SealSlot, SlotPointers
  <2> QED
    BY <2>1, <2>2
<1>10. CASE BeginTrial
  <2>1. TypeOK'
    BY <1>10
    DEF BeginTrial, TypeOK, Goto, Step, Transaction, Status
  <2>2. SlotPointers'
    BY <1>10
    DEF BeginTrial, SlotPointers, Goto
  <2> QED
    BY <2>1, <2>2
<1>11. CASE ActivationFails
  <2>1. TypeOK'
    BY <1>11
    DEF ActivationFails, TypeOK, Goto, files, Step
  <2>2. SlotPointers'
    BY <1>11
    DEF ActivationFails, SlotPointers, Goto, files
  <2> QED
    BY <2>1, <2>2
<1> QED
  BY <1>1, <1>2, <1>3, <1>4, <1>5, <1>6, <1>7, <1>8, <1>9, <1>10, <1>11 DEF Activation

LEMMA RollbackStep ==
  ASSUME IInv, Rollback
  PROVE  TypeOK' /\ SlotPointers'
<1> USE DEF IInv
<1>1. CASE RbSettings
  <2>1. TypeOK'
    BY <1>1, MaxReleaseAssumption
    DEF RbSettings, TypeOK, Goto, Step, Generation
  <2>2. SlotPointers'
    BY <1>1
    DEF RbSettings, SlotPointers, Goto
  <2> QED
    BY <2>1, <2>2
<1>2. CASE RbSelect
  <2>1. TypeOK'
    BY <1>2
    DEF RbSelect, TypeOK, Goto, Step
  <2>2. SlotPointers'
    BY <1>2, OtherSlot
    DEF RbSelect, SlotPointers, Goto
  <2> QED
    BY <2>1, <2>2
<1>3. CASE RbTree
  <2>1. TypeOK'
    BY <1>3, RemovePartFacts
    DEF RbTree, TypeOK, Goto, Step
  <2>2. SlotPointers'
    BY <1>3, RemovePartFacts
    DEF RbTree, SlotPointers, Goto
  <2> QED
    BY <2>1, <2>2
<1>4. CASE RbBackup
  <2>1. TypeOK'
    BY <1>4, MaxReleaseAssumption
    DEF RbBackup, TypeOK, Goto, Step, Generation
  <2>2. SlotPointers'
    BY <1>4
    DEF RbBackup, SlotPointers, Goto
  <2> QED
    BY <2>1, <2>2
<1>5. CASE RbBundle
  <2>1. TypeOK'
    BY <1>5, MaxReleaseAssumption
    DEF RbBundle, TypeOK, Goto, Step, Generation
  <2>2. SlotPointers'
    BY <1>5
    DEF RbBundle, SlotPointers, Goto
  <2> QED
    BY <2>1, <2>2
<1>6. CASE RbState
  <2>1. TypeOK'
    BY <1>6, IdleTransaction
    DEF RbState, TypeOK, Resume, Goto, Step
  <2>2. SlotPointers'
    BY <1>6
    DEF RbState, SlotPointers, Goto, Idle, NoSlot, Slot
  <2> QED
    BY <2>1, <2>2
<1> QED
  BY <1>1, <1>2, <1>3, <1>4, <1>5, <1>6 DEF Rollback

LEMMA CommitStep ==
  ASSUME IInv, Commit
  PROVE  TypeOK' /\ SlotPointers'
<1> USE DEF IInv
<1>1. CASE Confirm
  <2>1. TypeOK'
    BY <1>1
    DEF Confirm, TypeOK, Goto, Step, Transaction, Status
  <2>2. SlotPointers'
    BY <1>1
    DEF Confirm, SlotPointers, Goto
  <2> QED
    BY <2>1, <2>2
<1>2. CASE CommitSlots
  <2>1. TypeOK'
    BY <1>2
    DEF CommitSlots, TypeOK, Goto, Step, Transaction
  <2>2. SlotPointers'
    BY <1>2
    DEF CommitSlots, SlotPointers, Goto
  <2> QED
    BY <2>1, <2>2
<1>3. CASE CommitSequence
  <2>1. TypeOK'
    BY <1>3, MaxReleaseAssumption
    DEF CommitSequence, TypeOK, Goto, Step, Generation, Transaction
  <2>2. SlotPointers'
    BY <1>3
    DEF CommitSequence, SlotPointers, Goto
  <2> QED
    BY <2>1, <2>2
<1>4. CASE CommitBackup
  <2>1. TypeOK'
    BY <1>4, MaxReleaseAssumption
    DEF CommitBackup, TypeOK, Goto, Step, Generation
  <2>2. SlotPointers'
    BY <1>4
    DEF CommitBackup, SlotPointers, Goto
  <2> QED
    BY <2>1, <2>2
<1>5. CASE CommitBundle
  <2>1. TypeOK'
    BY <1>5, MaxReleaseAssumption
    DEF CommitBundle, TypeOK, Goto, Step, Generation
  <2>2. SlotPointers'
    BY <1>5
    DEF CommitBundle, SlotPointers, Goto
  <2> QED
    BY <2>1, <2>2
<1>6. CASE CommitState
  <2>1. TypeOK'
    BY <1>6, IdleTransaction
    DEF CommitState, TypeOK, Resume, Goto, Step
  <2>2. SlotPointers'
    BY <1>6
    DEF CommitState, SlotPointers, Goto, Idle, NoSlot, Slot
  <2> QED
    BY <2>1, <2>2
<1>7. CASE CommitFails
  <2>1. TypeOK'
    BY <1>7
    DEF CommitFails, TypeOK, Goto, files, Step, Root, Off, Exposure
  <2>2. SlotPointers'
    BY <1>7
    DEF CommitFails, SlotPointers, Goto, files
  <2> QED
    BY <2>1, <2>2
<1> QED
  BY <1>1, <1>2, <1>3, <1>4, <1>5, <1>6, <1>7 DEF Commit

LEMMA OperationStep ==
  ASSUME IInv, Operation
  PROVE  TypeOK' /\ SlotPointers'
<1> USE DEF IInv
<1>1. CASE StartApplication
  <2>1. TypeOK'
    BY <1>1, ActiveIsChosen
    DEF StartApplication, TypeOK, ApplicationRoot, Goto, files, Step, Slot,
        NoSlot, Root, Off
  <2>2. SlotPointers'
    BY <1>1
    DEF StartApplication, SlotPointers, Goto, files
  <2> QED
    BY <2>1, <2>2
<1>2. CASE ApplicationEnds
  <2>1. TypeOK'
    BY <1>2
    DEF ApplicationEnds, TypeOK, Goto, files, Step, Root, Off
  <2>2. SlotPointers'
    BY <1>2
    DEF ApplicationEnds, SlotPointers, Goto, files
  <2> QED
    BY <2>1, <2>2
<1>3. CASE ConsoleRollback
  <2>1. TypeOK'
    BY <1>3
    DEF ConsoleRollback, TypeOK, Goto, files, Step, Exposure
  <2>2. SlotPointers'
    BY <1>3
    DEF ConsoleRollback, SlotPointers, Goto, files
  <2> QED
    BY <2>1, <2>2
<1>4. CASE ManualRollback
  <2>1. TypeOK'
    BY <1>4, OtherSlot
    DEF ManualRollback, TypeOK, PreviousSlot, Goto, Step, Exposure, Slot,
        NoSlot
  <2>2. SlotPointers'
    BY <1>4, OtherSlot
    DEF ManualRollback, SlotPointers, PreviousSlot, Goto
  <2> QED
    BY <2>1, <2>2
<1>5. CASE ManualSequence
  <2>1. TypeOK'
    BY <1>5, MaxReleaseAssumption
    DEF ManualSequence, ManualPointer, TypeOK, Resume, Goto, Step, Generation
  <2>2. SlotPointers'
    BY <1>5
    DEF ManualSequence, SlotPointers, Resume, Goto
  <2> QED
    BY <2>1, <2>2
<1>6. CASE BeginStrip
  <2>1. TypeOK'
    BY <1>6, ActiveIsChosen
    DEF BeginStrip, TypeOK, Goto, files, Step
  <2>2. SlotPointers'
    BY <1>6, ActiveIsChosen
    DEF BeginStrip, SlotPointers, Goto, files
  <2> QED
    BY <2>1, <2>2
<1>7. CASE Strip
  <2>1. TypeOK'
    BY <1>7, ActiveIsChosen, OtherSlot, RemovePartFacts
    DEF Strip, TypeOK, Resume, Goto, Step
  <2>2. SlotPointers'
    BY <1>7, ActiveIsChosen, OtherSlot, RemovePartFacts
    DEF Strip, SlotPointers, Resume, Goto
  <2> QED
    BY <2>1, <2>2
<1> QED
  BY <1>1, <1>2, <1>3, <1>4, <1>5, <1>6, <1>7 DEF Operation

\* Only a rollback by hand reaches the step after it, with a slot selected.
LEMMA ManualStep ==
  ASSUME IInv, Next
  PROVE  ManualPointer'
<1> USE DEF ManualPointer, Goto, Resume, files
<1>1. CASE Staging
  BY <1>1 DEF Staging, Stage, StageReady, StageFails, Configure, Discard,
      DropState
<1>2. CASE Activation
  BY <1>2 DEF Activation, BootConsole, BootActivate, Reclaim,
      BeginActivation, BackUpSettings, NoteApplied, WriteSettings,
      InstallPart, SealSlot, BeginTrial, ActivationFails
<1>3. CASE Rollback
  BY <1>3 DEF Rollback, RbSettings, RbSelect, RbTree, RbBackup, RbBundle,
      RbState
<1>4. CASE Commit
  BY <1>4 DEF Commit, Confirm, CommitSlots, CommitSequence, CommitBackup,
      CommitBundle, CommitState, CommitFails
<1>5. CASE Operation
  <2>1. CASE ManualRollback
    BY <2>1, OtherSlot
    DEF ManualRollback, PreviousSlot, IInv, TypeOK, ActiveSlot
  <2>2. CASE Operation /\ ~ManualRollback
    BY <2>2
    DEF Operation, StartApplication, ApplicationEnds, ConsoleRollback,
        ManualSequence, BeginStrip, Strip
  <2> QED
    BY <1>5, <2>1, <2>2
<1>6. CASE PowerLoss \/ PowerLossInReplace
  BY <1>6 DEF PowerLoss, PowerLossInReplace
<1> QED
  BY <1>1, <1>2, <1>3, <1>4, <1>5, <1>6 DEF Next

LEMMA PowerLossStep ==
  ASSUME IInv, PowerLoss \/ PowerLossInReplace
  PROVE  TypeOK' /\ SlotPointers'
<1> USE DEF IInv
<1>1. CASE PowerLoss
  BY <1>1
  DEF PowerLoss, files, TypeOK, SlotPointers, Step, Off, Exposure
<1>2. CASE PowerLossInReplace
  <2>1. pc' = "boot" /\ running' = Off
    BY <1>2 DEF PowerLossInReplace
  <2>2. CASE TearTransaction
    BY <2>1, <2>2, IdleTransaction
    DEF TearTransaction, TypeOK, SlotPointers, Step, Off, Exposure, Idle,
        Slot, NoSlot
  <2>3. CASE TearSlots
    <3>1. TypeOK'
      <4>1. 0 \in Generation
        BY MaxReleaseAssumption DEF Generation
      <4>2. seq' \in [Slot -> Generation] /\ chosen' = NoSlot
        BY <2>3, <4>1 DEF TearSlots
      <4>3. exposed' \in SUBSET Exposure
        BY <2>3 DEF TearSlots, TypeOK, Exposure
      <4> QED
        BY <2>1, <2>3, <4>2, <4>3 DEF TearSlots, TypeOK, Step, Off
    <3>2. SlotPointers'
      BY <2>1, <2>3, OtherSlot DEF TearSlots, SlotPointers
    <3> QED
      BY <3>1, <3>2
  <2>4. CASE TearSettings
    BY <2>1, <2>4, MaxReleaseAssumption
    DEF TearSettings, TypeOK, SlotPointers, Step, Off, Generation
  <2>5. CASE TearOthers
    BY <2>1, <2>5, MaxReleaseAssumption
    DEF TearOthers, TypeOK, SlotPointers, Step, Off, Generation
  <2> QED
    BY <1>2, <2>2, <2>3, <2>4, <2>5 DEF PowerLossInReplace
<1> QED
  BY <1>1, <1>2

-----------------------------------------------------------------------------
LEMMA StepIInv == IInv /\ [Next]_vars => IInv'
<1> SUFFICES ASSUME IInv, [Next]_vars PROVE IInv'
  OBVIOUS
<1>1. CASE Next
  <2>1. TypeOK' /\ SlotPointers'
    BY <1>1, StagingStep, ActivationStep, RollbackStep, CommitStep,
       OperationStep, PowerLossStep
    DEF Next
  <2> QED
    BY <1>1, <2>1, ManualStep DEF IInv
<1>2. CASE UNCHANGED vars
  BY <1>2 DEF vars, IInv, TypeOK, SlotPointers, ManualPointer
<1> QED
  BY <1>1, <1>2

LEMMA Invariance == Spec => []IInv
BY InitIInv, StepIInv, PTL DEF Spec

\* Every variable keeps its type, whatever the number of releases.
THEOREM TypeCorrect == Spec => []TypeOK
<1>1. IInv => TypeOK
  BY DEF IInv
<1> QED
  BY <1>1, Invariance, PTL

\* The record of the slots names a bootable slot and no transaction works on
\* that slot, in every interleaving with losses of power.
THEOREM SlotPointersHold == Spec => []SlotPointers
<1>1. IInv => SlotPointers
  BY DEF IInv
<1> QED
  BY <1>1, Invariance, PTL

-----------------------------------------------------------------------------
\* The steps that write to a slot at all.
LEMMA SlotWriters ==
  ASSUME Next, slot' # slot
  PROVE  Reclaim \/ InstallPart \/ SealSlot \/ RbTree \/ Strip
<1> USE DEF files
<1>1. ~Staging
  BY DEF Staging, Stage, StageReady, StageFails, Configure, Discard, DropState
<1>2. ~Commit
  BY DEF Commit, Confirm, CommitSlots, CommitSequence, CommitBackup,
         CommitBundle, CommitState, CommitFails
<1>3. Rollback => RbTree
  BY DEF Rollback, RbSettings, RbSelect, RbBackup, RbBundle, RbState
<1>4. Activation => Reclaim \/ InstallPart \/ SealSlot
  BY DEF Activation, BootConsole, BootActivate, BeginActivation,
         BackUpSettings, NoteApplied, WriteSettings, BeginTrial,
         ActivationFails
<1>5. Operation => Strip
  BY DEF Operation, StartApplication, ApplicationEnds, ConsoleRollback,
         ManualRollback, ManualSequence, BeginStrip
<1>6. ~PowerLoss /\ ~PowerLossInReplace
  BY DEF PowerLoss, PowerLossInReplace, TearTransaction, TearSlots,
         TearSettings, TearOthers
<1> QED
  BY <1>1, <1>2, <1>3, <1>4, <1>5, <1>6 DEF Next

LEMMA ActiveSlotStep ==
  ASSUME IInv, [Next]_vars, NEW s \in Slot, s = ActiveSlot
  PROVE  slot'[s] = slot[s]
<1> USE DEF IInv
<1>1. s = chosen
  BY ActiveIsChosen
<1>2. CASE slot' = slot
  BY <1>2
<1>3. CASE Next /\ slot' # slot
  <2>1. CASE Reclaim \/ Strip
    <3>1. RemovePart(Other(ActiveSlot))
      BY <1>3, <2>1 DEF Reclaim, Strip
    <3> QED
      BY <1>1, <3>1, OtherSlot, RemovePartFacts
  <2>2. CASE InstallPart \/ SealSlot
    <3>1. pc = "install" /\ txn.target \in Slot
      BY <2>2 DEF InstallPart, SealSlot
    <3>2. txn.target # s
      BY <1>1, <3>1 DEF SlotPointers
    <3> QED
      BY <2>2, <3>2 DEF InstallPart, SealSlot, TypeOK
  <2>3. CASE RbTree
    <3>1. txn.target \in Slot /\ RemovePart(txn.target)
      BY <1>3, <2>3 DEF RbTree
    <3>2. txn.target # s
      BY <1>1, <2>3, <3>1 DEF RbTree, SlotPointers
    <3> QED
      BY <3>1, <3>2, RemovePartFacts
  <2> QED
    BY <1>3, <2>1, <2>2, <2>3, SlotWriters
<1> QED
  BY <1>2, <1>3 DEF vars

\* Activation, reclaiming and rollback never touch a file of the slot that
\* the device would boot.
THEOREM ActiveSlotSafe == Spec => ActiveSlotUntouched
<1>1. IInv /\ [Next]_vars =>
        [\A s \in Slot : s = ActiveSlot => (slot'[s] = slot[s])]_vars
  BY ActiveSlotStep
<1> QED
  BY <1>1, Invariance, PTL DEF Spec, ActiveSlotUntouched
-----------------------------------------------------------------------------
(***************************************************************************)
(* AppUpdate implements AtomicRelease: with every loss of power, whatever  *)
(* the step it comes in, the application and its settings are installed    *)
(* together or not at all, for every number of releases.                   *)
(***************************************************************************)

\* After a half-made commit has been undone, a handler may find a record it does not expect.
Regular == "commit undone" \notin exposed

\* The steps of a handler, in the order of the code.
Serving    == {"up", "stage", "drop", "manual", "strip"}
Installing == {"install", "noteApplied", "writeSettings"}
Undoing    == {"rbSettings", "rbSelect", "rbTree", "rbBackup", "rbBundle", "rbState"}
Committing == {"coSlots", "coSeq", "coBackup", "coBundle", "coState"}

\* An application runs only where it serves requests or is being confirmed.
Runs == /\ running # Off => pc \in Serving \cup Committing
        /\ pc = "up" => running # Off

\* What the record says at each step of a handler.
Table ==
  /\ pc = "drop" \/ pc = "reclaim" => txn.status = "ready"
  /\ pc \in Installing => txn.status = "activating"
  /\ pc \in Undoing => txn.status \in {"ready", "activating", "trial"}
  /\ pc \in Committing => txn.status = "committing"
  /\ pc \in {"manual", "strip"} => txn.status = "idle"
  /\ pc = "start" => txn.status \in {"idle", "trial"}
  /\ pc = "up" => txn.status \in {"idle", "ready", "trial"}
  /\ pc = "stage" /\ running # Off => txn.status \in {"idle", "ready"}

\* The record itself: an update of the application has a slot, which is not the one that
\* would boot until the update is confirmed.
Recorded ==
  /\ txn.status \in {"idle", "ready"} => txn.applied = "no" /\ txn.target = NoSlot
  /\ txn.status \in {"activating", "trial", "committing"} => (txn.hasApp <=> txn.target \in Slot)
  /\ txn.status \in {"activating", "trial"} => (txn.target \in Slot => txn.target # chosen)

\* Files: a slot with files is of a release, a device without a slot has no sequences.
Filed ==
  /\ \A s \in Slot : slot[s].parts # {} => slot[s].release # 0
  /\ chosen = NoSlot => \A s \in Slot : seq[s] = 0
  /\ pc \in Installing \cup {"reclaim"} => bundle # 0

\* module_settings.json and its backup, step by step.
Saved ==
  /\ pc = "noteApplied" => txn.applied = "no" /\ (shared # 0 => backup = shared)
  /\ pc = "writeSettings" => \/ txn.applied = "created"
                             \/ txn.applied = "replaced" /\ backup # 0
  /\ pc = "install" => (txn.applied # "no" => shared # 0)
  /\ (pc \in {"start", "up"} /\ txn.status = "trial") => (txn.applied # "no" => shared # 0)
  /\ pc \in Undoing \ {"rbSettings"} =>
       /\ (txn.applied = "replaced" /\ backup # 0) => shared = backup
       /\ txn.applied = "created" => shared = 0

\* The slot of the update, step by step.
Placed ==
  /\ (pc \in {"start", "up"} /\ txn.status = "trial" /\ txn.hasApp) =>
       slot[txn.target].parts = Part
  /\ (pc \in Committing \ {"coSlots"} /\ txn.hasApp) => chosen = txn.target
  /\ (pc \in {"rbBackup", "rbBundle", "rbState"} /\ txn.target \in Slot) =>
       slot[txn.target].parts = {}

Parts == Table /\ Recorded /\ Filed /\ Saved /\ Placed

\* What is selected, and what is about to be, is a whole release.
WholeOnes ==
  (Regular /\ "unconfirmed slot" \notin exposed) =>
     /\ chosen \in Slot => Whole(chosen)
     /\ (txn.status = "committing" /\ txn.hasApp) => Whole(txn.target)

\* The releases of the bundle, of the record, of the slots and of the slot record.
Numbered ==
  /\ bundle # 1
  /\ (txn.status = "ready" /\ pc # "stage") => bundle \in {0, txn.release}
  /\ pc \in Installing \cup {"reclaim"} => bundle = txn.release /\ bundle > 1
  /\ pc \in Installing \cup {"reclaim"} => (chosen \in Slot => bundle > slot[chosen].release)
  /\ chosen \in Slot => seq[chosen] = slot[chosen].release
  /\ (pc \in Installing /\ txn.target \in Slot) =>
        slot[txn.target].parts = {} \/ slot[txn.target].release = txn.release
  /\ (pc \in {"start", "up"} /\ txn.status = "trial" /\ txn.hasApp) =>
        slot[txn.target].release = txn.release /\ txn.release > 1
  /\ (pc \in {"start", "up"} /\ txn.status = "trial" /\ txn.hasApp) =>
        (chosen \in Slot => txn.release > slot[chosen].release)
  /\ (txn.status = "committing" /\ txn.hasApp) => slot[txn.target].release = txn.release

\* The inductive invariant of the refinement.
RInv == /\ IInv
        /\ Runs
        /\ Regular => Parts
        /\ WholeOnes
        /\ exposed = {} => Numbered

-----------------------------------------------------------------------------
(* The invariant of the refinement, part by part.                          *)

\* What has happened is not forgotten.
LEMMA ExposedStep ==
  ASSUME Next
  PROVE  exposed \subseteq exposed'
<1> USE DEF files
<1>1. CASE Staging
  BY <1>1
  DEF Staging, Stage, StageReady, StageFails, Configure, Discard, DropState
<1>2. CASE Activation
  BY <1>2
  DEF Activation, BootConsole, BootActivate, Reclaim, BeginActivation, BackUpSettings,
       NoteApplied, WriteSettings, InstallPart, SealSlot, BeginTrial, ActivationFails
<1>3. CASE Rollback
  BY <1>3
  DEF Rollback, RbSettings, RbSelect, RbTree, RbBackup, RbBundle, RbState
<1>4. CASE Commit
  BY <1>4
  DEF Commit, Confirm, CommitSlots, CommitSequence, CommitBackup, CommitBundle, CommitState,
       CommitFails
<1>5. CASE Operation
  BY <1>5
  DEF Operation, StartApplication, ApplicationEnds, ConsoleRollback, ManualRollback,
       ManualSequence, BeginStrip, Strip
<1>6. CASE PowerLoss \/ PowerLossInReplace
  BY <1>6
  DEF PowerLoss, PowerLossInReplace, TearTransaction, TearSlots, TearSettings, TearOthers
<1> QED
  BY <1>1, <1>2, <1>3, <1>4, <1>5, <1>6 DEF Next

LEMMA RegularStep ==
  ASSUME Regular', Next
  PROVE  Regular
BY ExposedStep DEF Regular

\* What is started is an application.
LEMMA RootRuns ==
  ASSUME IInv
  PROVE  ApplicationRoot # Off
BY ActiveIsChosen DEF IInv, ApplicationRoot, Slot, NoSlot, Root, Off

\* An application is started at the last step of a boot, and ends with the steps it serves.
LEMMA RunsStep ==
  ASSUME IInv, Runs, Next
  PROVE  Runs'
<1> USE DEF Runs, Serving, Committing, Goto, Resume, files, Off
<1>1. CASE Staging
  BY <1>1
  DEF Staging, Stage, StageReady, StageFails, Configure, Discard, DropState
<1>2. CASE Activation
  BY <1>2
  DEF Activation, BootConsole, BootActivate, Reclaim, BeginActivation, BackUpSettings,
       NoteApplied, WriteSettings, InstallPart, SealSlot, BeginTrial, ActivationFails
<1>3. CASE Rollback
  BY <1>3
  DEF Rollback, RbSettings, RbSelect, RbTree, RbBackup, RbBundle, RbState
<1>4. CASE Commit
  BY <1>4
  DEF Commit, Confirm, CommitSlots, CommitSequence, CommitBackup, CommitBundle, CommitState,
       CommitFails
<1>5. CASE Operation
  BY <1>5, RootRuns
  DEF Operation, StartApplication, ApplicationEnds, ConsoleRollback, ManualRollback,
       ManualSequence, BeginStrip, Strip
<1>6. CASE PowerLoss \/ PowerLossInReplace
  BY <1>6
  DEF PowerLoss, PowerLossInReplace, TearTransaction, TearSlots, TearSettings, TearOthers
<1> QED
  BY <1>1, <1>2, <1>3, <1>4, <1>5, <1>6 DEF Next

LEMMA IdleFacts ==
  /\ Idle.status = "idle" /\ Idle.applied = "no" /\ Idle.target = NoSlot
  /\ Idle.previous = NoSlot /\ Idle.hasApp = FALSE /\ Idle.settings = FALSE
BY DEF Idle

\* Every handler leaves the record in the status its next step expects.
LEMMA TableStep ==
  ASSUME IInv, Runs, Table, Recorded, Regular', Next
  PROVE  Table'
<1> USE DEF Table, Runs, Installing, Undoing, Committing, Serving, Goto, Resume, Regular, files,
     IInv, TypeOK, Transaction, Status
<1>1. CASE Staging
  <2>1. CASE Stage
    BY <2>1 DEF Stage
  <2>2. CASE StageReady
    BY <2>2 DEF StageReady, Idle
  <2>3. CASE StageFails
    BY <2>3, IdleFacts DEF StageFails
  <2>4. CASE Configure
    BY <2>4 DEF Configure
  <2>5. CASE Discard
    BY <2>5 DEF Discard
  <2>6. CASE DropState
    BY <2>6, IdleFacts DEF DropState
  <2> QED
    BY <1>1, <2>1, <2>2, <2>3, <2>4, <2>5, <2>6 DEF Staging
<1>2. CASE Activation
  BY <1>2
  DEF Activation, BootConsole, BootActivate, Reclaim, BeginActivation, BackUpSettings,
       NoteApplied, WriteSettings, InstallPart, SealSlot, BeginTrial, ActivationFails
<1>3. CASE Rollback
  <2>1. CASE RbSettings
    BY <2>1 DEF RbSettings
  <2>2. CASE RbSelect
    BY <2>2 DEF RbSelect
  <2>3. CASE RbTree
    BY <2>3 DEF RbTree
  <2>4. CASE RbBackup
    BY <2>4 DEF RbBackup
  <2>5. CASE RbBundle
    BY <2>5 DEF RbBundle
  <2>6. CASE RbState
    BY <2>6, IdleFacts DEF RbState
  <2> QED
    BY <1>3, <2>1, <2>2, <2>3, <2>4, <2>5, <2>6 DEF Rollback
<1>4. CASE Commit
  <2>1. CASE Confirm
    BY <2>1 DEF Confirm
  <2>2. CASE CommitSlots
    BY <2>2 DEF CommitSlots
  <2>3. CASE CommitSequence
    BY <2>3 DEF CommitSequence
  <2>4. CASE CommitBackup
    BY <2>4 DEF CommitBackup
  <2>5. CASE CommitBundle
    BY <2>5 DEF CommitBundle
  <2>6. CASE CommitState
    BY <2>6, IdleFacts DEF CommitState
  <2>7. CASE CommitFails
    BY <2>7 DEF CommitFails
  <2> QED
    BY <1>4, <2>1, <2>2, <2>3, <2>4, <2>5, <2>6, <2>7 DEF Commit
<1>5. CASE Operation
  BY <1>5
  DEF Operation, StartApplication, ApplicationEnds, ConsoleRollback, ManualRollback,
       ManualSequence, BeginStrip, Strip
<1>6. CASE PowerLoss \/ PowerLossInReplace
  BY <1>6, IdleFacts
  DEF PowerLoss, PowerLossInReplace, TearTransaction, TearSlots, TearSettings, TearOthers
<1> QED
  BY <1>1, <1>2, <1>3, <1>4, <1>5, <1>6 DEF Next

\* The record names a slot only with an update of the application, and not the one that would boot.
LEMMA RecordedStep ==
  ASSUME IInv, Table, Recorded, Regular', Next
  PROVE  Recorded'
<1> USE DEF Recorded, Table, Installing, Undoing, Committing, Goto, Resume, Regular, files,
     IInv, TypeOK, Transaction, Status
<1>1. CASE Staging
  <2>1. CASE Stage
    BY <2>1 DEF Stage
  <2>2. CASE StageReady
    BY <2>2 DEF StageReady, Idle
  <2>3. CASE StageFails
    BY <2>3, IdleFacts DEF StageFails
  <2>4. CASE Configure
    BY <2>4 DEF Configure
  <2>5. CASE Discard
    BY <2>5 DEF Discard
  <2>6. CASE DropState
    BY <2>6, IdleFacts DEF DropState
  <2> QED
    BY <1>1, <2>1, <2>2, <2>3, <2>4, <2>5, <2>6 DEF Staging
<1>2. CASE Activation
  <2>1. CASE BootConsole
    BY <2>1 DEF BootConsole
  <2>2. CASE BootActivate
    BY <2>2 DEF BootActivate
  <2>3. CASE Reclaim
    BY <2>3 DEF Reclaim
  <2>4. CASE BeginActivation
    BY <2>4, ActiveIsChosen, OtherSlot DEF BeginActivation
  <2>5. CASE BackUpSettings
    BY <2>5 DEF BackUpSettings
  <2>6. CASE NoteApplied
    BY <2>6 DEF NoteApplied
  <2>7. CASE WriteSettings
    BY <2>7 DEF WriteSettings
  <2>8. CASE InstallPart
    BY <2>8 DEF InstallPart
  <2>9. CASE SealSlot
    BY <2>9 DEF SealSlot
  <2>10. CASE BeginTrial
    BY <2>10 DEF BeginTrial
  <2>11. CASE ActivationFails
    BY <2>11 DEF ActivationFails
  <2> QED
    BY <1>2, <2>1, <2>2, <2>3, <2>4, <2>5, <2>6, <2>7, <2>8, <2>9, <2>10, <2>11 DEF Activation
<1>3. CASE Rollback
  <2>1. CASE RbSettings
    BY <2>1 DEF RbSettings
  <2>2. CASE RbSelect
    BY <2>2 DEF RbSelect
  <2>3. CASE RbTree
    BY <2>3 DEF RbTree
  <2>4. CASE RbBackup
    BY <2>4 DEF RbBackup
  <2>5. CASE RbBundle
    BY <2>5 DEF RbBundle
  <2>6. CASE RbState
    BY <2>6, IdleFacts DEF RbState
  <2> QED
    BY <1>3, <2>1, <2>2, <2>3, <2>4, <2>5, <2>6 DEF Rollback
<1>4. CASE Commit
  <2>1. CASE Confirm
    BY <2>1 DEF Confirm
  <2>2. CASE CommitSlots
    BY <2>2 DEF CommitSlots
  <2>3. CASE CommitSequence
    BY <2>3 DEF CommitSequence
  <2>4. CASE CommitBackup
    BY <2>4 DEF CommitBackup
  <2>5. CASE CommitBundle
    BY <2>5 DEF CommitBundle
  <2>6. CASE CommitState
    BY <2>6, IdleFacts DEF CommitState
  <2>7. CASE CommitFails
    BY <2>7 DEF CommitFails
  <2> QED
    BY <1>4, <2>1, <2>2, <2>3, <2>4, <2>5, <2>6, <2>7 DEF Commit
<1>5. CASE Operation
  <2>1. CASE StartApplication
    BY <2>1 DEF StartApplication
  <2>2. CASE ApplicationEnds
    BY <2>2 DEF ApplicationEnds
  <2>3. CASE ConsoleRollback
    BY <2>3 DEF ConsoleRollback
  <2>4. CASE ManualRollback
    BY <2>4 DEF ManualRollback
  <2>5. CASE ManualSequence
    BY <2>5 DEF ManualSequence
  <2>6. CASE BeginStrip
    BY <2>6 DEF BeginStrip
  <2>7. CASE Strip
    BY <2>7 DEF Strip
  <2> QED
    BY <1>5, <2>1, <2>2, <2>3, <2>4, <2>5, <2>6, <2>7 DEF Operation
<1>6. CASE PowerLoss \/ PowerLossInReplace
  BY <1>6, IdleFacts, OtherSlot
  DEF PowerLoss, PowerLossInReplace, TearTransaction, TearSlots, TearSettings, TearOthers
<1> QED
  BY <1>1, <1>2, <1>3, <1>4, <1>5, <1>6 DEF Next

\* Unlinking a file leaves the release of what remains.
LEMMA RemoveKeeps ==
  ASSUME TypeOK, NEW s \in Slot, RemovePart(s),
         \A t \in Slot : slot[t].parts # {} => slot[t].release # 0
  PROVE  /\ \A t \in Slot : slot'[t].parts # {} => slot'[t].release # 0
         /\ slot'[s].parts \subseteq slot[s].parts
         /\ Whole(s)' => Whole(s) /\ slot'[s].release = slot[s].release
<1>1. PICK p \in slot[s].parts : slot' = [slot EXCEPT ![s] = Without(s, p)]
  BY DEF RemovePart
<1>2. slot \in [Slot -> [release : Generation, parts : SUBSET Part]]
  BY DEF TypeOK
<1>3. slot'[s] = Without(s, p) /\ \A t \in Slot : t # s => slot'[t] = slot[t]
  BY <1>1, <1>2
<1>4. CASE slot[s].parts = {p}
  <2>1. slot'[s].parts = {} /\ ~Whole(s)'
    BY <1>3, <1>4 DEF Without, Empty, Whole
  <2> QED
    BY <1>3, <2>1
<1>5. CASE slot[s].parts # {p}
  <2>1. slot'[s].parts = slot[s].parts \ {p} /\ slot'[s].release = slot[s].release
    BY <1>3, <1>5 DEF Without
  <2> QED
    BY <1>3, <2>1 DEF Whole
<1> QED
  BY <1>4, <1>5

\* Writing a file gives the slot the release of the bundle.
LEMMA InstallFacts ==
  ASSUME TypeOK, InstallPart
  PROVE  /\ txn.target \in Slot /\ slot'[txn.target].release = bundle
         /\ \A t \in Slot : t # txn.target => slot'[t] = slot[t]
BY DEF InstallPart, TypeOK

LEMMA SealFacts ==
  ASSUME TypeOK, SealSlot
  PROVE  /\ txn.target \in Slot /\ slot'[txn.target].release = slot[txn.target].release
         /\ slot[txn.target].parts # {}
         /\ \A t \in Slot : t # txn.target => slot'[t] = slot[t]
<1>1. /\ txn.target \in Slot /\ Whole(txn.target)
      /\ slot' = [slot EXCEPT ![txn.target].parts = @ \cup {"seal"}]
  BY DEF SealSlot
<1>2. slot \in [Slot -> [release : Generation, parts : SUBSET Part]]
  BY DEF TypeOK
<1> QED
  BY <1>1, <1>2 DEF Whole

\* There are two slots.
LEMMA OtherUnique == \A s, t \in Slot : s # t => Other(s) = t
BY DEF Other, Slot

\* The slot that is emptied is not the one that would boot.
LEMMA OtherFacts ==
  ASSUME IInv
  PROVE  /\ ActiveSlot = chosen /\ Other(ActiveSlot) \in Slot /\ Other(ActiveSlot) # chosen
         /\ chosen \in Slot \cup {NoSlot}
BY ActiveIsChosen, OtherSlot DEF IInv, TypeOK

\* What has files has a release.
LEMMA FiledStep ==
  ASSUME IInv, Table, Recorded, Filed, Regular', Next
  PROVE  Filed'
<1> USE DEF Filed, Table, Recorded, Installing, Undoing, Committing, Goto, Resume, Regular,
     files, IInv, TypeOK, Transaction, Status
<1>1. CASE Staging
  <2>1. CASE Stage
    BY <2>1 DEF Stage
  <2>2. CASE StageReady
    BY <2>2 DEF StageReady
  <2>3. CASE StageFails
    BY <2>3 DEF StageFails
  <2>4. CASE Configure
    BY <2>4 DEF Configure
  <2>5. CASE Discard
    BY <2>5 DEF Discard
  <2>6. CASE DropState
    BY <2>6 DEF DropState
  <2> QED
    BY <1>1, <2>1, <2>2, <2>3, <2>4, <2>5, <2>6 DEF Staging
<1>2. CASE Activation
  <2>1. CASE BootConsole
    BY <2>1 DEF BootConsole
  <2>2. CASE BootActivate
    BY <2>2 DEF BootActivate, ValidBundle
  <2>3. CASE Reclaim
    BY <2>3, OtherFacts, RemoveKeeps DEF Reclaim
  <2>4. CASE BeginActivation
    BY <2>4, ActiveIsChosen, OtherSlot DEF BeginActivation
  <2>5. CASE BackUpSettings
    BY <2>5 DEF BackUpSettings
  <2>6. CASE NoteApplied
    BY <2>6 DEF NoteApplied
  <2>7. CASE WriteSettings
    BY <2>7 DEF WriteSettings
  <2>8. CASE InstallPart
    BY <2>8, InstallFacts DEF InstallPart
  <2>9. CASE SealSlot
    <3>1. /\ \A t \in Slot : slot'[t].release = slot[t].release
          /\ \A t \in Slot : slot'[t].parts # {} => slot[t].parts # {}
      BY <2>9, SealFacts
    <3> QED
      BY <2>9, <3>1 DEF SealSlot
  <2>10. CASE BeginTrial
    BY <2>10 DEF BeginTrial
  <2>11. CASE ActivationFails
    BY <2>11 DEF ActivationFails
  <2> QED
    BY <1>2, <2>1, <2>2, <2>3, <2>4, <2>5, <2>6, <2>7, <2>8, <2>9, <2>10, <2>11 DEF Activation
<1>3. CASE Rollback
  <2>1. CASE RbSettings
    BY <2>1 DEF RbSettings
  <2>2. CASE RbSelect
    BY <2>2 DEF RbSelect
  <2>3. CASE RbTree
    BY <2>3, RemoveKeeps DEF RbTree
  <2>4. CASE RbBackup
    BY <2>4 DEF RbBackup
  <2>5. CASE RbBundle
    BY <2>5 DEF RbBundle
  <2>6. CASE RbState
    BY <2>6 DEF RbState
  <2> QED
    BY <1>3, <2>1, <2>2, <2>3, <2>4, <2>5, <2>6 DEF Rollback
<1>4. CASE Commit
  <2>1. CASE Confirm
    BY <2>1 DEF Confirm
  <2>2. CASE CommitSlots
    <3>1. CASE txn.hasApp
      <4>1. txn.target \in Slot /\ chosen' = txn.target
        BY <2>2, <3>1 DEF CommitSlots
      <4> QED
        BY <2>2, <4>1, OtherSlot DEF CommitSlots
    <3>2. CASE ~txn.hasApp
      BY <2>2, <3>2 DEF CommitSlots
    <3> QED
      BY <3>1, <3>2
  <2>3. CASE CommitSequence
    BY <2>3 DEF CommitSequence
  <2>4. CASE CommitBackup
    BY <2>4 DEF CommitBackup
  <2>5. CASE CommitBundle
    BY <2>5 DEF CommitBundle
  <2>6. CASE CommitState
    BY <2>6 DEF CommitState
  <2>7. CASE CommitFails
    BY <2>7 DEF CommitFails
  <2> QED
    BY <1>4, <2>1, <2>2, <2>3, <2>4, <2>5, <2>6, <2>7 DEF Commit
<1>5. CASE Operation
  <2>1. CASE StartApplication
    BY <2>1 DEF StartApplication
  <2>2. CASE ApplicationEnds
    BY <2>2 DEF ApplicationEnds
  <2>3. CASE ConsoleRollback
    BY <2>3 DEF ConsoleRollback
  <2>4. CASE ManualRollback
    BY <2>4, OtherSlot DEF ManualRollback, PreviousSlot
  <2>5. CASE ManualSequence
    BY <2>5 DEF ManualSequence
  <2>6. CASE BeginStrip
    BY <2>6 DEF BeginStrip
  <2>7. CASE Strip
    BY <2>7, OtherFacts, RemoveKeeps DEF Strip
  <2> QED
    BY <1>5, <2>1, <2>2, <2>3, <2>4, <2>5, <2>6, <2>7 DEF Operation
<1>6. CASE PowerLoss \/ PowerLossInReplace
  BY <1>6, OtherSlot
  DEF PowerLoss, PowerLossInReplace, TearTransaction, TearSlots, TearSettings, TearOthers
<1> QED
  BY <1>1, <1>2, <1>3, <1>4, <1>5, <1>6 DEF Next

\* The settings and their backup agree with the record, step by step.
LEMMA SavedStep ==
  ASSUME IInv, Runs, Table, Recorded, Filed, Saved, Regular', Next
  PROVE  Saved'
<1> USE DEF Saved, Filed, Table, Runs, Recorded, Installing, Undoing, Committing, Serving, Goto,
     Resume, Regular, files, IInv, TypeOK, Transaction, Status
<1>1. CASE Staging
  <2>1. CASE Stage
    BY <2>1 DEF Stage
  <2>2. CASE StageReady
    BY <2>2 DEF StageReady, Idle
  <2>3. CASE StageFails
    BY <2>3, IdleFacts DEF StageFails
  <2>4. CASE Configure
    BY <2>4 DEF Configure
  <2>5. CASE Discard
    BY <2>5 DEF Discard
  <2>6. CASE DropState
    BY <2>6, IdleFacts DEF DropState
  <2> QED
    BY <1>1, <2>1, <2>2, <2>3, <2>4, <2>5, <2>6 DEF Staging
<1>2. CASE Activation
  <2>1. CASE BootConsole
    BY <2>1 DEF BootConsole
  <2>2. CASE BootActivate
    BY <2>2 DEF BootActivate
  <2>3. CASE Reclaim
    BY <2>3 DEF Reclaim
  <2>4. CASE BeginActivation
    BY <2>4 DEF BeginActivation
  <2>5. CASE BackUpSettings
    BY <2>5 DEF BackUpSettings
  <2>6. CASE NoteApplied
    BY <2>6 DEF NoteApplied
  <2>7. CASE WriteSettings
    BY <2>7 DEF WriteSettings
  <2>8. CASE InstallPart
    BY <2>8 DEF InstallPart
  <2>9. CASE SealSlot
    BY <2>9 DEF SealSlot
  <2>10. CASE BeginTrial
    BY <2>10 DEF BeginTrial
  <2>11. CASE ActivationFails
    BY <2>11 DEF ActivationFails
  <2> QED
    BY <1>2, <2>1, <2>2, <2>3, <2>4, <2>5, <2>6, <2>7, <2>8, <2>9, <2>10, <2>11 DEF Activation
<1>3. CASE Rollback
  <2>1. CASE RbSettings
    BY <2>1 DEF RbSettings
  <2>2. CASE RbSelect
    BY <2>2 DEF RbSelect
  <2>3. CASE RbTree
    BY <2>3 DEF RbTree
  <2>4. CASE RbBackup
    BY <2>4 DEF RbBackup
  <2>5. CASE RbBundle
    BY <2>5 DEF RbBundle
  <2>6. CASE RbState
    BY <2>6, IdleFacts DEF RbState
  <2> QED
    BY <1>3, <2>1, <2>2, <2>3, <2>4, <2>5, <2>6 DEF Rollback
<1>4. CASE Commit
  <2>1. CASE Confirm
    BY <2>1 DEF Confirm
  <2>2. CASE CommitSlots
    BY <2>2 DEF CommitSlots
  <2>3. CASE CommitSequence
    BY <2>3 DEF CommitSequence
  <2>4. CASE CommitBackup
    BY <2>4 DEF CommitBackup
  <2>5. CASE CommitBundle
    BY <2>5 DEF CommitBundle
  <2>6. CASE CommitState
    BY <2>6, IdleFacts DEF CommitState
  <2>7. CASE CommitFails
    BY <2>7 DEF CommitFails
  <2> QED
    BY <1>4, <2>1, <2>2, <2>3, <2>4, <2>5, <2>6, <2>7 DEF Commit
<1>5. CASE Operation
  <2>1. CASE StartApplication
    BY <2>1 DEF StartApplication
  <2>2. CASE ApplicationEnds
    BY <2>2 DEF ApplicationEnds
  <2>3. CASE ConsoleRollback
    BY <2>3 DEF ConsoleRollback
  <2>4. CASE ManualRollback
    BY <2>4 DEF ManualRollback
  <2>5. CASE ManualSequence
    BY <2>5 DEF ManualSequence
  <2>6. CASE BeginStrip
    BY <2>6 DEF BeginStrip
  <2>7. CASE Strip
    BY <2>7 DEF Strip
  <2> QED
    BY <1>5, <2>1, <2>2, <2>3, <2>4, <2>5, <2>6, <2>7 DEF Operation
<1>6. CASE PowerLoss \/ PowerLossInReplace
  BY <1>6, IdleFacts
  DEF PowerLoss, PowerLossInReplace, TearTransaction, TearSlots, TearSettings, TearOthers
<1> QED
  BY <1>1, <1>2, <1>3, <1>4, <1>5, <1>6 DEF Next

\* The slot of the update is whole on trial, selected when committed, and empty when undone.
LEMMA PlacedStep ==
  ASSUME IInv, Runs, Table, Recorded, Filed, Placed, Regular', Next
  PROVE  Placed'
<1> USE DEF Placed, Table, Runs, Recorded, Installing, Undoing, Committing, Serving, Goto,
     Resume, Regular, files, IInv, TypeOK, Transaction, Status
<1>1. CASE Staging
  <2>1. CASE Stage
    BY <2>1 DEF Stage
  <2>2. CASE StageReady
    BY <2>2 DEF StageReady, Idle
  <2>3. CASE StageFails
    BY <2>3, IdleFacts, OtherSlot DEF StageFails
  <2>4. CASE Configure
    BY <2>4 DEF Configure
  <2>5. CASE Discard
    BY <2>5 DEF Discard
  <2>6. CASE DropState
    BY <2>6, IdleFacts, OtherSlot DEF DropState
  <2> QED
    BY <1>1, <2>1, <2>2, <2>3, <2>4, <2>5, <2>6 DEF Staging
<1>2. CASE Activation
  <2>1. CASE BootConsole
    BY <2>1 DEF BootConsole
  <2>2. CASE BootActivate
    BY <2>2 DEF BootActivate
  <2>3. CASE Reclaim
    BY <2>3 DEF Reclaim
  <2>4. CASE BeginActivation
    BY <2>4 DEF BeginActivation
  <2>5. CASE BackUpSettings
    BY <2>5 DEF BackUpSettings
  <2>6. CASE NoteApplied
    BY <2>6 DEF NoteApplied
  <2>7. CASE WriteSettings
    BY <2>7 DEF WriteSettings
  <2>8. CASE InstallPart
    BY <2>8 DEF InstallPart
  <2>9. CASE SealSlot
    BY <2>9 DEF SealSlot
  <2>10. CASE BeginTrial
    BY <2>10 DEF BeginTrial
  <2>11. CASE ActivationFails
    BY <2>11 DEF ActivationFails
  <2> QED
    BY <1>2, <2>1, <2>2, <2>3, <2>4, <2>5, <2>6, <2>7, <2>8, <2>9, <2>10, <2>11 DEF Activation
<1>3. CASE Rollback
  <2>1. CASE RbSettings
    BY <2>1 DEF RbSettings
  <2>2. CASE RbSelect
    BY <2>2 DEF RbSelect
  <2>3. CASE RbTree
    BY <2>3, RemoveKeeps DEF RbTree
  <2>4. CASE RbBackup
    BY <2>4 DEF RbBackup
  <2>5. CASE RbBundle
    BY <2>5 DEF RbBundle
  <2>6. CASE RbState
    BY <2>6, IdleFacts, OtherSlot DEF RbState
  <2> QED
    BY <1>3, <2>1, <2>2, <2>3, <2>4, <2>5, <2>6 DEF Rollback
<1>4. CASE Commit
  <2>1. CASE Confirm
    BY <2>1 DEF Confirm
  <2>2. CASE CommitSlots
    BY <2>2, OtherSlot DEF CommitSlots
  <2>3. CASE CommitSequence
    BY <2>3 DEF CommitSequence
  <2>4. CASE CommitBackup
    BY <2>4 DEF CommitBackup
  <2>5. CASE CommitBundle
    BY <2>5 DEF CommitBundle
  <2>6. CASE CommitState
    BY <2>6, IdleFacts, OtherSlot DEF CommitState
  <2>7. CASE CommitFails
    BY <2>7 DEF CommitFails
  <2> QED
    BY <1>4, <2>1, <2>2, <2>3, <2>4, <2>5, <2>6, <2>7 DEF Commit
<1>5. CASE Operation
  <2>1. CASE StartApplication
    BY <2>1 DEF StartApplication
  <2>2. CASE ApplicationEnds
    BY <2>2 DEF ApplicationEnds
  <2>3. CASE ConsoleRollback
    BY <2>3 DEF ConsoleRollback
  <2>4. CASE ManualRollback
    BY <2>4 DEF ManualRollback
  <2>5. CASE ManualSequence
    BY <2>5 DEF ManualSequence
  <2>6. CASE BeginStrip
    BY <2>6 DEF BeginStrip
  <2>7. CASE Strip
    BY <2>7 DEF Strip
  <2> QED
    BY <1>5, <2>1, <2>2, <2>3, <2>4, <2>5, <2>6, <2>7 DEF Operation
<1>6. CASE PowerLoss \/ PowerLossInReplace
  BY <1>6, IdleFacts, OtherSlot
  DEF PowerLoss, PowerLossInReplace, TearTransaction, TearSlots, TearSettings, TearOthers
<1> QED
  BY <1>1, <1>2, <1>3, <1>4, <1>5, <1>6 DEF Next

\* What is selected is whole, and what is on trial is before it is selected.
LEMMA WholeOnesStep ==
  ASSUME IInv, Regular => Parts, WholeOnes, Next
  PROVE  WholeOnes'
<1> USE DEF WholeOnes, Regular, Parts, Whole, Placed, Table, Recorded, Installing, Undoing,
     Committing, Goto, Resume, Regular, files, IInv, TypeOK, Transaction, Status
<1>1. CASE Staging
  <2>1. CASE Stage
    BY <2>1 DEF Stage
  <2>2. CASE StageReady
    BY <2>2 DEF StageReady, Idle
  <2>3. CASE StageFails
    BY <2>3, IdleFacts, OtherSlot DEF StageFails
  <2>4. CASE Configure
    BY <2>4 DEF Configure
  <2>5. CASE Discard
    BY <2>5 DEF Discard
  <2>6. CASE DropState
    BY <2>6, IdleFacts, OtherSlot DEF DropState
  <2> QED
    BY <1>1, <2>1, <2>2, <2>3, <2>4, <2>5, <2>6 DEF Staging
<1>2. CASE Activation
  <2>1. CASE BootConsole
    BY <2>1 DEF BootConsole
  <2>2. CASE BootActivate
    BY <2>2 DEF BootActivate
  <2>3. CASE Reclaim
    BY <2>3, OtherFacts, RemovePartFacts DEF Reclaim
  <2>4. CASE BeginActivation
    BY <2>4 DEF BeginActivation
  <2>5. CASE BackUpSettings
    BY <2>5 DEF BackUpSettings
  <2>6. CASE NoteApplied
    BY <2>6 DEF NoteApplied
  <2>7. CASE WriteSettings
    BY <2>7 DEF WriteSettings
  <2>8. CASE InstallPart
    BY <2>8, InstallFacts DEF InstallPart
  <2>9. CASE SealSlot
    BY <2>9, SealFacts DEF SealSlot
  <2>10. CASE BeginTrial
    BY <2>10 DEF BeginTrial
  <2>11. CASE ActivationFails
    BY <2>11 DEF ActivationFails
  <2> QED
    BY <1>2, <2>1, <2>2, <2>3, <2>4, <2>5, <2>6, <2>7, <2>8, <2>9, <2>10, <2>11 DEF Activation
<1>3. CASE Rollback
  <2>1. CASE RbSettings
    BY <2>1 DEF RbSettings
  <2>2. CASE RbSelect
    BY <2>2 DEF RbSelect
  <2>3. CASE RbTree
    <3>1. /\ txn' = txn /\ chosen' = chosen /\ exposed' = exposed
          /\ Regular => txn.status # "committing"
          /\ \A t \in Slot : t # txn.target => slot'[t] = slot[t]
          /\ txn.target \in Slot => txn.target # chosen
      <4>1. CASE txn.target \in Slot /\ slot[txn.target].parts # {}
        BY <2>3, <4>1, RemovePartFacts DEF RbTree, SlotPointers
      <4>2. CASE ~(txn.target \in Slot /\ slot[txn.target].parts # {})
        BY <2>3, <4>2 DEF RbTree, SlotPointers
      <4> QED
        BY <4>1, <4>2
    <3> QED
      BY <3>1
  <2>4. CASE RbBackup
    BY <2>4 DEF RbBackup
  <2>5. CASE RbBundle
    BY <2>5 DEF RbBundle
  <2>6. CASE RbState
    BY <2>6, IdleFacts, OtherSlot DEF RbState
  <2> QED
    BY <1>3, <2>1, <2>2, <2>3, <2>4, <2>5, <2>6 DEF Rollback
<1>4. CASE Commit
  <2>1. CASE Confirm
    <3>1. /\ pc = "up" /\ txn.status = "trial" /\ UNCHANGED <<slot, chosen, exposed>>
          /\ txn'.target = txn.target /\ txn'.hasApp = txn.hasApp
      BY <2>1 DEF Confirm
    <3>2. Regular => (txn.hasApp => Whole(txn.target))
      BY <3>1 DEF Part
    <3> QED
      BY <3>1, <3>2
  <2>2. CASE CommitSlots
    BY <2>2, OtherSlot DEF CommitSlots
  <2>3. CASE CommitSequence
    BY <2>3 DEF CommitSequence
  <2>4. CASE CommitBackup
    BY <2>4 DEF CommitBackup
  <2>5. CASE CommitBundle
    BY <2>5 DEF CommitBundle
  <2>6. CASE CommitState
    BY <2>6, IdleFacts, OtherSlot DEF CommitState
  <2>7. CASE CommitFails
    BY <2>7 DEF CommitFails
  <2> QED
    BY <1>4, <2>1, <2>2, <2>3, <2>4, <2>5, <2>6, <2>7 DEF Commit
<1>5. CASE Operation
  <2>1. CASE StartApplication
    BY <2>1 DEF StartApplication
  <2>2. CASE ApplicationEnds
    BY <2>2 DEF ApplicationEnds
  <2>3. CASE ConsoleRollback
    BY <2>3 DEF ConsoleRollback
  <2>4. CASE ManualRollback
    BY <2>4 DEF ManualRollback, PreviousSlot
  <2>5. CASE ManualSequence
    BY <2>5 DEF ManualSequence
  <2>6. CASE BeginStrip
    BY <2>6 DEF BeginStrip
  <2>7. CASE Strip
    BY <2>7, OtherFacts, RemovePartFacts DEF Strip
  <2> QED
    BY <1>5, <2>1, <2>2, <2>3, <2>4, <2>5, <2>6, <2>7 DEF Operation
<1>6. CASE PowerLoss \/ PowerLossInReplace
  BY <1>6, IdleFacts, OtherSlot
  DEF PowerLoss, PowerLossInReplace, TearTransaction, TearSlots, TearSettings, TearOthers
<1> QED
  BY <1>1, <1>2, <1>3, <1>4, <1>5, <1>6 DEF Next

\* The numbers of bundle, record and slots agree.
LEMMA NumberedStep ==
  ASSUME IInv, Parts, Numbered, exposed' = {}, exposed = {}, Next
  PROVE  Numbered'
<1> USE DEF Numbered, Parts, Table, Recorded, Filed, Placed, Installing, Undoing, Committing,
     Whole, Goto, Resume, files, IInv, TypeOK, Transaction, Status
<1>1. CASE Staging
  <2>1. CASE Stage
    BY <2>1 DEF Stage, Release, Installed
  <2>2. CASE StageReady
    BY <2>2 DEF StageReady, Idle
  <2>3. CASE StageFails
    BY <2>3, IdleFacts, OtherSlot DEF StageFails, Mismatch
  <2>4. CASE Configure
    BY <2>4 DEF Configure
  <2>5. CASE Discard
    BY <2>5 DEF Discard
  <2>6. CASE DropState
    BY <2>6, IdleFacts, OtherSlot DEF DropState
  <2> QED
    BY <1>1, <2>1, <2>2, <2>3, <2>4, <2>5, <2>6 DEF Staging
<1>2. CASE Activation
  <2>1. CASE BootConsole
    BY <2>1 DEF BootConsole
  <2>2. CASE BootActivate
    <3>1. CASE txn.status = "ready" /\ ValidBundle
      <4>1. pc' = "reclaim" /\ pc # "stage" /\ UNCHANGED files
        BY <2>2, <3>1 DEF BootActivate
      <4>2. bundle = txn.release /\ bundle > 1
        <5>1. bundle # 0 /\ bundle # 1 /\ bundle \in Nat
          BY <3>1 DEF ValidBundle, Generation
        <5> QED
          BY <3>1, <4>1, <5>1
      <4>3. chosen \in Slot => bundle > slot[chosen].release
        <5>1. chosen \in Slot => slot[chosen].parts # {}
          BY DEF SlotPointers
        <5>2. chosen \in Slot => seq[chosen] = slot[chosen].release /\ seq[chosen] # 0
          BY <5>1
        <5> QED
          BY <3>1, <5>2 DEF ValidBundle, Installed
      <4> QED
        BY <3>1, <4>1, <4>2, <4>3
    <3>2. CASE ~(txn.status = "ready" /\ ValidBundle)
      BY <2>2, <3>2 DEF BootActivate
    <3> QED
      BY <3>1, <3>2
  <2>3. CASE Reclaim
    BY <2>3, OtherFacts, RemovePartFacts DEF Reclaim
  <2>4. CASE BeginActivation
    <3>1. /\ pc = "reclaim" /\ pc' = "install" /\ UNCHANGED <<bundle, slot, chosen, seq>>
          /\ txn'.status = "activating" /\ txn'.release = txn.release
          /\ txn'.target = (IF txn.hasApp THEN Other(ActiveSlot) ELSE NoSlot)
          /\ txn.hasApp => slot[Other(ActiveSlot)] = Empty
      BY <2>4 DEF BeginActivation
    <3>2. txn'.target \in Slot => slot[txn'.target].parts = {}
      BY <3>1, OtherSlot DEF Empty
    <3> QED
      BY <3>1, <3>2
  <2>5. CASE BackUpSettings
    BY <2>5 DEF BackUpSettings
  <2>6. CASE NoteApplied
    BY <2>6 DEF NoteApplied
  <2>7. CASE WriteSettings
    BY <2>7 DEF WriteSettings
  <2>8. CASE InstallPart
    BY <2>8, InstallFacts DEF InstallPart
  <2>9. CASE SealSlot
    BY <2>9, SealFacts DEF SealSlot
  <2>10. CASE BeginTrial
    <3>1. /\ pc = "install" /\ pc' = "start" /\ UNCHANGED <<bundle, slot, chosen, seq>>
          /\ txn'.status = "trial" /\ txn'.release = txn.release /\ txn'.hasApp = txn.hasApp
          /\ txn'.target = txn.target
          /\ txn.target \in Slot => slot[txn.target].parts = Part
      BY <2>10 DEF BeginTrial
    <3>2. txn.hasApp => slot[txn.target].release = txn.release
      BY <3>1 DEF Part
    <3> QED
      BY <3>1, <3>2
  <2>11. CASE ActivationFails
    BY <2>11 DEF ActivationFails
  <2> QED
    BY <1>2, <2>1, <2>2, <2>3, <2>4, <2>5, <2>6, <2>7, <2>8, <2>9, <2>10, <2>11 DEF Activation
<1>3. CASE Rollback
  <2>1. CASE RbSettings
    BY <2>1 DEF RbSettings
  <2>2. CASE RbSelect
    BY <2>2 DEF RbSelect
  <2>3. CASE RbTree
    BY <2>3, RemovePartFacts DEF RbTree
  <2>4. CASE RbBackup
    BY <2>4 DEF RbBackup
  <2>5. CASE RbBundle
    BY <2>5 DEF RbBundle
  <2>6. CASE RbState
    BY <2>6, IdleFacts, OtherSlot DEF RbState
  <2> QED
    BY <1>3, <2>1, <2>2, <2>3, <2>4, <2>5, <2>6 DEF Rollback
<1>4. CASE Commit
  <2>1. CASE Confirm
    BY <2>1 DEF Confirm
  <2>2. CASE CommitSlots
    BY <2>2, OtherSlot DEF CommitSlots
  <2>3. CASE CommitSequence
    BY <2>3 DEF CommitSequence
  <2>4. CASE CommitBackup
    BY <2>4 DEF CommitBackup
  <2>5. CASE CommitBundle
    BY <2>5 DEF CommitBundle
  <2>6. CASE CommitState
    BY <2>6, IdleFacts, OtherSlot DEF CommitState
  <2>7. CASE CommitFails
    BY <2>7 DEF CommitFails
  <2> QED
    BY <1>4, <2>1, <2>2, <2>3, <2>4, <2>5, <2>6, <2>7 DEF Commit
<1>5. CASE Operation
  <2>1. CASE StartApplication
    BY <2>1 DEF StartApplication
  <2>2. CASE ApplicationEnds
    BY <2>2 DEF ApplicationEnds
  <2>3. CASE ConsoleRollback
    BY <2>3 DEF ConsoleRollback
  <2>4. CASE ManualRollback
    BY <2>4 DEF ManualRollback, PreviousSlot
  <2>5. CASE ManualSequence
    BY <2>5 DEF ManualSequence
  <2>6. CASE BeginStrip
    BY <2>6 DEF BeginStrip
  <2>7. CASE Strip
    BY <2>7, OtherFacts, RemovePartFacts DEF Strip
  <2> QED
    BY <1>5, <2>1, <2>2, <2>3, <2>4, <2>5, <2>6, <2>7 DEF Operation
<1>6. CASE PowerLoss \/ PowerLossInReplace
  BY <1>6, IdleFacts, OtherSlot
  DEF PowerLoss, PowerLossInReplace, TearTransaction, TearSlots, TearSettings, TearOthers,
       Mismatch
<1> QED
  BY <1>1, <1>2, <1>3, <1>4, <1>5, <1>6 DEF Next

-----------------------------------------------------------------------------
(* The refinement: each step of the updater is a step of AtomicRelease or  *)
(* a stutter of it.                                                        *)

Nothing == [app |-> 0, settings |-> 0]

\* The events after which AtomicRelease is given up; a bundle that is not the recorded one
\* ("mismatched") is not among them.
Uncovered == {"torn", "overwritten", "unconfirmed slot", "commit undone"}
Clean == exposed \cap Uncovered = {}

LEMMA CleanStep ==
  ASSUME Clean', Next
  PROVE  Clean
BY ExposedStep DEF Clean

\* What the steps below know: nothing uncovered has happened, before or after them.
Sound == IInv /\ Runs /\ Parts /\ Clean'

\* Only a confirmed trial and a rollback by hand change the installed application.
LEMMA AppStep ==
  ASSUME Sound, ~Confirm, ~ManualRollback, Next
  PROVE  InstalledApp' = InstalledApp
<1> USE DEF InstalledApp, Placed, Sound, Clean, Uncovered, Parts, Table, Runs, Recorded,
     Installing, Undoing, Committing, Serving, Goto, Resume, Regular, files, IInv, TypeOK,
     Transaction, Status
<1>1. CASE Staging
  <2>1. CASE Stage
    BY <2>1 DEF Stage
  <2>2. CASE StageReady
    BY <2>2 DEF StageReady, Idle
  <2>3. CASE StageFails
    BY <2>3, IdleFacts DEF StageFails
  <2>4. CASE Configure
    BY <2>4 DEF Configure
  <2>5. CASE Discard
    BY <2>5 DEF Discard
  <2>6. CASE DropState
    BY <2>6, IdleFacts DEF DropState
  <2> QED
    BY <1>1, <2>1, <2>2, <2>3, <2>4, <2>5, <2>6 DEF Staging
<1>2. CASE Activation
  <2>1. CASE BootConsole
    BY <2>1 DEF BootConsole
  <2>2. CASE BootActivate
    BY <2>2 DEF BootActivate
  <2>3. CASE Reclaim
    BY <2>3, OtherFacts, RemovePartFacts DEF Reclaim
  <2>4. CASE BeginActivation
    BY <2>4 DEF BeginActivation
  <2>5. CASE BackUpSettings
    BY <2>5 DEF BackUpSettings
  <2>6. CASE NoteApplied
    BY <2>6 DEF NoteApplied
  <2>7. CASE WriteSettings
    BY <2>7 DEF WriteSettings
  <2>8. CASE InstallPart
    BY <2>8, InstallFacts, OtherSlot DEF InstallPart
  <2>9. CASE SealSlot
    BY <2>9, SealFacts, OtherSlot DEF SealSlot
  <2>10. CASE BeginTrial
    BY <2>10 DEF BeginTrial
  <2>11. CASE ActivationFails
    BY <2>11 DEF ActivationFails
  <2> QED
    BY <1>2, <2>1, <2>2, <2>3, <2>4, <2>5, <2>6, <2>7, <2>8, <2>9, <2>10, <2>11 DEF Activation
<1>3. CASE Rollback
  <2>1. CASE RbSettings
    BY <2>1 DEF RbSettings
  <2>2. CASE RbSelect
    BY <2>2 DEF RbSelect
  <2>3. CASE RbTree
    BY <2>3, RemovePartFacts, OtherSlot DEF RbTree
  <2>4. CASE RbBackup
    BY <2>4 DEF RbBackup
  <2>5. CASE RbBundle
    BY <2>5 DEF RbBundle
  <2>6. CASE RbState
    BY <2>6, IdleFacts, OtherSlot DEF RbState
  <2> QED
    BY <1>3, <2>1, <2>2, <2>3, <2>4, <2>5, <2>6 DEF Rollback
<1>4. CASE Commit
  <2>1. CASE Confirm
    BY <2>1 DEF Confirm
  <2>2. CASE CommitSlots
    BY <2>2 DEF CommitSlots
  <2>3. CASE CommitSequence
    BY <2>3 DEF CommitSequence
  <2>4. CASE CommitBackup
    BY <2>4 DEF CommitBackup
  <2>5. CASE CommitBundle
    BY <2>5 DEF CommitBundle
  <2>6. CASE CommitState
    BY <2>6, IdleFacts, OtherSlot DEF CommitState
  <2>7. CASE CommitFails
    BY <2>7 DEF CommitFails
  <2> QED
    BY <1>4, <2>1, <2>2, <2>3, <2>4, <2>5, <2>6, <2>7 DEF Commit
<1>5. CASE Operation
  <2>1. CASE StartApplication
    BY <2>1 DEF StartApplication
  <2>2. CASE ApplicationEnds
    BY <2>2 DEF ApplicationEnds
  <2>3. CASE ConsoleRollback
    BY <2>3 DEF ConsoleRollback
  <2>4. CASE ManualRollback
    BY <2>4 DEF ManualRollback
  <2>5. CASE ManualSequence
    BY <2>5 DEF ManualSequence
  <2>6. CASE BeginStrip
    BY <2>6 DEF BeginStrip
  <2>7. CASE Strip
    BY <2>7, OtherFacts, RemovePartFacts DEF Strip
  <2> QED
    BY <1>5, <2>1, <2>2, <2>3, <2>4, <2>5, <2>6, <2>7 DEF Operation
<1>6. CASE PowerLoss \/ PowerLossInReplace
  BY <1>6, IdleFacts, OtherSlot
  DEF PowerLoss, PowerLossInReplace, TearTransaction, TearSlots, TearSettings, TearOthers
<1> QED
  BY <1>1, <1>2, <1>3, <1>4, <1>5, <1>6 DEF Next

\* And nothing but a confirmed trial changes the installed settings.
LEMMA SettingsStep ==
  ASSUME Sound, ~Confirm, Next
  PROVE  InstalledSettings' = InstalledSettings
<1> USE DEF InstalledSettings, Saved, Sound, Clean, Uncovered, Parts, Table, Runs, Recorded,
     Installing, Undoing, Committing, Serving, Goto, Resume, Regular, files, IInv, TypeOK,
     Transaction, Status
<1>1. CASE Staging
  <2>1. CASE Stage
    BY <2>1 DEF Stage
  <2>2. CASE StageReady
    BY <2>2 DEF StageReady, Idle
  <2>3. CASE StageFails
    BY <2>3, IdleFacts DEF StageFails
  <2>4. CASE Configure
    BY <2>4 DEF Configure
  <2>5. CASE Discard
    BY <2>5 DEF Discard
  <2>6. CASE DropState
    BY <2>6, IdleFacts DEF DropState
  <2> QED
    BY <1>1, <2>1, <2>2, <2>3, <2>4, <2>5, <2>6 DEF Staging
<1>2. CASE Activation
  <2>1. CASE BootConsole
    BY <2>1 DEF BootConsole
  <2>2. CASE BootActivate
    BY <2>2 DEF BootActivate
  <2>3. CASE Reclaim
    BY <2>3 DEF Reclaim
  <2>4. CASE BeginActivation
    BY <2>4 DEF BeginActivation
  <2>5. CASE BackUpSettings
    BY <2>5 DEF BackUpSettings
  <2>6. CASE NoteApplied
    BY <2>6 DEF NoteApplied
  <2>7. CASE WriteSettings
    BY <2>7 DEF WriteSettings
  <2>8. CASE InstallPart
    BY <2>8 DEF InstallPart
  <2>9. CASE SealSlot
    BY <2>9 DEF SealSlot
  <2>10. CASE BeginTrial
    BY <2>10 DEF BeginTrial
  <2>11. CASE ActivationFails
    BY <2>11 DEF ActivationFails
  <2> QED
    BY <1>2, <2>1, <2>2, <2>3, <2>4, <2>5, <2>6, <2>7, <2>8, <2>9, <2>10, <2>11 DEF Activation
<1>3. CASE Rollback
  <2>1. CASE RbSettings
    BY <2>1 DEF RbSettings
  <2>2. CASE RbSelect
    BY <2>2 DEF RbSelect
  <2>3. CASE RbTree
    BY <2>3 DEF RbTree
  <2>4. CASE RbBackup
    BY <2>4 DEF RbBackup
  <2>5. CASE RbBundle
    BY <2>5 DEF RbBundle
  <2>6. CASE RbState
    BY <2>6, IdleFacts DEF RbState
  <2> QED
    BY <1>3, <2>1, <2>2, <2>3, <2>4, <2>5, <2>6 DEF Rollback
<1>4. CASE Commit
  <2>1. CASE Confirm
    BY <2>1 DEF Confirm
  <2>2. CASE CommitSlots
    BY <2>2 DEF CommitSlots
  <2>3. CASE CommitSequence
    BY <2>3 DEF CommitSequence
  <2>4. CASE CommitBackup
    BY <2>4 DEF CommitBackup
  <2>5. CASE CommitBundle
    BY <2>5 DEF CommitBundle
  <2>6. CASE CommitState
    BY <2>6, IdleFacts DEF CommitState
  <2>7. CASE CommitFails
    BY <2>7 DEF CommitFails
  <2> QED
    BY <1>4, <2>1, <2>2, <2>3, <2>4, <2>5, <2>6, <2>7 DEF Commit
<1>5. CASE Operation
  <2>1. CASE StartApplication
    BY <2>1 DEF StartApplication
  <2>2. CASE ApplicationEnds
    BY <2>2 DEF ApplicationEnds
  <2>3. CASE ConsoleRollback
    BY <2>3 DEF ConsoleRollback
  <2>4. CASE ManualRollback
    BY <2>4 DEF ManualRollback
  <2>5. CASE ManualSequence
    BY <2>5 DEF ManualSequence
  <2>6. CASE BeginStrip
    BY <2>6 DEF BeginStrip
  <2>7. CASE Strip
    BY <2>7 DEF Strip
  <2> QED
    BY <1>5, <2>1, <2>2, <2>3, <2>4, <2>5, <2>6, <2>7 DEF Operation
<1>6. CASE PowerLoss \/ PowerLossInReplace
  BY <1>6, IdleFacts
  DEF PowerLoss, PowerLossInReplace, TearTransaction, TearSlots, TearSettings, TearOthers
<1> QED
  BY <1>1, <1>2, <1>3, <1>4, <1>5, <1>6 DEF Next

\* A candidate begins, ends, or stays the same.
LEMMA TrialStep ==
  ASSUME Sound, Next
  PROVE  OnTrialNow = Nothing \/ OnTrialNow' = Nothing \/ OnTrialNow' = OnTrialNow
<1> USE DEF OnTrialNow, Nothing, Saved, Sound, Clean, Uncovered, Parts, Table, Runs, Recorded,
     Installing, Undoing, Committing, Serving, Goto, Resume, Regular, files, IInv, TypeOK,
     Transaction, Status
<1>1. CASE Staging
  <2>1. CASE Stage
    BY <2>1 DEF Stage
  <2>2. CASE StageReady
    BY <2>2 DEF StageReady, Idle
  <2>3. CASE StageFails
    BY <2>3, IdleFacts DEF StageFails
  <2>4. CASE Configure
    BY <2>4 DEF Configure
  <2>5. CASE Discard
    BY <2>5 DEF Discard
  <2>6. CASE DropState
    BY <2>6, IdleFacts DEF DropState
  <2> QED
    BY <1>1, <2>1, <2>2, <2>3, <2>4, <2>5, <2>6 DEF Staging
<1>2. CASE Activation
  <2>1. CASE BootConsole
    BY <2>1 DEF BootConsole
  <2>2. CASE BootActivate
    BY <2>2 DEF BootActivate
  <2>3. CASE Reclaim
    BY <2>3 DEF Reclaim
  <2>4. CASE BeginActivation
    BY <2>4 DEF BeginActivation
  <2>5. CASE BackUpSettings
    BY <2>5 DEF BackUpSettings
  <2>6. CASE NoteApplied
    BY <2>6 DEF NoteApplied
  <2>7. CASE WriteSettings
    BY <2>7 DEF WriteSettings
  <2>8. CASE InstallPart
    BY <2>8 DEF InstallPart
  <2>9. CASE SealSlot
    BY <2>9 DEF SealSlot
  <2>10. CASE BeginTrial
    BY <2>10 DEF BeginTrial
  <2>11. CASE ActivationFails
    BY <2>11 DEF ActivationFails
  <2> QED
    BY <1>2, <2>1, <2>2, <2>3, <2>4, <2>5, <2>6, <2>7, <2>8, <2>9, <2>10, <2>11 DEF Activation
<1>3. CASE Rollback
  <2>1. CASE RbSettings
    BY <2>1 DEF RbSettings
  <2>2. CASE RbSelect
    BY <2>2 DEF RbSelect
  <2>3. CASE RbTree
    BY <2>3 DEF RbTree
  <2>4. CASE RbBackup
    BY <2>4 DEF RbBackup
  <2>5. CASE RbBundle
    BY <2>5 DEF RbBundle
  <2>6. CASE RbState
    BY <2>6, IdleFacts DEF RbState
  <2> QED
    BY <1>3, <2>1, <2>2, <2>3, <2>4, <2>5, <2>6 DEF Rollback
<1>4. CASE Commit
  <2>1. CASE Confirm
    BY <2>1 DEF Confirm
  <2>2. CASE CommitSlots
    BY <2>2 DEF CommitSlots
  <2>3. CASE CommitSequence
    BY <2>3 DEF CommitSequence
  <2>4. CASE CommitBackup
    BY <2>4 DEF CommitBackup
  <2>5. CASE CommitBundle
    BY <2>5 DEF CommitBundle
  <2>6. CASE CommitState
    BY <2>6, IdleFacts DEF CommitState
  <2>7. CASE CommitFails
    BY <2>7 DEF CommitFails
  <2> QED
    BY <1>4, <2>1, <2>2, <2>3, <2>4, <2>5, <2>6, <2>7 DEF Commit
<1>5. CASE Operation
  <2>1. CASE StartApplication
    BY <2>1 DEF StartApplication
  <2>2. CASE ApplicationEnds
    BY <2>2 DEF ApplicationEnds
  <2>3. CASE ConsoleRollback
    BY <2>3 DEF ConsoleRollback
  <2>4. CASE ManualRollback
    BY <2>4 DEF ManualRollback
  <2>5. CASE ManualSequence
    BY <2>5 DEF ManualSequence
  <2>6. CASE BeginStrip
    BY <2>6 DEF BeginStrip
  <2>7. CASE Strip
    BY <2>7 DEF Strip
  <2> QED
    BY <1>5, <2>1, <2>2, <2>3, <2>4, <2>5, <2>6, <2>7 DEF Operation
<1>6. CASE PowerLoss \/ PowerLossInReplace
  BY <1>6, IdleFacts
  DEF PowerLoss, PowerLossInReplace, TearTransaction, TearSlots, TearSettings, TearOthers
<1> QED
  BY <1>1, <1>2, <1>3, <1>4, <1>5, <1>6 DEF Next

\* There is no generation to return to while its slot takes the update.
LEMMA UpdatedSlot ==
  ASSUME Sound, txn.target \in Slot, txn.status \in {"activating", "trial", "ready"},
         UNCHANGED <<txn, chosen>>
  PROVE  KeptApp = 0 /\ KeptApp' = 0
<1>1. /\ txn.status \in {"activating", "trial"} /\ txn.target # chosen
      /\ chosen \in Slot \cup {NoSlot}
  BY OtherSlot DEF Sound, Parts, Recorded, IInv, TypeOK
<1>2. chosen \in Slot => Other(chosen) = txn.target
  BY <1>1, OtherUnique
<1> QED
  BY <1>1, <1>2 DEF KeptApp

\* The generation to return to is kept, or its room is needed.
LEMMA KeptStep ==
  ASSUME Sound, ~Confirm, ~ManualRollback, Next
  PROVE  KeptApp' = KeptApp \/ (KeptApp' = 0 /\ OnTrialNow' = OnTrialNow)
<1> USE DEF KeptApp, OnTrialNow, Whole, Filed, Placed, Sound, Clean, Uncovered, Parts, Table,
     Runs, Recorded, Installing, Undoing, Committing, Serving, Goto, Resume, Regular, files,
     IInv, TypeOK, Transaction, Status
<1>1. CASE Staging
  <2>1. CASE Stage
    BY <2>1 DEF Stage
  <2>2. CASE StageReady
    BY <2>2 DEF StageReady, Idle
  <2>3. CASE StageFails
    BY <2>3, IdleFacts DEF StageFails
  <2>4. CASE Configure
    BY <2>4 DEF Configure
  <2>5. CASE Discard
    BY <2>5 DEF Discard
  <2>6. CASE DropState
    BY <2>6, IdleFacts DEF DropState
  <2> QED
    BY <1>1, <2>1, <2>2, <2>3, <2>4, <2>5, <2>6 DEF Staging
<1>2. CASE Activation
  <2>1. CASE BootConsole
    BY <2>1 DEF BootConsole
  <2>2. CASE BootActivate
    BY <2>2 DEF BootActivate
  <2>3. CASE Reclaim
    BY <2>3, OtherFacts, OtherSlot, RemovePartFacts, RemoveKeeps DEF Reclaim
  <2>4. CASE BeginActivation
    BY <2>4, OtherFacts, OtherSlot DEF BeginActivation, Empty
  <2>5. CASE BackUpSettings
    BY <2>5 DEF BackUpSettings
  <2>6. CASE NoteApplied
    BY <2>6 DEF NoteApplied
  <2>7. CASE WriteSettings
    BY <2>7 DEF WriteSettings
  <2>8. CASE InstallPart
    BY <2>8, InstallFacts, UpdatedSlot DEF InstallPart
  <2>9. CASE SealSlot
    BY <2>9, SealFacts, OtherSlot DEF SealSlot
  <2>10. CASE BeginTrial
    BY <2>10 DEF BeginTrial
  <2>11. CASE ActivationFails
    BY <2>11 DEF ActivationFails
  <2> QED
    BY <1>2, <2>1, <2>2, <2>3, <2>4, <2>5, <2>6, <2>7, <2>8, <2>9, <2>10, <2>11 DEF Activation
<1>3. CASE Rollback
  <2>1. CASE RbSettings
    BY <2>1 DEF RbSettings
  <2>2. CASE RbSelect
    BY <2>2, OtherSlot DEF RbSelect
  <2>3. CASE RbTree
    <3>1. CASE txn.target \in Slot /\ slot[txn.target].parts # {}
      BY <2>3, <3>1, UpdatedSlot DEF RbTree
    <3>2. CASE ~(txn.target \in Slot /\ slot[txn.target].parts # {})
      BY <2>3, <3>2 DEF RbTree
    <3> QED
      BY <3>1, <3>2
  <2>4. CASE RbBackup
    BY <2>4 DEF RbBackup
  <2>5. CASE RbBundle
    BY <2>5 DEF RbBundle
  <2>6. CASE RbState
    BY <2>6, IdleFacts, OtherSlot DEF RbState
  <2> QED
    BY <1>3, <2>1, <2>2, <2>3, <2>4, <2>5, <2>6 DEF Rollback
<1>4. CASE Commit
  <2>1. CASE Confirm
    BY <2>1 DEF Confirm
  <2>2. CASE CommitSlots
    BY <2>2, OtherSlot DEF CommitSlots
  <2>3. CASE CommitSequence
    BY <2>3 DEF CommitSequence
  <2>4. CASE CommitBackup
    BY <2>4 DEF CommitBackup
  <2>5. CASE CommitBundle
    BY <2>5 DEF CommitBundle
  <2>6. CASE CommitState
    BY <2>6, IdleFacts, OtherSlot DEF CommitState
  <2>7. CASE CommitFails
    BY <2>7 DEF CommitFails
  <2> QED
    BY <1>4, <2>1, <2>2, <2>3, <2>4, <2>5, <2>6, <2>7 DEF Commit
<1>5. CASE Operation
  <2>1. CASE StartApplication
    BY <2>1 DEF StartApplication
  <2>2. CASE ApplicationEnds
    BY <2>2 DEF ApplicationEnds
  <2>3. CASE ConsoleRollback
    BY <2>3 DEF ConsoleRollback
  <2>4. CASE ManualRollback
    BY <2>4 DEF ManualRollback
  <2>5. CASE ManualSequence
    BY <2>5 DEF ManualSequence
  <2>6. CASE BeginStrip
    BY <2>6 DEF BeginStrip
  <2>7. CASE Strip
    BY <2>7, OtherFacts, OtherSlot, RemovePartFacts, RemoveKeeps DEF Strip
  <2> QED
    BY <1>5, <2>1, <2>2, <2>3, <2>4, <2>5, <2>6, <2>7 DEF Operation
<1>6. CASE PowerLoss \/ PowerLossInReplace
  BY <1>6, IdleFacts, OtherSlot
  DEF PowerLoss, PowerLossInReplace, TearTransaction, TearSlots, TearSettings, TearOthers
<1> QED
  BY <1>1, <1>2, <1>3, <1>4, <1>5, <1>6 DEF Next

Simulated == [Atomic!AbsNext]_(Atomic!absVars)

\* A candidate is a pair of generations (of the state after a step, where it is needed).
LEMMA CandidateType ==
  ASSUME TypeOK', Recorded'
  PROVE  OnTrialNow' \in [app : Generation, settings : Generation]
<1>1. 0 \in Generation
  BY MaxReleaseAssumption DEF Generation
<1>2. CASE txn'.status = "trial" /\ pc' \in {"start", "up"}
  <2>1. txn'.hasApp => slot'[txn'.target].release \in Generation
    BY <1>2 DEF TypeOK, Recorded
  <2>2. shared' \in Generation
    BY DEF TypeOK
  <2> QED
    BY <1>1, <1>2, <2>1, <2>2 DEF OnTrialNow
<1>3. CASE ~(txn'.status = "trial" /\ pc' \in {"start", "up"})
  BY <1>1, <1>3 DEF OnTrialNow
<1> QED
  BY <1>2, <1>3

\* A step that keeps the installed pair tries, abandons, forgets or stutters.
LEMMA SamePair ==
  ASSUME Sound, Next, ~Confirm, ~ManualRollback, Recorded', TypeOK',
         exposed \cap Excused = {}, exposed' \cap Excused = {}
  PROVE  Simulated
<1>1. /\ InstalledApp' = InstalledApp /\ InstalledSettings' = InstalledSettings
      /\ KeptApp' = KeptApp \/ (KeptApp' = 0 /\ OnTrialNow' = OnTrialNow)
      /\ OnTrialNow = Nothing \/ OnTrialNow' = Nothing \/ OnTrialNow' = OnTrialNow
  BY AppStep, SettingsStep, KeptStep, TrialStep
<1>2. OnTrialNow' \in [app : Generation, settings : Generation]
  BY CandidateType
<1> QED
  BY <1>1, <1>2
  DEF Simulated, Nothing, Atomic!AbsNext, Atomic!Try, Atomic!Abandon, Atomic!Forget,
      Atomic!absVars, Atomic!NoCandidate, Atomic!Candidate

\* confirm_update() installs both halves of what is on trial.
LEMMA ConfirmKeeps ==
  ASSUME Sound, Confirm, exposed \cap Excused = {}, exposed' \cap Excused = {}
  PROVE  Simulated
<1> USE DEF Sound, Parts
<1>1. /\ pc = "up" /\ txn.status = "trial" /\ txn' = [txn EXCEPT !.status = "committing"]
      /\ pc' = "coSlots" /\ UNCHANGED <<slot, chosen, seq, shared, backup>>
  BY DEF Confirm, Goto
<1>2. /\ txn'.status = "committing" /\ txn'.hasApp = txn.hasApp /\ txn'.target = txn.target
      /\ txn'.applied = txn.applied
  BY <1>1 DEF IInv, TypeOK, Transaction
<1>3. txn.hasApp \in BOOLEAN /\ (txn.hasApp <=> txn.target \in Slot)
      /\ (txn.target \in Slot => txn.target # chosen)
      /\ chosen \in Slot \cup {NoSlot}
  BY <1>1 DEF Recorded, IInv, TypeOK, Transaction
<1>4. txn.hasApp => Whole(txn.target) /\ slot[txn.target].release # 0
  BY <1>1, <1>3 DEF Placed, Filed, Whole, Part
<1>5. txn.applied # "no" => shared # 0
  BY <1>1 DEF Saved
<1>6. OnTrialNow = [app |-> IF txn.hasApp THEN slot[txn.target].release ELSE 0,
                    settings |-> IF txn.applied # "no" THEN shared ELSE 0]
  BY <1>1 DEF OnTrialNow
<1>7. OnTrialNow' = Nothing
  BY <1>1, <1>2 DEF OnTrialNow, Nothing
<1>8. InstalledApp' = IF txn.hasApp THEN slot[txn.target].release ELSE InstalledApp
  BY <1>1, <1>2 DEF InstalledApp
<1>9. InstalledSettings' = shared /\ (txn.applied = "no" => InstalledSettings = shared)
  BY <1>1, <1>2 DEF InstalledSettings
<1>10. CASE txn.hasApp
  <2>1. KeptApp' \in {InstalledApp, 0}
    <3>1. CASE chosen \in Slot
      <4>1. Other(txn.target) = chosen
        BY <1>3, <1>10, <3>1 DEF Other, Slot
      <4>2. InstalledApp = slot[chosen].release
        BY <1>1, <3>1 DEF InstalledApp
      <4> QED
        BY <1>1, <1>2, <1>10, <4>1, <4>2 DEF KeptApp
    <3>2. CASE chosen = NoSlot
      <4>1. Other(txn.target) \in Slot
        BY <1>3, <1>10, OtherSlot
      <4>2. seq[Other(txn.target)] = 0
        BY <3>2, <4>1 DEF Filed
      <4>3. Whole(Other(txn.target)) => slot[Other(txn.target)].release # 0
        BY <4>1 DEF Filed, Whole
      <4> QED
        BY <1>1, <1>2, <1>10, <4>2, <4>3 DEF KeptApp, Whole
    <3> QED
      BY <1>3, <3>1, <3>2
  <2>2. Atomic!Keep
    BY <1>4, <1>5, <1>6, <1>7, <1>8, <1>9, <1>10, <2>1
    DEF Atomic!Keep, Atomic!NoCandidate, Atomic!Merge, Nothing
  <2> QED
    BY <2>2 DEF Simulated, Atomic!AbsNext
<1>11. CASE ~txn.hasApp
  <2>1. KeptApp' = KeptApp
    BY <1>1, <1>2, <1>3, <1>11, OtherSlot DEF KeptApp, Whole
  <2>2. CASE txn.applied # "no"
    <3>1. Atomic!Keep
      BY <1>5, <1>6, <1>7, <1>8, <1>9, <1>11, <2>1, <2>2
      DEF Atomic!Keep, Atomic!NoCandidate, Atomic!Merge, Nothing
    <3> QED
      BY <3>1 DEF Simulated, Atomic!AbsNext
  <2>3. CASE txn.applied = "no"
    <3>1. OnTrialNow = Nothing
      BY <1>6, <1>11, <2>3 DEF Nothing
    <3> QED
      BY <1>7, <1>8, <1>9, <1>11, <2>1, <2>3, <3>1 DEF Simulated, Atomic!absVars
  <2> QED
    BY <2>2, <2>3
<1> QED
  BY <1>3, <1>10, <1>11

\* An administrator returns to the release that was kept.
LEMMA SwitchesBack ==
  ASSUME Sound, ManualRollback, exposed \cap Excused = {}, exposed' \cap Excused = {}
  PROVE  Simulated
<1> USE DEF Sound, Parts
<1> DEFINE other == Other(chosen)
<1>1. /\ txn.status = "idle" /\ chosen' = PreviousSlot /\ ActiveSlot # NoSlot
      /\ PreviousSlot # NoSlot /\ pc' = "manual"
      /\ UNCHANGED <<txn, slot, seq, shared, backup>>
  BY DEF ManualRollback, Goto
<1>2. chosen \in Slot /\ other \in Slot /\ other # chosen /\ chosen' = other
  BY <1>1, OtherFacts, OtherSlot DEF PreviousSlot, IInv
<1>3. Other(other) = chosen
  BY <1>2 DEF Other, Slot
<1>4. Whole(other) /\ seq[other] = slot[other].release
  <2>1. "unconfirmed slot" \notin exposed'
    BY DEF Clean, Uncovered
  <2> QED
    BY <1>1, <1>2, <2>1 DEF ManualRollback
<1>5. slot[other].release # 0
  BY <1>2, <1>4 DEF Filed, Whole
<1>6. OnTrialNow = Nothing /\ OnTrialNow' = Nothing
  BY <1>1 DEF OnTrialNow, Nothing
<1>7. InstalledSettings' = InstalledSettings
  BY <1>1 DEF InstalledSettings
<1>8. /\ InstalledApp = slot[chosen].release /\ InstalledApp' = slot[other].release
      /\ KeptApp = slot[other].release
  BY <1>1, <1>2, <1>4 DEF InstalledApp, KeptApp
<1>9. KeptApp' \in {InstalledApp, 0}
  BY <1>1, <1>2, <1>3, <1>8 DEF KeptApp
<1>10. Atomic!SwitchBack
  BY <1>5, <1>6, <1>7, <1>8, <1>9 DEF Atomic!SwitchBack, Atomic!NoCandidate, Nothing
<1> QED
  BY <1>10 DEF Simulated, Atomic!AbsNext

-----------------------------------------------------------------------------
LEMMA InitRInv == Init => RInv
<1> SUFFICES ASSUME Init PROVE RInv
  OBVIOUS
<1>1. Runs
  BY DEF Init, Runs
<1>2. Table /\ Recorded /\ Saved /\ Placed
  BY IdleFacts
  DEF Init, Table, Recorded, Saved, Placed, Installing, Undoing, Committing
<1>3. Filed
  BY DEF Init, Filed, Empty, Installing
<1>4. WholeOnes
  BY IdleFacts, OtherSlot DEF Init, WholeOnes
<1>5. Numbered
  BY IdleFacts, OtherSlot DEF Init, Numbered, Installing
<1> QED
  BY <1>1, <1>2, <1>3, <1>4, <1>5, InitIInv DEF RInv, Parts

LEMMA StepRInv == RInv /\ [Next]_vars => RInv'
<1> SUFFICES ASSUME RInv, [Next]_vars PROVE RInv'
  OBVIOUS
<1>1. IInv'
  BY StepIInv DEF RInv
<1>2. CASE Next
  <2>1. Runs'
    BY <1>2, RunsStep DEF RInv
  <2>2. ASSUME Regular' PROVE Parts'
    <3>1. Parts
      BY <1>2, <2>2, RegularStep DEF RInv
    <3> QED
      BY <1>2, <2>2, <3>1, TableStep, RecordedStep, FiledStep, SavedStep, PlacedStep
      DEF RInv, Parts
  <2>3. WholeOnes'
    BY <1>2, WholeOnesStep DEF RInv
  <2>4. ASSUME exposed' = {} PROVE Numbered'
    <3>1. exposed = {} /\ Regular'
      BY <1>2, <2>4, ExposedStep DEF Regular
    <3>2. Regular
      BY <3>1 DEF Regular
    <3> QED
      BY <1>2, <2>4, <3>1, <3>2, NumberedStep DEF RInv
  <2> QED
    BY <1>1, <2>1, <2>2, <2>3, <2>4 DEF RInv
<1>3. CASE UNCHANGED vars
  <2>1. Runs' /\ Regular' = Regular /\ exposed' = exposed
    BY <1>3 DEF vars, RInv, Runs, Regular
  <2>2. Parts => Parts'
    BY <1>3 DEF vars, Parts, Table, Recorded, Filed, Saved, Placed
  <2>3. WholeOnes' /\ (Numbered => Numbered')
    BY <1>3 DEF vars, RInv, WholeOnes, Regular, Whole, Numbered
  <2> QED
    BY <1>1, <2>1, <2>2, <2>3 DEF RInv
<1> QED
  BY <1>2, <1>3

LEMMA RefinementInvariance == Spec => []RInv
BY InitRInv, StepRInv, PTL DEF Spec

LEMMA InitSimulated ==
  ASSUME Init
  PROVE  Atomic!AbsInit
<1>1. txn.status = "idle" /\ chosen \notin Slot
  BY IdleFacts, OtherSlot DEF Init
<1>2. InstalledApp = 1 /\ InstalledSettings = shared /\ KeptApp = 0 /\ OnTrialNow = Nothing
  BY <1>1 DEF InstalledApp, InstalledSettings, KeptApp, OnTrialNow, Nothing
<1>3. 1 \in Generation /\ shared \in Generation /\ exposed = {}
  BY MaxReleaseAssumption DEF Init, Generation
<1> QED
  BY <1>2, <1>3 DEF Atomic!AbsInit, Atomic!NoCandidate, Nothing

LEMMA StepSimulated ==
  ASSUME Uncovered \subseteq Excused, RInv, RInv', [Next]_vars
  PROVE  Simulated
<1>1. CASE exposed' \cap Excused # {}
  BY <1>1 DEF Simulated, Atomic!AbsNext
<1>2. CASE exposed' \cap Excused = {} /\ Next
  <2>1. Clean' /\ Clean /\ exposed \cap Excused = {}
    BY <1>2, ExposedStep, CleanStep DEF Clean
  <2>2. Regular /\ Regular'
    BY <2>1 DEF Clean, Uncovered, Regular
  <2>3. Sound /\ Recorded' /\ TypeOK'
    BY <2>1, <2>2 DEF RInv, Sound, Parts, IInv
  <2> QED
    BY <1>2, <2>1, <2>3, SamePair, ConfirmKeeps, SwitchesBack
<1>3. CASE UNCHANGED vars
  BY <1>3 DEF Simulated, vars, Atomic!absVars, InstalledApp, InstalledSettings, KeptApp,
              OnTrialNow, Whole
<1> QED
  BY <1>1, <1>2, <1>3

\* Whatever an update is interrupted by, the application and the settings it brings are
\* installed together, by confirm_update() while they run on trial, or neither is
\* (app_update.py): for every number of releases, every order of requests, boots and losses
\* of power, up to an event that the code does not cover.
THEOREM UpdateIsAtomicHolds ==
  ASSUME Uncovered \subseteq Excused
  PROVE  Spec => UpdateIsAtomic
<1>1. Init => Atomic!AbsInit
  BY InitSimulated
<1>2. RInv /\ RInv' /\ [Next]_vars => [Atomic!AbsNext]_(Atomic!absVars)
  BY StepSimulated DEF Simulated
<1> QED
  BY <1>1, <1>2, RefinementInvariance, PTL DEF Spec, UpdateIsAtomic, Atomic!AbsSpec

\* What is started is whole, but for an application that the two exposures let through.
LEMMA StartsWhole ==
  ASSUME RInv, running = Off, running' \in Slot, Next
  PROVE  Whole(running') \/ exposed \cap {"unconfirmed slot", "commit undone"} # {}
<1> USE DEF RInv, files, Off, Slot
<1>1. CASE Staging
  BY <1>1
  DEF Staging, Stage, StageReady, StageFails, Configure, Discard, DropState
<1>2. CASE Activation
  BY <1>2
  DEF Activation, BootConsole, BootActivate, Reclaim, BeginActivation, BackUpSettings,
       NoteApplied, WriteSettings, InstallPart, SealSlot, BeginTrial, ActivationFails
<1>3. CASE Rollback
  BY <1>3
  DEF Rollback, RbSettings, RbSelect, RbTree, RbBackup, RbBundle, RbState
<1>4. CASE Commit
  BY <1>4
  DEF Commit, Confirm, CommitSlots, CommitSequence, CommitBackup, CommitBundle, CommitState,
       CommitFails
<1>5. CASE Operation
  <2>1. CASE StartApplication
    <3>1. pc = "start" /\ running' = ApplicationRoot /\ IInv
      BY <2>1 DEF StartApplication
    <3>2. SUFFICES ASSUME Regular, "unconfirmed slot" \notin exposed PROVE Whole(running')
      BY DEF Regular
    <3>3. Table /\ Recorded /\ Placed /\ WholeOnes
      BY <3>2 DEF Parts
    <3>4. txn.status = "trial" /\ txn.target \in Slot => Whole(txn.target)
      BY <3>1, <3>3 DEF Recorded, Placed, Whole, Part
    <3>5. txn.status # "committing"
      BY <3>1, <3>3 DEF Table
    <3>6. chosen \in Slot => Whole(chosen)
      BY <3>2, <3>3 DEF WholeOnes
    <3>7. \/ running' = txn.target /\ txn.target \in Slot /\ OnTrial
          \/ running' = chosen /\ chosen \in Slot
      BY <3>1, ActiveIsChosen, OtherSlot DEF IInv, TypeOK, ApplicationRoot, Slot, NoSlot, Root
    <3> QED
      BY <3>4, <3>5, <3>6, <3>7 DEF OnTrial
  <2>2. CASE ApplicationEnds
    BY <2>2 DEF ApplicationEnds
  <2>3. CASE ConsoleRollback
    BY <2>3 DEF ConsoleRollback
  <2>4. CASE ManualRollback
    BY <2>4 DEF ManualRollback
  <2>5. CASE ManualSequence
    BY <2>5 DEF ManualSequence
  <2>6. CASE BeginStrip
    BY <2>6 DEF BeginStrip
  <2>7. CASE Strip
    BY <2>7 DEF Strip
  <2> QED
    BY <1>5, <2>1, <2>2, <2>3, <2>4, <2>5, <2>6, <2>7 DEF Operation
<1>6. CASE PowerLoss \/ PowerLossInReplace
  BY <1>6
  DEF PowerLoss, PowerLossInReplace, TearTransaction, TearSlots, TearSettings, TearOthers
<1> QED
  BY <1>1, <1>2, <1>3, <1>4, <1>5, <1>6 DEF Next

LEMMA ConfirmsNewer ==
  ASSUME Exposure \subseteq Excused, RInv, Confirm, txn.hasApp
  PROVE  slot[txn.target].release > InstalledApp \/ exposed \cap Excused # {}
<1>1. CASE exposed # {}
  BY <1>1 DEF RInv, IInv, TypeOK
<1>2. CASE exposed = {}
  <2>1. pc = "up" /\ txn.status = "trial"
    BY DEF Confirm
  <2>2. slot[txn.target].release = txn.release /\ txn.release > 1
    BY <1>2, <2>1 DEF RInv, Numbered
  <2>3. chosen \in Slot => txn.release > slot[chosen].release
    BY <1>2, <2>1 DEF RInv, Numbered
  <2> QED
    BY <2>1, <2>2, <2>3 DEF InstalledApp
<1> QED
  BY <1>1, <1>2

\* Only confirm_update() ends a trial as a commit.
LEMMA OnlyConfirms ==
  ASSUME TypeOK, txn.status = "trial", txn'.status = "committing", Next
  PROVE  Confirm
<1> USE DEF files, TypeOK, Transaction
<1>1. CASE Staging
  BY <1>1, IdleFacts
  DEF Staging, Stage, StageReady, StageFails, Configure, Discard, DropState, Idle
<1>2. CASE Activation
  BY <1>2
  DEF Activation, BootConsole, BootActivate, Reclaim, BeginActivation, BackUpSettings,
       NoteApplied, WriteSettings, InstallPart, SealSlot, BeginTrial, ActivationFails
<1>3. CASE Rollback
  BY <1>3, IdleFacts
  DEF Rollback, RbSettings, RbSelect, RbTree, RbBackup, RbBundle, RbState
<1>4. CASE Commit
  BY <1>4, IdleFacts
  DEF Commit, Confirm, CommitSlots, CommitSequence, CommitBackup, CommitBundle, CommitState,
       CommitFails
<1>5. CASE Operation
  BY <1>5
  DEF Operation, StartApplication, ApplicationEnds, ConsoleRollback, ManualRollback,
       ManualSequence, BeginStrip, Strip
<1>6. CASE PowerLoss \/ PowerLossInReplace
  BY <1>6, IdleFacts
  DEF PowerLoss, PowerLossInReplace, TearTransaction, TearSlots, TearSettings, TearOthers
<1> QED
  BY <1>1, <1>2, <1>3, <1>4, <1>5, <1>6 DEF Next

\* No application is executed with files missing (boot_supervisor.py), and what is confirmed
\* is newer than what it replaces, by the content of the slots (app_update.py): for every
\* number of releases, up to an event that the code does not cover.
THEOREM OnlyWholeAndNewerHolds ==
  ASSUME Exposure \subseteq Excused
  PROVE  Spec => OnlyWholeAndNewer
<1>1. ASSUME RInv, [Next]_vars
      PROVE  (running = Off /\ running' \in Slot) =>
                \/ Whole(running')
                \/ exposed \cap {"unconfirmed slot", "commit undone"} # {}
  <2>1. CASE Next
    BY <1>1, <2>1, StartsWhole
  <2>2. CASE UNCHANGED vars
    BY <2>2 DEF vars, Off, Slot
  <2> QED
    BY <1>1, <2>1, <2>2
<1>2. ASSUME RInv, [Next]_vars
      PROVE  (txn.status = "trial" /\ txn'.status = "committing" /\ txn.hasApp) =>
                slot[txn.target].release > InstalledApp \/ exposed \cap Excused # {}
  <2>1. CASE Next
    BY <1>2, <2>1, OnlyConfirms, ConfirmsNewer DEF RInv, IInv
  <2>2. CASE UNCHANGED vars
    BY <2>2 DEF vars
  <2> QED
    BY <1>2, <2>1, <2>2
<1> QED
  BY <1>1, <1>2, RefinementInvariance, PTL
  DEF Spec, OnlyWholeAndNewer, LoadsWholeRelease, ConfirmsOnlyNewer
==============================================================================
