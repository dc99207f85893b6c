------------------------- MODULE DeviceUpdateProofs -------------------------
(***************************************************************************)
(* Theorems about DeviceUpdate for every number of releases, every         *)
(* requirement of a release on the core and every number of losses of      *)
(* power.                                                                  *)
(***************************************************************************)
EXTENDS DeviceUpdate, TLAPS

\* A record that is not idle names a release, a trial has no generation to
\* return to but the installed one, and the program counter agrees with the
\* record where the record is written next.
RecordAndStep ==
  /\ app.status # "idle" => app.release # 0
  /\ OnTrial(app) => app.other = 0
  /\ pc = "activating" => app.status = "activating"
  /\ pc = "commitApp" => app.status = "committing"

\* Something runs from a partition unless the power is off.
Running == pc # "off" => core \in Partition

\* The inductive invariant.
IInv == TypeOK /\ RecordAndStep /\ Running

-----------------------------------------------------------------------------
(* The operators.                                                          *)

LEMMA Numbers == /\ Release \subseteq Image /\ 0 \in Image /\ 0 \notin Release
                 /\ \A i \in Image : i # 0 => i \in Release
BY MaxReleaseAssumption DEF Release, Image

LEMMA Parts == /\ \A p \in Partition : OtherPart(p) \in Partition
               /\ Off \notin Partition
BY DEF OtherPart, Partition, Off

\* A transaction that ends stays well typed and leaves the installed
\* application alone.
LEMMA RolledBackFacts ==
  ASSUME NEW a \in AppRecord
  PROVE  /\ RolledBack(a) \in AppRecord
         /\ RolledBack(a).status = "idle"
         /\ RolledBack(a).installed = a.installed
         /\ RolledBack(a).other = IF OnTrial(a) THEN 0 ELSE a.other
BY Numbers DEF RolledBack, AppRecord, OnTrial

LEMMA CommittedFacts ==
  ASSUME NEW a \in AppRecord, a.release # 0
  PROVE  /\ Committed(a) \in AppRecord
         /\ Committed(a).status = "idle"
         /\ Committed(a).installed = a.release
         /\ Committed(a).other \in {a.installed, 0}
BY Numbers DEF Committed, AppRecord, Release, Image

LEMMA DiscardedFacts ==
  ASSUME NEW a \in AppRecord
  PROVE  /\ Discarded(a) \in AppRecord
         /\ Discarded(a).status = "idle"
         /\ Discarded(a).installed = a.installed
         /\ Discarded(a).other = a.other
BY Numbers DEF Discarded, AppRecord

\* Reconciling the universal transaction only ever discards a staged
\* application.
LEMMA ReconciledFacts ==
  ASSUME NEW a \in AppRecord, NEW f \in FwRecord, NEW u \in UniRecord
  PROVE  /\ ReconciledFw(a, f, u) \in FwRecord
         /\ ReconciledUni(a, f, u) \in UniRecord
         /\ ReconciledApp(a, f, u) \in AppRecord
         /\ \/ ReconciledApp(a, f, u) = a
            \/ /\ a.status \in {"idle", "ready"}
               /\ ReconciledApp(a, f, u) = Discarded(a)
<1>1. NoFw \in FwRecord /\ NoUni \in UniRecord
  BY Numbers DEF NoFw, NoUni, FwRecord, UniRecord, Partition
<1>2. Discards(a, f, u) => a.status \in {"idle", "ready"}
  BY DEF Discards
<1> QED
  BY <1>1, <1>2, DiscardedFacts DEF ReconciledApp, ReconciledFw, ReconciledUni

\* The records of the code are well typed, and stay so when a field is set.
LEMMA RecordFacts ==
  /\ NoFw \in FwRecord /\ NoUni \in UniRecord /\ NoRecovery \in RecoveryRecord
  /\ [mode |-> "booting", failures |-> 0, pending |-> TRUE] \in RecoveryRecord
  /\ [from |-> "up", paired |-> FALSE] \in Asked
  /\ BootStatus = NoFw \/ BootStatus = fw
BY Numbers
DEF NoFw, NoUni, NoRecovery, FwRecord, UniRecord, RecoveryRecord, Asked,
    Partition, BootStatus

\* What a reset and a recovery request leave behind.
LEMMA PowerDownFacts ==
  ASSUME PowerDown
  PROVE  /\ pc' = "off" /\ pc' \in Step
         /\ core' \in Partition \cup {Off} /\ upload' \in Image
         /\ timer' \in BOOLEAN /\ asked' \in Asked
BY RecordFacts, Numbers DEF PowerDown, Goto, Step

LEMMA AskForRecoveryFacts ==
  ASSUME TypeOK, AskForRecovery
  PROVE  recovery' \in RecoveryRecord
BY DEF TypeOK, AskForRecovery, RecoveryRecord

\* A request that is answered ends in a reset or leaves the device as it was.
LEMMA AnsweredFacts ==
  ASSUME TypeOK, Answered
  PROVE  /\ pc' \in {"off", "up"} /\ pc' \in Step
         /\ core' \in Partition \cup {Off} /\ upload' \in Image
         /\ timer' \in BOOLEAN /\ asked' \in Asked
         /\ recovery' \in RecoveryRecord
         /\ pc' = "up" => core' = core
BY PowerDownFacts, RecordFacts DEF TypeOK, Answered, Goto, Step

\* An update of a record that an action makes keeps the record well typed.
LEMMA FieldFacts ==
  ASSUME TypeOK
  PROVE  /\ [fw EXCEPT !.status = "trial"] \in FwRecord
         /\ [uni EXCEPT !.status = "activating"] \in UniRecord
         /\ [app EXCEPT !.status = "trial"] \in AppRecord
         /\ [app EXCEPT !.status = "committing"] \in AppRecord
         /\ [app EXCEPT !.status = "activating", !.other = 0] \in AppRecord
         /\ app.other # 0 => [app EXCEPT !.installed = app.other,
                                         !.other = app.installed] \in AppRecord
         /\ fw.target \in Partition
         /\ app.installed \in Image
BY Numbers DEF TypeOK, FwRecord, UniRecord, AppRecord

-----------------------------------------------------------------------------
(* Type correctness: one case per action.                                  *)

LEMMA BootTypes ==
  ASSUME IInv, Boot
  PROVE  TypeOK'
<1> USE DEF IInv, TypeOK
<1>1. CASE Bootloader
  BY <1>1, Numbers, Parts
  DEF Bootloader, WouldBoot, BootSelection, Goto, Step, Unnoted, Exposure
<1>2. CASE CapabilityFailure
  BY <1>2, AskForRecoveryFacts
  DEF CapabilityFailure, ram, Goto, Step
<1>3. CASE Reconcile
  BY <1>3, RecordFacts, ReconciledFacts
  DEF Reconcile, ram, Goto, Step
<1>4. CASE BootAttempt
  BY <1>4
  DEF BootAttempt, Unhealthy, Limit, ram, Goto, Step, RecoveryRecord
<1>5. CASE EnterConsole
  BY <1>5, AskForRecoveryFacts
  DEF EnterConsole, ram, Goto, Step
<1>6. CASE Activate
  BY <1>6, RolledBackFacts, CommittedFacts, FieldFacts, RecordFacts
  DEF Activate, ram, Goto, Step, RecordAndStep
<1>7. CASE ActivationEnds
  BY <1>7, RolledBackFacts, FieldFacts
  DEF ActivationEnds, ram, Goto, Step
<1>8. CASE StartApplication
  BY <1>8
  DEF StartApplication, disk, Goto, Step
<1> QED
  BY <1>1, <1>2, <1>3, <1>4, <1>5, <1>6, <1>7, <1>8
  DEF Boot

LEMMA RunTypes ==
  ASSUME IInv, Run
  PROVE  TypeOK'
<1> USE DEF IInv, TypeOK
<1>1. CASE HealthGate
  BY <1>1
  DEF HealthGate, disk, ram, Goto, Step
<1>2. CASE ConfirmCore
  BY <1>2, RecordFacts
  DEF ConfirmCore, BootSelection, Running, ram, Goto, Step
<1>3. CASE CoreNotMarked
  BY <1>3
  DEF CoreNotMarked, disk, ram, Goto, Step, Exposure
<1>4. CASE RecordCore
  BY <1>4, RecordFacts
  DEF RecordCore, ram, Goto, Step
<1>5. CASE ConfirmApp
  BY <1>5, FieldFacts
  DEF ConfirmApp, ram, Goto, Step
<1>6. CASE CommitApp
  BY <1>6, CommittedFacts
  DEF CommitApp, ram, Goto, Step, RecordAndStep
<1>7. CASE ConfirmUni
  BY <1>7, RecordFacts, ReconciledFacts
  DEF ConfirmUni, ram, Goto, Step
<1>8. CASE MarkHealthy
  BY <1>8, RecordFacts
  DEF MarkHealthy, Goto, Step
<1>9. CASE ApplicationEnds
  BY <1>9, RolledBackFacts, RecordFacts, PowerDownFacts, AskForRecoveryFacts
  DEF ApplicationEnds
<1>10. CASE Deadline
  BY <1>10, PowerDownFacts
  DEF Deadline, disk
<1> QED
  BY <1>1, <1>2, <1>3, <1>4, <1>5, <1>6, <1>7, <1>8, <1>9, <1>10
  DEF Run

LEMMA RequestTypes ==
  ASSUME IInv, Request
  PROVE  TypeOK'
<1> USE DEF IInv, TypeOK
<1>1. CASE Reboot
  BY <1>1, PowerDownFacts
  DEF Reboot, disk
<1>2. CASE ConsoleEnds
  BY <1>2, PowerDownFacts, RecordFacts
  DEF ConsoleEnds
<1>3. CASE BeginCoreUpload
  BY <1>3, Numbers, RecordFacts
  DEF BeginCoreUpload, Exposure
<1>4. CASE EndCoreUpload
  BY <1>4, Numbers, Parts
  DEF EndCoreUpload, Serving, Unlocked, Running, FwRecord
<1>5. CASE StageApp
  BY <1>5, Numbers
  DEF StageApp, ram, AppRecord
<1>6. CASE StageUniversal
  BY <1>6, Numbers
  DEF StageUniversal, ram, UniRecord
<1>7. CASE DiscardStaged
  BY <1>7, RecordFacts, DiscardedFacts
  DEF DiscardStaged, ram
<1>8. CASE ActivateFromConsole
  BY <1>8, AnsweredFacts
  DEF ActivateFromConsole
<1>9. CASE RollbackFromConsole
  BY <1>9, RolledBackFacts, AnsweredFacts
  DEF RollbackFromConsole
<1>10. CASE RollbackToPrevious
  BY <1>10, FieldFacts, AnsweredFacts
  DEF RollbackToPrevious
<1>11. CASE SelectCore
  BY <1>11, FieldFacts
  DEF SelectCore, Serving, Goto, Step, BootSelection, Asked
<1>12. CASE RecordTrial
  BY <1>12, AnsweredFacts, FieldFacts
  DEF RecordTrial, ram, Goto, Step
<1>13. CASE RecordUniversal
  BY <1>13, AnsweredFacts, FieldFacts
  DEF RecordUniversal
<1>14. CASE ActivationRefused
  BY <1>14
  DEF ActivationRefused, disk, ram, Goto, Step, Asked
<1>15. CASE ActivateApplicationHalf
  BY <1>15, AnsweredFacts, FieldFacts
  DEF ActivateApplicationHalf
<1> QED
  BY <1>1, <1>2, <1>3, <1>4, <1>5, <1>6, <1>7, <1>8, <1>9, <1>10, <1>11,
     <1>12, <1>13, <1>14, <1>15
  DEF Request

-----------------------------------------------------------------------------
(* The other parts of the invariant.                                       *)

LEMMA InitIInv == Init => IInv
<1> SUFFICES ASSUME Init PROVE IInv
  OBVIOUS
<1>1. image \in [Partition -> Image] /\ boot \in BootSelection
  BY Numbers, MaxReleaseAssumption
  DEF Init, Partition, BootSelection, Image
<1>2. app \in AppRecord
  BY Numbers, MaxReleaseAssumption DEF Init, AppRecord, Release, Image
<1>3. TypeOK
  <2>1. losses \in 0 .. MaxLosses
    BY MaxLossesAssumption DEF Init
  <2> QED
    BY <1>1, <1>2, <2>1, RecordFacts, Numbers DEF Init, TypeOK, Step
<1>4. RecordAndStep /\ Running
  BY DEF Init, RecordAndStep, Running, OnTrial
<1> QED
  BY <1>3, <1>4 DEF IInv

LEMMA BootRecords ==
  ASSUME IInv, Boot
  PROVE  RecordAndStep' /\ Running'
<1> USE DEF IInv, TypeOK, RecordAndStep, Running, OnTrial
<1>1. CASE Bootloader
  BY <1>1, Parts
  DEF Bootloader, WouldBoot, BootSelection, Goto
<1>2. CASE CapabilityFailure
  BY <1>2
  DEF CapabilityFailure, ram, Goto
<1>3. CASE Reconcile
  BY <1>3, ReconciledFacts, RecordFacts, DiscardedFacts
  DEF Reconcile, ram, Goto
<1>4. CASE BootAttempt
  BY <1>4
  DEF BootAttempt, ram, Goto
<1>5. CASE EnterConsole
  BY <1>5
  DEF EnterConsole, ram, Goto
<1>6. CASE Activate
  <2> USE <1>6 DEF Activate, ram, Goto
  <2>1. CASE app.status = "idle"
    BY <2>1
  <2>2. CASE app.status \in {"activating", "trial"}
    BY <2>2, RolledBackFacts
  <2>3. CASE app.status = "committing"
    BY <2>3, CommittedFacts
  <2>4. CASE app.status = "ready"
    <3>1. CASE app.release > app.installed
      <4>1. app' = [app EXCEPT !.status = "activating", !.other = 0]
        BY <2>4, <3>1
      <4>2. /\ app'.status = "activating" /\ app'.other = 0
            /\ app'.release = app.release
        BY <4>1 DEF AppRecord
      <4> QED
        BY <2>4, <3>1, <4>2
    <3>2. CASE ~(app.release > app.installed)
      BY <2>4, <3>2, RolledBackFacts
    <3> QED
      BY <3>1, <3>2
  <2> QED
    BY <2>1, <2>2, <2>3, <2>4
<1>7. CASE ActivationEnds
  BY <1>7, RolledBackFacts
  DEF ActivationEnds, AppRecord, ram, Goto
<1>8. CASE StartApplication
  BY <1>8
  DEF StartApplication, disk, Goto
<1> QED
  BY <1>1, <1>2, <1>3, <1>4, <1>5, <1>6, <1>7, <1>8
  DEF Boot

LEMMA RunRecords ==
  ASSUME IInv, Run
  PROVE  RecordAndStep' /\ Running'
<1> USE DEF IInv, TypeOK, RecordAndStep, Running, OnTrial
<1>1. CASE HealthGate
  BY <1>1
  DEF HealthGate, disk, ram, Goto
<1>2. CASE ConfirmCore
  BY <1>2
  DEF ConfirmCore, ram, Goto
<1>3. CASE CoreNotMarked
  BY <1>3
  DEF CoreNotMarked, disk, ram, Goto
<1>4. CASE RecordCore
  BY <1>4
  DEF RecordCore, ram, Goto
<1>5. CASE ConfirmApp
  BY <1>5
  DEF ConfirmApp, AppRecord, ram, Goto
<1>6. CASE CommitApp
  BY <1>6, CommittedFacts
  DEF CommitApp, ram, Goto
<1>7. CASE ConfirmUni
  BY <1>7, ReconciledFacts, DiscardedFacts
  DEF ConfirmUni, ram, Goto
<1>8. CASE MarkHealthy
  BY <1>8
  DEF MarkHealthy, Goto
<1>9. CASE ApplicationEnds
  BY <1>9, RolledBackFacts, PowerDownFacts
  DEF ApplicationEnds
<1>10. CASE Deadline
  BY <1>10, PowerDownFacts
  DEF Deadline, disk
<1> QED
  BY <1>1, <1>2, <1>3, <1>4, <1>5, <1>6, <1>7, <1>8, <1>9, <1>10
  DEF Run

LEMMA RequestRecords ==
  ASSUME IInv, Request
  PROVE  RecordAndStep' /\ Running'
<1> USE DEF IInv, TypeOK, RecordAndStep, Running, OnTrial
<1>1. CASE Reboot
  BY <1>1, PowerDownFacts
  DEF Reboot, disk
<1>2. CASE ConsoleEnds
  BY <1>2, PowerDownFacts
  DEF ConsoleEnds
<1>3. CASE BeginCoreUpload
  BY <1>3
  DEF BeginCoreUpload
<1>4. CASE EndCoreUpload
  BY <1>4
  DEF EndCoreUpload
<1>5. CASE StageApp
  BY <1>5, Numbers
  DEF StageApp, AppRecord, Serving, ram
<1>6. CASE StageUniversal
  BY <1>6
  DEF StageUniversal, ram
<1>7. CASE DiscardStaged
  BY <1>7, DiscardedFacts
  DEF DiscardStaged, Serving, ram
<1>8. CASE ActivateFromConsole
  BY <1>8, AnsweredFacts
  DEF ActivateFromConsole
<1>9. CASE RollbackFromConsole
  BY <1>9, RolledBackFacts, AnsweredFacts
  DEF RollbackFromConsole
<1>10. CASE RollbackToPrevious
  BY <1>10, AnsweredFacts
  DEF RollbackToPrevious, AppRecord, Serving
<1>11. CASE SelectCore
  BY <1>11
  DEF SelectCore, Serving, Goto
<1>12. CASE RecordTrial
  BY <1>12, AnsweredFacts
  DEF RecordTrial, ram, Goto
<1>13. CASE RecordUniversal
  BY <1>13, AnsweredFacts
  DEF RecordUniversal
<1>14. CASE ActivationRefused
  BY <1>14
  DEF ActivationRefused, disk, ram, Asked, Goto
<1>15. CASE ActivateApplicationHalf
  BY <1>15, AnsweredFacts
  DEF ActivateApplicationHalf, Serving
<1> QED
  BY <1>1, <1>2, <1>3, <1>4, <1>5, <1>6, <1>7, <1>8, <1>9, <1>10, <1>11,
     <1>12, <1>13, <1>14, <1>15
  DEF Request

LEMMA PowerLossStep ==
  ASSUME IInv, PowerLoss
  PROVE  IInv'
<1>1. TypeOK'
  BY PowerDownFacts, MaxLossesAssumption DEF IInv, TypeOK, PowerLoss, disk
<1>2. RecordAndStep' /\ Running'
  BY PowerDownFacts
  DEF IInv, TypeOK, PowerLoss, RecordAndStep, Running, OnTrial, disk
<1> QED
  BY <1>1, <1>2 DEF IInv

LEMMA StepIInv == IInv /\ [Next]_vars => IInv'
<1> SUFFICES ASSUME IInv, [Next]_vars PROVE IInv'
  OBVIOUS
<1>1. CASE Boot
  BY <1>1, BootTypes, BootRecords DEF IInv
<1>2. CASE Run
  BY <1>2, RunTypes, RunRecords DEF IInv
<1>3. CASE Request
  BY <1>3, RequestTypes, RequestRecords DEF IInv
<1>4. CASE PowerLoss
  BY <1>4, PowerLossStep
<1>5. CASE UNCHANGED vars
  BY <1>5 DEF vars, IInv, TypeOK, RecordAndStep, Running, OnTrial
<1> QED
  BY <1>1, <1>2, <1>3, <1>4, <1>5 DEF Next

THEOREM Invariance == Spec => []IInv
BY InitIInv, StepIInv, PTL DEF Spec

\* Every variable keeps its type; the count of unhealthy boots, in particular,
\* never exceeds the limit at which the console is entered.
THEOREM TypeCorrect == Spec => []TypeOK
<1>1. IInv => TypeOK
  BY DEF IInv
<1> QED
  BY <1>1, Invariance, PTL

-----------------------------------------------------------------------------
(* The refinement: each step of the device is a step of AtomicRelease or a *)
(* stutter of it.                                                          *)

\* The pair on trial, and that there is none.
Nothing == [app |-> 0, settings |-> 0]

LEMMA TrialFacts ==
  /\ AppOnTrial \in {Nothing, [app |-> app.release, settings |-> 0]}
  /\ app.status \notin {"trial", "committing"} => AppOnTrial = Nothing
  /\ app.status = "committing" =>
       AppOnTrial = [app |-> app.release, settings |-> 0]
BY DEF AppOnTrial, Nothing

LEMMA TrialFactsAfter ==
  /\ AppOnTrial' \in {Nothing, [app |-> app'.release, settings |-> 0]}
  /\ app'.status \notin {"trial", "committing"} => AppOnTrial' = Nothing
  /\ app'.status = "committing" =>
       AppOnTrial' = [app |-> app'.release, settings |-> 0]
BY DEF AppOnTrial, Nothing

Simulated == [Atomic!AbsNext]_(Atomic!absVars)

\* A step that keeps the installed and the previous generation and that does
\* not exchange one candidate for another tries, abandons or stutters.
LEMMA SamePair ==
  ASSUME TypeOK', app'.installed = app.installed, app'.other = app.other,
         \/ AppOnTrial = Nothing
         \/ AppOnTrial' = Nothing
         \/ AppOnTrial' = AppOnTrial
  PROVE  Simulated
<1>1. AppOnTrial' \in [app : Image, settings : Image]
  BY TrialFactsAfter, Numbers DEF TypeOK, AppRecord, Nothing
<1> QED
  BY <1>1
  DEF Simulated, Nothing, Atomic!AbsNext, Atomic!Try, Atomic!Abandon,
      Atomic!absVars, Atomic!NoCandidate, Atomic!Candidate

\* So does every step that leaves the record alone, whatever it does to the
\* program counter.
LEMMA SameRecord ==
  ASSUME TypeOK', UNCHANGED app
  PROVE  Simulated
BY SamePair, TrialFacts, TrialFactsAfter

\* And every step after which nothing is on trial any more.
LEMMA Dropped ==
  ASSUME TypeOK', app'.status \in {"idle", "ready", "activating"},
         app'.installed = app.installed, app'.other = app.other
  PROVE  Simulated
BY SamePair, TrialFactsAfter

LEMMA KeepStep ==
  ASSUME TypeOK, TypeOK', RecordAndStep, app.status = "committing",
         app' = Committed(app)
  PROVE  Simulated
<1>1. app.release # 0 /\ app \in AppRecord
  BY DEF RecordAndStep, TypeOK
<1>2. /\ app'.status = "idle" /\ app'.installed = app.release
      /\ app'.other \in {app.installed, 0}
  BY <1>1, CommittedFacts
<1>3. /\ AppOnTrial = [app |-> app.release, settings |-> 0]
      /\ AppOnTrial' = Nothing
  BY <1>2, TrialFacts, TrialFactsAfter
<1>4. Atomic!Keep
  BY <1>1, <1>2, <1>3
  DEF Atomic!Keep, Atomic!NoCandidate, Atomic!Merge, Nothing
<1> QED
  BY <1>4 DEF Simulated, Atomic!AbsNext

LEMMA SwitchStep ==
  ASSUME TypeOK, RollbackToPrevious
  PROVE  Simulated
<1>1. /\ app'.status = "idle" /\ app'.installed = app.other
      /\ app'.other = app.installed /\ app.status = "idle" /\ app.other # 0
  BY DEF RollbackToPrevious, TypeOK, AppRecord
<1>2. AppOnTrial = Nothing /\ AppOnTrial' = Nothing
  BY <1>1, TrialFacts, TrialFactsAfter
<1>3. Atomic!SwitchBack
  BY <1>1, <1>2 DEF Atomic!SwitchBack, Atomic!NoCandidate, Nothing
<1> QED
  BY <1>3 DEF Simulated, Atomic!AbsNext

LEMMA ActivateSimulated ==
  ASSUME IInv, TypeOK', Activate
  PROVE  Simulated
<1> USE DEF IInv
<1>1. CASE app.status = "idle"
  BY <1>1, SameRecord DEF Activate
<1>2. CASE app.status \in {"activating", "trial"}
  <2>1. app' = RolledBack(app) /\ OnTrial(app) /\ app.other = 0
    BY <1>2 DEF Activate, OnTrial, RecordAndStep
  <2> QED
    BY <2>1, RolledBackFacts, Dropped DEF TypeOK
<1>3. CASE app.status = "committing"
  BY <1>3, KeepStep DEF Activate
<1>4. CASE app.status = "ready" /\ ~(app.release > app.installed)
  <2>1. app' = RolledBack(app) /\ ~OnTrial(app)
    BY <1>4 DEF Activate, OnTrial
  <2> QED
    BY <2>1, RolledBackFacts, Dropped DEF TypeOK
<1>5. CASE app.status = "ready" /\ app.release > app.installed
  <2>1. app' = [app EXCEPT !.status = "activating", !.other = 0]
    BY <1>5 DEF Activate
  <2>2. /\ app'.status = "activating" /\ app'.other = 0
        /\ app'.installed = app.installed
    BY <2>1 DEF TypeOK, AppRecord
  <2>3. AppOnTrial = Nothing /\ AppOnTrial' = Nothing
    BY <1>5, <2>2, TrialFacts, TrialFactsAfter
  <2>4. Atomic!Forget
    BY <2>2, <2>3 DEF Atomic!Forget
  <2> QED
    BY <2>4 DEF Simulated, Atomic!AbsNext
<1> QED
  BY <1>1, <1>2, <1>3, <1>4, <1>5 DEF Activate

\* Discarding a staged application and ending a trial drop the candidate.
LEMMA EndsSimulated ==
  ASSUME IInv, TypeOK',
         \/ app' = RolledBack(app)
         \/ app.status \in {"idle", "ready"} /\ app' = Discarded(app)
  PROVE  Simulated
BY RolledBackFacts, DiscardedFacts, Dropped
DEF IInv, TypeOK, RecordAndStep

LEMMA BootSimulated ==
  ASSUME IInv, TypeOK', Boot
  PROVE  Simulated
<1>1. CASE Bootloader \/ CapabilityFailure \/ BootAttempt \/ EnterConsole
           \/ StartApplication
  BY <1>1, SameRecord
  DEF Bootloader, CapabilityFailure, BootAttempt, EnterConsole,
      StartApplication, disk
<1>2. CASE Reconcile
  <2> DEFINE a == ReconciledApp(app, fw, uni)
             u == ReconciledUni(app, fw, uni)
             f == IF Discards(app, fw, uni) /\ uni.core THEN NoFw
                  ELSE BootStatus
  <2>1. /\ a \in AppRecord /\ u \in UniRecord /\ f \in FwRecord
        /\ \/ a = app
           \/ app.status \in {"idle", "ready"} /\ a = Discarded(app)
    BY ReconciledFacts, RecordFacts DEF IInv, TypeOK
  <2>2. /\ app' = ReconciledApp(a, f, u)
        /\ \/ app' = a
           \/ a.status \in {"idle", "ready"} /\ app' = Discarded(a)
    BY <1>2, <2>1, ReconciledFacts DEF Reconcile
  <2> HIDE DEF a, u, f
  <2>3. CASE app' = app
    BY <2>3, SameRecord
  <2>4. CASE app' # app
    <3>1. /\ app'.status = "idle"
          /\ app'.installed = app.installed /\ app'.other = app.other
      BY <2>1, <2>2, <2>4, DiscardedFacts DEF IInv, TypeOK
    <3> QED
      BY <3>1, Dropped
  <2> QED
    BY <2>3, <2>4
<1>3. CASE Activate
  BY <1>3, ActivateSimulated
<1>4. CASE ActivationEnds
  <2>1. CASE app' = [app EXCEPT !.status = "trial"]
    <3>1. app.status = "activating"
      BY <1>4 DEF ActivationEnds, IInv, RecordAndStep
    <3>2. app'.installed = app.installed /\ app'.other = app.other
      BY <2>1 DEF IInv, TypeOK, AppRecord
    <3> QED
      BY <3>1, <3>2, TrialFacts, SamePair
  <2>2. CASE app' = RolledBack(app)
    BY <2>2, EndsSimulated
  <2> QED
    BY <1>4, <2>1, <2>2 DEF ActivationEnds
<1> QED
  BY <1>1, <1>2, <1>3, <1>4 DEF Boot

LEMMA RunSimulated ==
  ASSUME IInv, TypeOK', Run
  PROVE  Simulated
<1>1. CASE HealthGate \/ ConfirmCore \/ CoreNotMarked \/ RecordCore
           \/ MarkHealthy \/ Deadline
  BY <1>1, SameRecord
  DEF HealthGate, ConfirmCore, CoreNotMarked, RecordCore, MarkHealthy,
      Deadline, disk
<1>2. CASE ConfirmApp
  <2>1. CASE UNCHANGED app
    BY <2>1, SameRecord
  <2>2. CASE /\ app.status \in {"trial", "committing"}
             /\ app' = [app EXCEPT !.status = "committing"]
    <3>1. /\ app'.status = "committing" /\ app'.release = app.release
          /\ app'.installed = app.installed /\ app'.other = app.other
      BY <2>2 DEF IInv, TypeOK, AppRecord
    <3>2. AppOnTrial = [app |-> app.release, settings |-> 0]
      BY <1>2, <2>2 DEF ConfirmApp, AppOnTrial
    <3> QED
      BY <3>1, <3>2, TrialFactsAfter, SamePair
  <2> QED
    BY <1>2, <2>1, <2>2 DEF ConfirmApp
<1>3. CASE CommitApp
  BY <1>3, KeepStep DEF CommitApp, IInv, RecordAndStep
<1>4. CASE ConfirmUni
  <2>1. \/ app' = app
        \/ app.status \in {"idle", "ready"} /\ app' = Discarded(app)
    BY <1>4, ReconciledFacts DEF ConfirmUni, IInv, TypeOK
  <2> QED
    BY <2>1, SameRecord, EndsSimulated
<1>5. CASE ApplicationEnds
  BY <1>5, SameRecord, EndsSimulated DEF ApplicationEnds
<1> QED
  BY <1>1, <1>2, <1>3, <1>4, <1>5 DEF Run

LEMMA RequestSimulated ==
  ASSUME IInv, TypeOK', Request
  PROVE  Simulated
<1>1. CASE Reboot \/ ConsoleEnds \/ BeginCoreUpload \/ EndCoreUpload
           \/ StageUniversal \/ ActivateFromConsole \/ SelectCore
           \/ RecordTrial \/ RecordUniversal \/ ActivationRefused
           \/ ActivateApplicationHalf
  BY <1>1, SameRecord
  DEF Reboot, ConsoleEnds, BeginCoreUpload, EndCoreUpload, StageUniversal,
      ActivateFromConsole, SelectCore, RecordTrial, RecordUniversal,
      ActivationRefused, ActivateApplicationHalf, disk
<1>2. CASE StageApp
  <2>1. /\ app'.status = "ready"
        /\ app'.installed = app.installed /\ app'.other = app.other
    BY <1>2 DEF StageApp, IInv, TypeOK, AppRecord, RecordAndStep, OnTrial
  <2> QED
    BY <2>1, Dropped
<1>3. CASE DiscardStaged
  BY <1>3, SameRecord, EndsSimulated DEF DiscardStaged
<1>4. CASE RollbackFromConsole
  BY <1>4, EndsSimulated DEF RollbackFromConsole
<1>5. CASE RollbackToPrevious
  BY <1>5, SwitchStep DEF IInv
<1> QED
  BY <1>1, <1>2, <1>3, <1>4, <1>5 DEF Request

LEMMA InitSimulated == Init => Atomic!AbsInit
<1> SUFFICES ASSUME Init PROVE Atomic!AbsInit
  OBVIOUS
<1>1. app.installed = 1 /\ app.other = 0 /\ AppOnTrial = Nothing
  BY DEF Init, AppOnTrial, Nothing
<1> QED
  BY <1>1, Numbers, MaxReleaseAssumption
  DEF Atomic!AbsInit, Atomic!NoCandidate, Nothing, Image

LEMMA StepSimulated ==
  IInv /\ IInv' /\ [Next]_vars => [Atomic!AbsNext]_(Atomic!absVars)
<1> SUFFICES ASSUME IInv, IInv', [Next]_vars PROVE Simulated
  BY DEF Simulated
<1>1. TypeOK'
  BY DEF IInv
<1>2. CASE PowerLoss \/ UNCHANGED vars
  BY <1>1, <1>2, SameRecord DEF PowerLoss, disk, vars
<1> QED
  BY <1>1, <1>2, BootSimulated, RunSimulated, RequestSimulated DEF Next

\* Whatever the core, the console, the power and the application do, the
\* installed application changes only to one that got healthy on its trial, and
\* a trial that is not kept leaves no trace: the application half of the device
\* implements AtomicRelease.
THEOREM AppIsAtomicHolds == Spec => AppIsAtomic
BY InitSimulated, StepSimulated, Invariance, PTL
DEF Spec, AppIsAtomic, Atomic!AbsSpec
-----------------------------------------------------------------------------
(***************************************************************************)
(* The core: a reset at any moment leads to a core the installed           *)
(* application runs on, as long as nothing has happened that the code does *)
(* not cover.                                                              *)
(***************************************************************************)

\* The partition a trial returns to, and the one that boots when there is none.
Good == IF boot.state = "valid" THEN boot.part ELSE OtherPart(boot.part)

\* The steps on which the application that was loaded is being tried, and the steps that come
\* after the core was marked valid.
Trying    == {"starting", "confirmCore", "recordCore", "confirmApp"}
Confirmed == {"recordCore", "confirmApp", "commitApp", "confirmUni", "healthy"}
Requested == {"up", "recordTrial", "recordUni"}

\* The bootloader's selection: the good core is whole, a core that is selected over it is
\* newer, and one that was booted on trial has the record that says so.
Selected ==
  /\ image[Good] # 0
  /\ boot.state # "valid" /\ image[boot.part] # 0 => image[boot.part] > image[Good]
  /\ boot.state = "pending" => /\ image[boot.part] # 0
                               /\ fw.status = "trial" /\ fw.target = boot.part
  /\ boot.state = "pending" => upload = 0
  /\ pc # "off" => core = IF boot.state = "pending" THEN boot.part ELSE Good
  /\ pc = "off" => upload = 0

\* What is uploaded is newer than the good core and never replaces it.
Uploaded ==
  /\ fw.status = "ready" => fw.target = OtherPart(Good) /\ image[fw.target] > image[Good]
  /\ upload # 0 => upload > image[Good]

\* Past its confirmation the core is not on trial any more.
Marked ==
  /\ pc \in Confirmed \cup Requested => boot.state # "pending"
  /\ pc \in Confirmed => fw.status # "trial" \/ boot.state = "valid"

\* Every application the device may go on with runs on the good core.
Suited ==
  /\ MinCore[app.installed] <= image[Good]
  /\ app.other # 0 => MinCore[app.other] <= image[Good]
  /\ app.status = "committing" => MinCore[app.release] <= image[Good]
  /\ pc \in Trying => MinCore[RunningApp] <= image[core]

\* The record of the application at each step of a start.
Paced ==
  /\ pc \in Trying \cup {"load"} => app.status \in {"idle", "trial"}
  /\ pc \in {"confirmUni", "healthy"} => app.status = "idle"

Covered == Selected /\ Uploaded /\ Marked /\ Suited

\* The inductive invariant of the core.
CoreInv == IInv /\ Paced /\ (exposed = {} => Covered)

\* There are two partitions.
LEMMA TwoPartitions ==
  /\ \A p \in Partition : OtherPart(p) \in Partition /\ OtherPart(p) # p
  /\ \A p \in Partition : OtherPart(OtherPart(p)) = p
  /\ \A p, q \in Partition : p # q => q = OtherPart(p)
BY DEF OtherPart, Partition

\* What the reconciliation at boot leaves of the record of the core.
LEMMA ReconcileCore ==
  ASSUME IInv, Reconcile
  PROVE  /\ fw' = NoFw \/ fw' = fw
         /\ fw.status = "trial" /\ core = fw.target => fw' = fw
         /\ NoFw.status = "idle"
<1> DEFINE a == ReconciledApp(app, fw, uni)
           u == ReconciledUni(app, fw, uni)
           f == IF Discards(app, fw, uni) /\ uni.core THEN NoFw ELSE BootStatus
<1>1. fw' = ReconciledFw(a, f, u)
  BY DEF Reconcile
<1>2. fw' = f \/ fw' = NoFw
  BY <1>1 DEF ReconciledFw
<1>3. f = NoFw \/ f = fw
  BY RecordFacts
<1>4. ASSUME fw.status = "trial", core = fw.target PROVE f = fw /\ fw' = f
  <2>1. ~Discards(app, fw, uni) /\ BootStatus = fw
    BY <1>4 DEF Discards, BootStatus, CoreRolledBack
  <2>2. ~Discards(a, f, u)
    BY <1>4, <2>1 DEF Discards
  <2> QED
    BY <1>1, <2>1, <2>2 DEF ReconciledFw
<1> HIDE DEF f
<1> QED
  BY <1>2, <1>3, <1>4 DEF NoFw

\* A start goes on with an application that is installed or on trial.
LEMMA PacedStep ==
  ASSUME IInv, Paced, Next
  PROVE  Paced'
<1> USE DEF IInv, TypeOK, Paced, Trying, Goto, disk, ram, RecordAndStep
<1>1. CASE Boot
  <2>1. CASE Bootloader
    BY <2>1 DEF Bootloader
  <2>2. CASE CapabilityFailure
    BY <2>2 DEF CapabilityFailure
  <2>3. CASE Reconcile
    BY <2>3 DEF Reconcile
  <2>4. CASE BootAttempt
    BY <2>4 DEF BootAttempt
  <2>5. CASE EnterConsole
    BY <2>5 DEF EnterConsole
  <2>6. CASE Activate
    BY <2>6, RolledBackFacts, CommittedFacts DEF Activate
  <2>7. CASE ActivationEnds
    BY <2>7, RolledBackFacts DEF ActivationEnds, AppRecord
  <2>8. CASE StartApplication
    BY <2>8 DEF StartApplication
  <2> QED
    BY <1>1, <2>1, <2>2, <2>3, <2>4, <2>5, <2>6, <2>7, <2>8 DEF Boot
<1>2. CASE Run
  <2>1. CASE HealthGate
    BY <2>1 DEF HealthGate
  <2>2. CASE ConfirmCore
    BY <2>2 DEF ConfirmCore
  <2>3. CASE CoreNotMarked
    BY <2>3 DEF CoreNotMarked
  <2>4. CASE RecordCore
    BY <2>4 DEF RecordCore
  <2>5. CASE ConfirmApp
    BY <2>5 DEF ConfirmApp
  <2>6. CASE CommitApp
    BY <2>6, CommittedFacts DEF CommitApp
  <2>7. CASE ConfirmUni
    BY <2>7, ReconciledFacts, DiscardedFacts DEF ConfirmUni
  <2>8. CASE MarkHealthy
    BY <2>8 DEF MarkHealthy
  <2>9. CASE ApplicationEnds
    BY <2>9, RolledBackFacts, PowerDownFacts DEF ApplicationEnds
  <2>10. CASE Deadline
    BY <2>10, PowerDownFacts DEF Deadline
  <2> QED
    BY <1>2, <2>1, <2>2, <2>3, <2>4, <2>5, <2>6, <2>7, <2>8, <2>9, <2>10 DEF Run
<1>3. CASE Request
  <2>1. CASE Reboot
    BY <2>1, PowerDownFacts DEF Reboot
  <2>2. CASE ConsoleEnds
    BY <2>2, PowerDownFacts DEF ConsoleEnds
  <2>3. CASE BeginCoreUpload
    BY <2>3 DEF BeginCoreUpload
  <2>4. CASE EndCoreUpload
    BY <2>4 DEF EndCoreUpload
  <2>5. CASE StageApp
    BY <2>5 DEF StageApp, Serving
  <2>6. CASE StageUniversal
    BY <2>6 DEF StageUniversal, Serving
  <2>7. CASE DiscardStaged
    BY <2>7 DEF DiscardStaged
  <2>8. CASE ActivateFromConsole
    BY <2>8, AnsweredFacts DEF ActivateFromConsole
  <2>9. CASE RollbackFromConsole
    BY <2>9, RolledBackFacts DEF RollbackFromConsole
  <2>10. CASE RollbackToPrevious
    BY <2>10, AnsweredFacts DEF RollbackToPrevious
  <2>11. CASE SelectCore
    BY <2>11 DEF SelectCore
  <2>12. CASE RecordTrial
    BY <2>12, AnsweredFacts DEF RecordTrial
  <2>13. CASE RecordUniversal
    BY <2>13, AnsweredFacts DEF RecordUniversal
  <2>14. CASE ActivationRefused
    BY <2>14 DEF ActivationRefused, Asked
  <2>15. CASE ActivateApplicationHalf
    BY <2>15, AnsweredFacts DEF ActivateApplicationHalf
  <2> QED
    BY <1>3, <2>1, <2>2, <2>3, <2>4, <2>5, <2>6, <2>7, <2>8, <2>9, <2>10, <2>11, <2>12, <2>13,
        <2>14, <2>15
    DEF Request
<1>4. CASE PowerLoss
  BY <1>4, PowerDownFacts DEF PowerLoss
<1> QED
  BY <1>1, <1>2, <1>3, <1>4 DEF Next

\* What has happened is not forgotten.
LEMMA ExposedStep ==
  ASSUME Next
  PROVE  exposed \subseteq exposed'
<1> USE DEF disk, ram, Goto
<1>1. CASE Boot
  BY <1>1
  DEF Boot, Bootloader, CapabilityFailure, Reconcile, BootAttempt, EnterConsole, Activate,
      ActivationEnds, StartApplication
<1>2. CASE Run
  BY <1>2
  DEF Run, HealthGate, ConfirmCore, CoreNotMarked, RecordCore, ConfirmApp, CommitApp,
      ConfirmUni, MarkHealthy, ApplicationEnds, Deadline
<1>3. CASE Request
  BY <1>3
  DEF Request, Reboot, ConsoleEnds, BeginCoreUpload, EndCoreUpload, StageApp, StageUniversal,
      DiscardStaged, ActivateFromConsole, RollbackFromConsole, RollbackToPrevious, SelectCore,
      RecordTrial, RecordUniversal, ActivationRefused, ActivateApplicationHalf
<1>4. CASE PowerLoss
  BY <1>4 DEF PowerLoss
<1> QED
  BY <1>1, <1>2, <1>3, <1>4 DEF Next

\* The selection of the bootloader.
LEMMA SelectedStep ==
  ASSUME IInv, Covered, exposed' = {}, Next
  PROVE  Selected'
<1> USE DEF IInv, TypeOK, Selected, Uploaded, Marked, Suited, Covered, Good, BootSelection,
    Image, Release, Goto, disk, ram, Confirmed, Requested
<1>1. CASE Boot
  <2>1. CASE Bootloader
    BY <2>1, TwoPartitions, Parts DEF Bootloader, WouldBoot, Unnoted
  <2>2. CASE CapabilityFailure
    BY <2>2, TwoPartitions, Parts DEF CapabilityFailure
  <2>3. CASE Reconcile
    <3>1. /\ pc = "platform" /\ pc' = "attempt" /\ UNCHANGED <<image, boot, core, upload, timer>>
      BY <2>3 DEF Reconcile
    <3>2. /\ fw' = NoFw \/ fw' = fw
          /\ fw.status = "trial" /\ core = fw.target => fw' = fw
          /\ NoFw.status = "idle"
      BY <2>3, ReconcileCore
    <3> QED
      BY <3>1, <3>2, TwoPartitions
  <2>4. CASE BootAttempt
    BY <2>4, TwoPartitions, Parts DEF BootAttempt
  <2>5. CASE EnterConsole
    BY <2>5, TwoPartitions, Parts DEF EnterConsole
  <2>6. CASE Activate
    BY <2>6, TwoPartitions, Parts DEF Activate
  <2>7. CASE ActivationEnds
    BY <2>7, TwoPartitions, Parts DEF ActivationEnds
  <2>8. CASE StartApplication
    BY <2>8, TwoPartitions, Parts DEF StartApplication
  <2> QED
    BY <1>1, <2>1, <2>2, <2>3, <2>4, <2>5, <2>6, <2>7, <2>8 DEF Boot
<1>2. CASE Run
  <2>1. CASE HealthGate
    BY <2>1, TwoPartitions, Parts DEF HealthGate
  <2>2. CASE ConfirmCore
    BY <2>2, TwoPartitions, Parts, RecordFacts, ReconciledFacts
    DEF ConfirmCore, BootStatus, CoreRolledBack, NoFw
  <2>3. CASE CoreNotMarked
    BY <2>3, TwoPartitions, Parts DEF CoreNotMarked
  <2>4. CASE RecordCore
    BY <2>4, TwoPartitions, Parts DEF RecordCore, NoFw
  <2>5. CASE ConfirmApp
    BY <2>5, TwoPartitions, Parts DEF ConfirmApp
  <2>6. CASE CommitApp
    BY <2>6, TwoPartitions, Parts DEF CommitApp
  <2>7. CASE ConfirmUni
    <3>1. pc = "confirmUni" /\ pc' = "healthy" /\ UNCHANGED <<image, boot, core, upload, timer>>
      BY <2>7 DEF ConfirmUni
    <3>2. (fw' = NoFw \/ fw' = fw) /\ NoFw.status = "idle"
      BY <2>7 DEF ConfirmUni, ReconciledFw, NoFw
    <3> QED
      BY <3>1, <3>2, TwoPartitions
  <2>8. CASE MarkHealthy
    BY <2>8, TwoPartitions, Parts DEF MarkHealthy
  <2>9. CASE ApplicationEnds
    BY <2>9, TwoPartitions, Parts DEF ApplicationEnds, PowerDown
  <2>10. CASE Deadline
    BY <2>10, TwoPartitions, Parts DEF Deadline, PowerDown
  <2> QED
    BY <1>2, <2>1, <2>2, <2>3, <2>4, <2>5, <2>6, <2>7, <2>8, <2>9, <2>10 DEF Run
<1>3. CASE Request
  <2>1. CASE Reboot
    BY <2>1, TwoPartitions, Parts DEF Reboot, PowerDown
  <2>2. CASE ConsoleEnds
    BY <2>2, TwoPartitions, Parts DEF ConsoleEnds, PowerDown
  <2>3. CASE BeginCoreUpload
    BY <2>3, TwoPartitions, Parts DEF BeginCoreUpload, Serving, Unlocked, RunningCore, NoFw
  <2>4. CASE EndCoreUpload
    BY <2>4, TwoPartitions, Parts DEF EndCoreUpload, Serving, Unlocked
  <2>5. CASE StageApp
    BY <2>5, TwoPartitions, Parts DEF StageApp, Serving, Unlocked
  <2>6. CASE StageUniversal
    BY <2>6, TwoPartitions, Parts DEF StageUniversal, Serving, Unlocked
  <2>7. CASE DiscardStaged
    BY <2>7, TwoPartitions, Parts DEF DiscardStaged, Serving, Unlocked
  <2>8. CASE ActivateFromConsole
    BY <2>8, TwoPartitions, Parts DEF ActivateFromConsole, Answered, PowerDown
  <2>9. CASE RollbackFromConsole
    BY <2>9, TwoPartitions, Parts DEF RollbackFromConsole, Answered, PowerDown
  <2>10. CASE RollbackToPrevious
    BY <2>10, TwoPartitions, Parts
    DEF RollbackToPrevious, Answered, PowerDown, Serving, Unlocked
  <2>11. CASE SelectCore
    BY <2>11, TwoPartitions, Parts DEF SelectCore, Serving, Unlocked, FwRecord
  <2>12. CASE RecordTrial
    BY <2>12, TwoPartitions, Parts DEF RecordTrial, Answered, PowerDown, FwRecord
  <2>13. CASE RecordUniversal
    BY <2>13, TwoPartitions, Parts DEF RecordUniversal, Answered, PowerDown
  <2>14. CASE ActivationRefused
    BY <2>14, TwoPartitions, Parts DEF ActivationRefused, Asked
  <2>15. CASE ActivateApplicationHalf
    BY <2>15, TwoPartitions, Parts
    DEF ActivateApplicationHalf, Answered, PowerDown, Serving, Unlocked
  <2> QED
    BY <1>3, <2>1, <2>2, <2>3, <2>4, <2>5, <2>6, <2>7, <2>8, <2>9, <2>10, <2>11, <2>12, <2>13,
        <2>14, <2>15
    DEF Request
<1>4. CASE PowerLoss
  BY <1>4, TwoPartitions, Parts DEF PowerLoss, PowerDown
<1> QED
  BY <1>1, <1>2, <1>3, <1>4 DEF Next

\* Uploads are newer than the core that stays.
LEMMA UploadedStep ==
  ASSUME IInv, Covered, exposed' = {}, Next
  PROVE  Uploaded'
<1> USE DEF IInv, TypeOK, Selected, Uploaded, Marked, Suited, Covered, Good, BootSelection,
    Image, Release, Goto, disk, ram, Confirmed, Requested
<1>1. CASE Boot
  <2>1. CASE Bootloader
    BY <2>1, TwoPartitions, Parts DEF Bootloader, WouldBoot, Unnoted
  <2>2. CASE CapabilityFailure
    BY <2>2, TwoPartitions, Parts DEF CapabilityFailure
  <2>3. CASE Reconcile
    <3>1. /\ pc = "platform" /\ pc' = "attempt" /\ UNCHANGED <<image, boot, core, upload, timer>>
      BY <2>3 DEF Reconcile
    <3>2. /\ fw' = NoFw \/ fw' = fw
          /\ fw.status = "trial" /\ core = fw.target => fw' = fw
          /\ NoFw.status = "idle"
      BY <2>3, ReconcileCore
    <3> QED
      BY <3>1, <3>2, TwoPartitions
  <2>4. CASE BootAttempt
    BY <2>4, TwoPartitions, Parts DEF BootAttempt
  <2>5. CASE EnterConsole
    BY <2>5, TwoPartitions, Parts DEF EnterConsole
  <2>6. CASE Activate
    BY <2>6, TwoPartitions, Parts DEF Activate
  <2>7. CASE ActivationEnds
    BY <2>7, TwoPartitions, Parts DEF ActivationEnds
  <2>8. CASE StartApplication
    BY <2>8, TwoPartitions, Parts DEF StartApplication
  <2> QED
    BY <1>1, <2>1, <2>2, <2>3, <2>4, <2>5, <2>6, <2>7, <2>8 DEF Boot
<1>2. CASE Run
  <2>1. CASE HealthGate
    BY <2>1, TwoPartitions, Parts DEF HealthGate
  <2>2. CASE ConfirmCore
    BY <2>2, TwoPartitions, Parts, RecordFacts, ReconciledFacts
    DEF ConfirmCore, BootStatus, CoreRolledBack, NoFw
  <2>3. CASE CoreNotMarked
    BY <2>3, TwoPartitions, Parts DEF CoreNotMarked
  <2>4. CASE RecordCore
    BY <2>4, TwoPartitions, Parts DEF RecordCore, NoFw
  <2>5. CASE ConfirmApp
    BY <2>5, TwoPartitions, Parts DEF ConfirmApp
  <2>6. CASE CommitApp
    BY <2>6, TwoPartitions, Parts DEF CommitApp
  <2>7. CASE ConfirmUni
    <3>1. pc = "confirmUni" /\ pc' = "healthy" /\ UNCHANGED <<image, boot, core, upload, timer>>
      BY <2>7 DEF ConfirmUni
    <3>2. (fw' = NoFw \/ fw' = fw) /\ NoFw.status = "idle"
      BY <2>7 DEF ConfirmUni, ReconciledFw, NoFw
    <3> QED
      BY <3>1, <3>2, TwoPartitions
  <2>8. CASE MarkHealthy
    BY <2>8, TwoPartitions, Parts DEF MarkHealthy
  <2>9. CASE ApplicationEnds
    BY <2>9, TwoPartitions, Parts DEF ApplicationEnds, PowerDown
  <2>10. CASE Deadline
    BY <2>10, TwoPartitions, Parts DEF Deadline, PowerDown
  <2> QED
    BY <1>2, <2>1, <2>2, <2>3, <2>4, <2>5, <2>6, <2>7, <2>8, <2>9, <2>10 DEF Run
<1>3. CASE Request
  <2>1. CASE Reboot
    BY <2>1, TwoPartitions, Parts DEF Reboot, PowerDown
  <2>2. CASE ConsoleEnds
    BY <2>2, TwoPartitions, Parts DEF ConsoleEnds, PowerDown
  <2>3. CASE BeginCoreUpload
    BY <2>3, TwoPartitions, Parts DEF BeginCoreUpload, Serving, Unlocked, RunningCore, NoFw
  <2>4. CASE EndCoreUpload
    BY <2>4, TwoPartitions, Parts DEF EndCoreUpload, Serving, Unlocked, NoFw
  <2>5. CASE StageApp
    BY <2>5, TwoPartitions, Parts DEF StageApp, Serving, Unlocked
  <2>6. CASE StageUniversal
    BY <2>6, TwoPartitions, Parts DEF StageUniversal, Serving, Unlocked
  <2>7. CASE DiscardStaged
    BY <2>7, TwoPartitions, Parts DEF DiscardStaged, Serving, Unlocked, NoFw
  <2>8. CASE ActivateFromConsole
    BY <2>8, TwoPartitions, Parts DEF ActivateFromConsole, Answered, PowerDown
  <2>9. CASE RollbackFromConsole
    BY <2>9, TwoPartitions, Parts DEF RollbackFromConsole, Answered, PowerDown
  <2>10. CASE RollbackToPrevious
    BY <2>10, TwoPartitions, Parts
    DEF RollbackToPrevious, Answered, PowerDown, Serving, Unlocked
  <2>11. CASE SelectCore
    BY <2>11, TwoPartitions, Parts DEF SelectCore, Serving, Unlocked, FwRecord
  <2>12. CASE RecordTrial
    BY <2>12, TwoPartitions, Parts DEF RecordTrial, Answered, PowerDown, FwRecord
  <2>13. CASE RecordUniversal
    BY <2>13, TwoPartitions, Parts DEF RecordUniversal, Answered, PowerDown
  <2>14. CASE ActivationRefused
    BY <2>14, TwoPartitions, Parts DEF ActivationRefused, Asked
  <2>15. CASE ActivateApplicationHalf
    BY <2>15, TwoPartitions, Parts
    DEF ActivateApplicationHalf, Answered, PowerDown, Serving, Unlocked
  <2> QED
    BY <1>3, <2>1, <2>2, <2>3, <2>4, <2>5, <2>6, <2>7, <2>8, <2>9, <2>10, <2>11, <2>12, <2>13,
        <2>14, <2>15
    DEF Request
<1>4. CASE PowerLoss
  BY <1>4, TwoPartitions, Parts DEF PowerLoss, PowerDown
<1> QED
  BY <1>1, <1>2, <1>3, <1>4 DEF Next

\* Past its confirmation a core is not on trial.
LEMMA MarkedStep ==
  ASSUME IInv, Covered, exposed' = {}, Next
  PROVE  Marked'
<1> USE DEF IInv, TypeOK, Selected, Uploaded, Marked, Suited, Covered, Good, BootSelection,
    Image, Release, Goto, disk, ram, Confirmed, Requested
<1>1. CASE Boot
  <2>1. CASE Bootloader
    BY <2>1, TwoPartitions, Parts DEF Bootloader, WouldBoot, Unnoted
  <2>2. CASE CapabilityFailure
    BY <2>2, TwoPartitions, Parts DEF CapabilityFailure
  <2>3. CASE Reconcile
    <3>1. /\ pc = "platform" /\ pc' = "attempt" /\ UNCHANGED <<image, boot, core, upload, timer>>
      BY <2>3 DEF Reconcile
    <3>2. /\ fw' = NoFw \/ fw' = fw
          /\ fw.status = "trial" /\ core = fw.target => fw' = fw
          /\ NoFw.status = "idle"
      BY <2>3, ReconcileCore
    <3> QED
      BY <3>1, <3>2, TwoPartitions
  <2>4. CASE BootAttempt
    BY <2>4, TwoPartitions, Parts DEF BootAttempt
  <2>5. CASE EnterConsole
    BY <2>5, TwoPartitions, Parts DEF EnterConsole
  <2>6. CASE Activate
    BY <2>6, TwoPartitions, Parts DEF Activate
  <2>7. CASE ActivationEnds
    BY <2>7, TwoPartitions, Parts DEF ActivationEnds
  <2>8. CASE StartApplication
    BY <2>8, TwoPartitions, Parts DEF StartApplication
  <2> QED
    BY <1>1, <2>1, <2>2, <2>3, <2>4, <2>5, <2>6, <2>7, <2>8 DEF Boot
<1>2. CASE Run
  <2>1. CASE HealthGate
    BY <2>1, TwoPartitions, Parts DEF HealthGate
  <2>2. CASE ConfirmCore
    BY <2>2, TwoPartitions, Parts, RecordFacts, ReconciledFacts
    DEF ConfirmCore, BootStatus, CoreRolledBack, NoFw
  <2>3. CASE CoreNotMarked
    BY <2>3, TwoPartitions, Parts DEF CoreNotMarked
  <2>4. CASE RecordCore
    BY <2>4, TwoPartitions, Parts DEF RecordCore, NoFw
  <2>5. CASE ConfirmApp
    BY <2>5, TwoPartitions, Parts DEF ConfirmApp
  <2>6. CASE CommitApp
    BY <2>6, TwoPartitions, Parts DEF CommitApp
  <2>7. CASE ConfirmUni
    <3>1. pc = "confirmUni" /\ pc' = "healthy" /\ UNCHANGED <<image, boot, core, upload, timer>>
      BY <2>7 DEF ConfirmUni
    <3>2. (fw' = NoFw \/ fw' = fw) /\ NoFw.status = "idle"
      BY <2>7 DEF ConfirmUni, ReconciledFw, NoFw
    <3> QED
      BY <3>1, <3>2, TwoPartitions
  <2>8. CASE MarkHealthy
    BY <2>8, TwoPartitions, Parts DEF MarkHealthy
  <2>9. CASE ApplicationEnds
    BY <2>9, TwoPartitions, Parts DEF ApplicationEnds, PowerDown
  <2>10. CASE Deadline
    BY <2>10, TwoPartitions, Parts DEF Deadline, PowerDown
  <2> QED
    BY <1>2, <2>1, <2>2, <2>3, <2>4, <2>5, <2>6, <2>7, <2>8, <2>9, <2>10 DEF Run
<1>3. CASE Request
  <2>1. CASE Reboot
    BY <2>1, TwoPartitions, Parts DEF Reboot, PowerDown
  <2>2. CASE ConsoleEnds
    BY <2>2, TwoPartitions, Parts DEF ConsoleEnds, PowerDown
  <2>3. CASE BeginCoreUpload
    BY <2>3, TwoPartitions, Parts DEF BeginCoreUpload, Serving, Unlocked, RunningCore, NoFw
  <2>4. CASE EndCoreUpload
    BY <2>4, TwoPartitions, Parts DEF EndCoreUpload, Serving, Unlocked, NoFw
  <2>5. CASE StageApp
    BY <2>5, TwoPartitions, Parts DEF StageApp, Serving, Unlocked
  <2>6. CASE StageUniversal
    BY <2>6, TwoPartitions, Parts DEF StageUniversal, Serving, Unlocked
  <2>7. CASE DiscardStaged
    BY <2>7, TwoPartitions, Parts DEF DiscardStaged, Serving, Unlocked, NoFw
  <2>8. CASE ActivateFromConsole
    BY <2>8, TwoPartitions, Parts DEF ActivateFromConsole, Answered, PowerDown
  <2>9. CASE RollbackFromConsole
    BY <2>9, TwoPartitions, Parts DEF RollbackFromConsole, Answered, PowerDown
  <2>10. CASE RollbackToPrevious
    BY <2>10, TwoPartitions, Parts
    DEF RollbackToPrevious, Answered, PowerDown, Serving, Unlocked
  <2>11. CASE SelectCore
    BY <2>11, TwoPartitions, Parts DEF SelectCore, Serving, Unlocked, FwRecord
  <2>12. CASE RecordTrial
    BY <2>12, TwoPartitions, Parts DEF RecordTrial, Answered, PowerDown, FwRecord
  <2>13. CASE RecordUniversal
    BY <2>13, TwoPartitions, Parts DEF RecordUniversal, Answered, PowerDown
  <2>14. CASE ActivationRefused
    BY <2>14, TwoPartitions, Parts DEF ActivationRefused, Asked
  <2>15. CASE ActivateApplicationHalf
    BY <2>15, TwoPartitions, Parts
    DEF ActivateApplicationHalf, Answered, PowerDown, Serving, Unlocked
  <2> QED
    BY <1>3, <2>1, <2>2, <2>3, <2>4, <2>5, <2>6, <2>7, <2>8, <2>9, <2>10, <2>11, <2>12, <2>13,
        <2>14, <2>15
    DEF Request
<1>4. CASE PowerLoss
  BY <1>4, TwoPartitions, Parts DEF PowerLoss, PowerDown
<1> QED
  BY <1>1, <1>2, <1>3, <1>4 DEF Next

\* The good core is only ever replaced by a newer one.
LEMMA GoodGrows ==
  ASSUME IInv, Covered, exposed' = {}, Next
  PROVE  image[Good] \in Nat /\ image'[Good'] \in Nat /\ image[Good] <= image'[Good']
<1> USE DEF IInv, TypeOK, Selected, Uploaded, Marked, Suited, Covered, Good, BootSelection,
    Image, Release, Goto, disk, ram, Confirmed, Requested
<1>1. CASE Boot
  <2>1. CASE Bootloader
    BY <2>1, TwoPartitions, Parts DEF Bootloader, WouldBoot, Unnoted
  <2>2. CASE CapabilityFailure
    BY <2>2, TwoPartitions, Parts DEF CapabilityFailure
  <2>3. CASE Reconcile
    <3>1. /\ pc = "platform" /\ pc' = "attempt" /\ UNCHANGED <<image, boot, core, upload, timer>>
      BY <2>3 DEF Reconcile
    <3>2. /\ fw' = NoFw \/ fw' = fw
          /\ fw.status = "trial" /\ core = fw.target => fw' = fw
          /\ NoFw.status = "idle"
      BY <2>3, ReconcileCore
    <3> QED
      BY <3>1, <3>2, TwoPartitions
  <2>4. CASE BootAttempt
    BY <2>4, TwoPartitions, Parts DEF BootAttempt
  <2>5. CASE EnterConsole
    BY <2>5, TwoPartitions, Parts DEF EnterConsole
  <2>6. CASE Activate
    BY <2>6, TwoPartitions, Parts DEF Activate
  <2>7. CASE ActivationEnds
    BY <2>7, TwoPartitions, Parts DEF ActivationEnds
  <2>8. CASE StartApplication
    BY <2>8, TwoPartitions, Parts DEF StartApplication
  <2> QED
    BY <1>1, <2>1, <2>2, <2>3, <2>4, <2>5, <2>6, <2>7, <2>8 DEF Boot
<1>2. CASE Run
  <2>1. CASE HealthGate
    BY <2>1, TwoPartitions, Parts DEF HealthGate
  <2>2. CASE ConfirmCore
    BY <2>2, TwoPartitions, Parts, RecordFacts, ReconciledFacts
    DEF ConfirmCore, BootStatus, CoreRolledBack, NoFw
  <2>3. CASE CoreNotMarked
    BY <2>3, TwoPartitions, Parts DEF CoreNotMarked
  <2>4. CASE RecordCore
    BY <2>4, TwoPartitions, Parts DEF RecordCore, NoFw
  <2>5. CASE ConfirmApp
    BY <2>5, TwoPartitions, Parts DEF ConfirmApp
  <2>6. CASE CommitApp
    BY <2>6, TwoPartitions, Parts DEF CommitApp
  <2>7. CASE ConfirmUni
    <3>1. pc = "confirmUni" /\ pc' = "healthy" /\ UNCHANGED <<image, boot, core, upload, timer>>
      BY <2>7 DEF ConfirmUni
    <3>2. (fw' = NoFw \/ fw' = fw) /\ NoFw.status = "idle"
      BY <2>7 DEF ConfirmUni, ReconciledFw, NoFw
    <3> QED
      BY <3>1, <3>2, TwoPartitions
  <2>8. CASE MarkHealthy
    BY <2>8, TwoPartitions, Parts DEF MarkHealthy
  <2>9. CASE ApplicationEnds
    BY <2>9, TwoPartitions, Parts DEF ApplicationEnds, PowerDown
  <2>10. CASE Deadline
    BY <2>10, TwoPartitions, Parts DEF Deadline, PowerDown
  <2> QED
    BY <1>2, <2>1, <2>2, <2>3, <2>4, <2>5, <2>6, <2>7, <2>8, <2>9, <2>10 DEF Run
<1>3. CASE Request
  <2>1. CASE Reboot
    BY <2>1, TwoPartitions, Parts DEF Reboot, PowerDown
  <2>2. CASE ConsoleEnds
    BY <2>2, TwoPartitions, Parts DEF ConsoleEnds, PowerDown
  <2>3. CASE BeginCoreUpload
    BY <2>3, TwoPartitions, Parts DEF BeginCoreUpload, Serving, Unlocked, RunningCore, NoFw
  <2>4. CASE EndCoreUpload
    BY <2>4, TwoPartitions, Parts DEF EndCoreUpload, Serving, Unlocked
  <2>5. CASE StageApp
    BY <2>5, TwoPartitions, Parts DEF StageApp, Serving, Unlocked
  <2>6. CASE StageUniversal
    BY <2>6, TwoPartitions, Parts DEF StageUniversal, Serving, Unlocked
  <2>7. CASE DiscardStaged
    BY <2>7, TwoPartitions, Parts DEF DiscardStaged, Serving, Unlocked
  <2>8. CASE ActivateFromConsole
    BY <2>8, TwoPartitions, Parts DEF ActivateFromConsole, Answered, PowerDown
  <2>9. CASE RollbackFromConsole
    BY <2>9, TwoPartitions, Parts DEF RollbackFromConsole, Answered, PowerDown
  <2>10. CASE RollbackToPrevious
    BY <2>10, TwoPartitions, Parts
    DEF RollbackToPrevious, Answered, PowerDown, Serving, Unlocked
  <2>11. CASE SelectCore
    BY <2>11, TwoPartitions, Parts DEF SelectCore, Serving, Unlocked, FwRecord
  <2>12. CASE RecordTrial
    BY <2>12, TwoPartitions, Parts DEF RecordTrial, Answered, PowerDown, FwRecord
  <2>13. CASE RecordUniversal
    BY <2>13, TwoPartitions, Parts DEF RecordUniversal, Answered, PowerDown
  <2>14. CASE ActivationRefused
    BY <2>14, TwoPartitions, Parts DEF ActivationRefused, Asked
  <2>15. CASE ActivateApplicationHalf
    BY <2>15, TwoPartitions, Parts
    DEF ActivateApplicationHalf, Answered, PowerDown, Serving, Unlocked
  <2> QED
    BY <1>3, <2>1, <2>2, <2>3, <2>4, <2>5, <2>6, <2>7, <2>8, <2>9, <2>10, <2>11, <2>12, <2>13,
        <2>14, <2>15
    DEF Request
<1>4. CASE PowerLoss
  BY <1>4, TwoPartitions, Parts DEF PowerLoss, PowerDown
<1> QED
  BY <1>1, <1>2, <1>3, <1>4 DEF Next

\* What Suited compares.
LEMMA Needs ==
  /\ \A r \in Release : MinCore[r] \in Nat
  /\ \A r \in Image : r # 0 => r \in Release
  /\ IInv => /\ app.installed \in Release /\ app.other \in Image /\ app.release \in Image
             /\ RunningApp \in {app.release, app.installed}
             /\ app.status # "idle" => app.release # 0
BY MinCoreAssumption, MaxReleaseAssumption
DEF Release, Image, IInv, TypeOK, AppRecord, RecordAndStep, RunningApp

\* Reconciling changes no more of the application's record than an update that was staged.
LEMMA ReconcileApp ==
  ASSUME IInv, Reconcile \/ ConfirmUni
  PROVE  /\ app'.installed = app.installed /\ app'.other = app.other
         /\ app' = app \/ app'.status = "idle"
<1>1. app \in AppRecord
  BY DEF IInv, TypeOK
<1>2. CASE ConfirmUni
  BY <1>1, <1>2, DiscardedFacts DEF ConfirmUni, ReconciledApp
<1>3. CASE Reconcile
  <2> DEFINE a == ReconciledApp(app, fw, uni)
             u == ReconciledUni(app, fw, uni)
             f == IF Discards(app, fw, uni) /\ uni.core THEN NoFw ELSE BootStatus
  <2>1. app' = ReconciledApp(a, f, u)
    BY <1>3 DEF Reconcile
  <2>2. a \in AppRecord /\ (a = app \/ a = Discarded(app))
    BY <1>1, DiscardedFacts DEF ReconciledApp
  <2>3. app' = a \/ app' = Discarded(a)
    BY <2>1 DEF ReconciledApp
  <2> HIDE DEF a
  <2> QED
    BY <1>1, <2>2, <2>3, DiscardedFacts
<1> QED
  BY <1>2, <1>3

\* The applications of the record and the step they are in say all that Suited needs.
LEMMA SameApps ==
  ASSUME IInv, Covered, Next, exposed' = {}, pc' \notin Trying,
         app'.installed = app.installed, app'.other = app.other,
         app' = app \/ app'.status = "idle"
  PROVE  Suited'
<1>1. /\ image[Good] \in Nat /\ image'[Good'] \in Nat /\ image[Good] <= image'[Good']
      /\ MinCore[app.installed] \in Nat
      /\ app.other # 0 => MinCore[app.other] \in Nat
      /\ app.status = "committing" => MinCore[app.release] \in Nat
  BY GoodGrows, Needs
<1> QED
  BY <1>1 DEF Suited, Covered

LEMMA CommittedApps ==
  ASSUME IInv, Covered, Next, exposed' = {}, pc' \notin Trying,
         app.status = "committing", app' = Committed(app)
  PROVE  Suited'
<1>1. app \in AppRecord /\ app.release # 0 /\ app.installed \in Release
  BY Needs DEF IInv, TypeOK
<1>2. /\ app'.installed = app.release /\ app'.other \in {app.installed, 0}
      /\ app'.status = "idle"
  BY <1>1, CommittedFacts
<1>3. /\ image[Good] \in Nat /\ image'[Good'] \in Nat /\ image[Good] <= image'[Good']
      /\ MinCore[app.installed] \in Nat /\ MinCore[app.release] \in Nat
  BY <1>1, GoodGrows, Needs
<1>4. MinCore[app.installed] <= image[Good] /\ MinCore[app.release] <= image[Good]
  BY DEF Suited, Covered
<1> QED
  BY <1>2, <1>3, <1>4 DEF Suited

\* The applications the device may go on with run on the good core.
LEMMA SuitedStep ==
  ASSUME IInv, Paced, Covered, exposed' = {}, Next
  PROVE  Suited'
<1> USE DEF Suited, Covered, IInv, TypeOK, RunningApp, Trying, Paced, Goto, disk, ram
<1>1. CASE Boot
  <2>1. CASE Bootloader
    BY <2>1, GoodGrows, Needs DEF Bootloader
  <2>2. CASE CapabilityFailure
    BY <2>2, GoodGrows, Needs DEF CapabilityFailure
  <2>3. CASE Reconcile
    <3>1. /\ pc \notin Trying /\ pc' \notin Trying
      BY <2>3 DEF Reconcile, Trying, Goto
    <3>2. /\ app'.installed = app.installed /\ app'.other = app.other
          /\ app' = app \/ app'.status = "idle"
      BY <2>3, ReconcileApp
    <3> QED
      BY <3>1, <3>2, SameApps
  <2>4. CASE BootAttempt
    BY <2>4, GoodGrows, Needs DEF BootAttempt
  <2>5. CASE EnterConsole
    BY <2>5, GoodGrows, Needs DEF EnterConsole
  <2>6. CASE Activate
    <3>1. pc' \notin Trying
      BY <2>6 DEF Activate
    <3>2. CASE app.status = "committing"
      <4>1. app' = Committed(app)
        BY <2>6, <3>2 DEF Activate
      <4> QED
        BY <3>1, <3>2, <4>1, CommittedApps
    <3>3. CASE app.status # "committing"
      <4>1. app'.installed = app.installed /\ app'.other \in {app.other, 0}
            /\ app'.status # "committing"
        BY <2>6, <3>3, RolledBackFacts DEF Activate, AppRecord
      <4> QED
        BY <3>1, <4>1, GoodGrows, Needs
    <3> QED
      BY <3>2, <3>3
  <2>7. CASE ActivationEnds
    BY <2>7, GoodGrows, Needs, RolledBackFacts DEF ActivationEnds, AppRecord
  <2>8. CASE StartApplication
    BY <2>8, GoodGrows, Needs DEF StartApplication, RunningCore
  <2> QED
    BY <1>1, <2>1, <2>2, <2>3, <2>4, <2>5, <2>6, <2>7, <2>8 DEF Boot
<1>2. CASE Run
  <2>1. CASE HealthGate
    BY <2>1, GoodGrows, Needs DEF HealthGate
  <2>2. CASE ConfirmCore
    BY <2>2, GoodGrows, Needs DEF ConfirmCore
  <2>3. CASE CoreNotMarked
    BY <2>3, GoodGrows, Needs DEF CoreNotMarked
  <2>4. CASE RecordCore
    BY <2>4, GoodGrows, Needs DEF RecordCore
  <2>5. CASE ConfirmApp
    <3>1. image[core] = image[Good] /\ MinCore[RunningApp] <= image[Good]
      BY <2>5 DEF ConfirmApp, Selected, Marked, Confirmed
    <3>2. CASE app.status \in {"trial", "committing"}
      <4>1. MinCore[app.release] <= image[Good]
        BY <3>1, <3>2
      <4>2. /\ app'.installed = app.installed /\ app'.other = app.other
            /\ app'.release = app.release /\ pc' = "commitApp"
        BY <2>5, <3>2 DEF ConfirmApp, AppRecord
      <4> QED
        BY <3>2, <4>1, <4>2, GoodGrows, Needs
    <3>3. CASE app.status \notin {"trial", "committing"}
      BY <2>5, <3>3, SameApps DEF ConfirmApp
    <3> QED
      BY <3>2, <3>3
  <2>6. CASE CommitApp
    <3>1. /\ app.status = "committing" /\ app' = Committed(app) /\ pc' = "confirmUni"
      BY <2>6 DEF CommitApp, RecordAndStep
    <3> QED
      BY <3>1, CommittedApps
  <2>7. CASE ConfirmUni
    <3>1. /\ pc \notin Trying /\ pc' \notin Trying
      BY <2>7 DEF ConfirmUni, Trying, Goto
    <3>2. /\ app'.installed = app.installed /\ app'.other = app.other
          /\ app' = app \/ app'.status = "idle"
      BY <2>7, ReconcileApp
    <3> QED
      BY <3>1, <3>2, SameApps
  <2>8. CASE MarkHealthy
    BY <2>8, GoodGrows, Needs DEF MarkHealthy
  <2>9. CASE ApplicationEnds
    BY <2>9, GoodGrows, Needs, RolledBackFacts, PowerDownFacts DEF ApplicationEnds, PowerDown
  <2>10. CASE Deadline
    BY <2>10, GoodGrows, Needs, PowerDownFacts DEF Deadline, PowerDown
  <2> QED
    BY <1>2, <2>1, <2>2, <2>3, <2>4, <2>5, <2>6, <2>7, <2>8, <2>9, <2>10 DEF Run
<1>3. CASE Request
  <2>1. CASE Reboot
    BY <2>1, GoodGrows, Needs, PowerDownFacts DEF Reboot, PowerDown
  <2>2. CASE ConsoleEnds
    BY <2>2, GoodGrows, Needs, PowerDownFacts DEF ConsoleEnds, PowerDown
  <2>3. CASE BeginCoreUpload
    <3>1. pc' \notin Trying /\ app' = app
      BY <2>3 DEF BeginCoreUpload, Serving, Goto
    <3> QED
      BY <3>1, SameApps
  <2>4. CASE EndCoreUpload
    BY <2>4, GoodGrows, Needs DEF EndCoreUpload, Serving, Unlocked
  <2>5. CASE StageApp
    BY <2>5, GoodGrows, Needs DEF StageApp, Serving, Unlocked, AppRecord
  <2>6. CASE StageUniversal
    BY <2>6, GoodGrows, Needs DEF StageUniversal, Serving, Unlocked
  <2>7. CASE DiscardStaged
    BY <2>7, GoodGrows, Needs, DiscardedFacts DEF DiscardStaged, Serving, Unlocked
  <2>8. CASE ActivateFromConsole
    BY <2>8, GoodGrows, Needs, AnsweredFacts DEF ActivateFromConsole, Answered, PowerDown
  <2>9. CASE RollbackFromConsole
    BY <2>9, GoodGrows, Needs, RolledBackFacts DEF RollbackFromConsole, Answered, PowerDown
  <2>10. CASE RollbackToPrevious
    BY <2>10, GoodGrows, Needs, AnsweredFacts
    DEF RollbackToPrevious, Answered, PowerDown, Serving, Unlocked, AppRecord
  <2>11. CASE SelectCore
    <3>1. pc' \notin Trying /\ app' = app
      BY <2>11 DEF SelectCore, Serving, Goto
    <3> QED
      BY <3>1, SameApps
  <2>12. CASE RecordTrial
    BY <2>12, GoodGrows, Needs, AnsweredFacts DEF RecordTrial, Answered, PowerDown
  <2>13. CASE RecordUniversal
    BY <2>13, GoodGrows, Needs, AnsweredFacts DEF RecordUniversal, Answered, PowerDown
  <2>14. CASE ActivationRefused
    BY <2>14, GoodGrows, Needs DEF ActivationRefused, Asked
  <2>15. CASE ActivateApplicationHalf
    BY <2>15, GoodGrows, Needs, AnsweredFacts
    DEF ActivateApplicationHalf, Answered, PowerDown, Serving, Unlocked
  <2> QED
    BY <1>3, <2>1, <2>2, <2>3, <2>4, <2>5, <2>6, <2>7, <2>8, <2>9, <2>10, <2>11, <2>12, <2>13,
        <2>14, <2>15
    DEF Request
<1>4. CASE PowerLoss
  BY <1>4, GoodGrows, Needs, PowerDownFacts DEF PowerLoss, PowerDown
<1> QED
  BY <1>1, <1>2, <1>3, <1>4 DEF Next

-----------------------------------------------------------------------------
LEMMA InitCoreInv == Init => CoreInv
<1> SUFFICES ASSUME Init PROVE CoreInv
  OBVIOUS
<1>1. IInv
  BY InitIInv
<1>2. MinCore[1] = 1 /\ image["ota0"] = 1 /\ Good = "ota0"
  BY MinCoreAssumption DEF Init, Good, Partition
<1>3. Selected /\ Uploaded /\ Marked /\ Suited /\ Paced
  BY <1>2
  DEF Init, Selected, Uploaded, Marked, Suited, Paced, NoFw, Trying, Confirmed, Requested
<1> QED
  BY <1>1, <1>3 DEF CoreInv, Covered

LEMMA StepCoreInv == CoreInv /\ [Next]_vars => CoreInv'
<1> SUFFICES ASSUME CoreInv, [Next]_vars PROVE CoreInv'
  OBVIOUS
<1>1. IInv'
  BY StepIInv DEF CoreInv
<1>2. CASE Next
  <2>1. Paced'
    BY <1>2, PacedStep DEF CoreInv
  <2>2. ASSUME exposed' = {} PROVE Covered'
    <3>1. Covered
      BY <1>2, <2>2, ExposedStep DEF CoreInv
    <3> QED
      BY <1>2, <2>2, <3>1, SelectedStep, UploadedStep, MarkedStep, SuitedStep
      DEF CoreInv, Covered
  <2> QED
    BY <1>1, <2>1, <2>2 DEF CoreInv
<1>3. CASE UNCHANGED vars
  <2>1. Paced' /\ exposed' = exposed
    BY <1>3 DEF vars, CoreInv, Paced
  <2>2. Covered => Covered'
    BY <1>3 DEF vars, Covered, Selected, Uploaded, Marked, Suited, Good, RunningApp
  <2> QED
    BY <1>1, <2>1, <2>2 DEF CoreInv
<1> QED
  BY <1>2, <1>3

LEMMA CoreInvariance == Spec => []CoreInv
BY InitCoreInv, StepCoreInv, PTL DEF Spec

LEMMA CoreIsSafe ==
  ASSUME Exposure \subseteq Excused, CoreInv
  PROVE  ResetIsSafe
<1> SUFFICES ASSUME Promised PROVE ResetIsSafe
  BY DEF ResetIsSafe, InstalledAppRuns, FallbackKept
<1>1. IInv /\ exposed = {}
  BY DEF CoreInv, IInv, TypeOK, Promised
<1>2. Covered
  BY <1>1 DEF CoreInv
<1>3. FallbackKept
  BY <1>2 DEF FallbackKept, Covered, Selected, Good
<1>4. boot.part \in Partition /\ image[boot.part] \in Nat /\ image[OtherPart(boot.part)] \in Nat
  BY <1>1, TwoPartitions DEF IInv, TypeOK, BootSelection, Image
<1>5. WouldBoot = Good \/ (WouldBoot = boot.part /\ image[boot.part] > image[Good])
  BY <1>2 DEF WouldBoot, Covered, Selected, Good
<1>6. MinCore[app.installed] \in Nat /\ MinCore[app.installed] <= image[Good]
  BY <1>1, <1>2, Needs DEF Covered, Suited
<1>7. InstalledAppRuns
  BY <1>4, <1>5, <1>6 DEF InstalledAppRuns, Good
<1> QED
  BY <1>3, <1>7 DEF ResetIsSafe

\* A reset at any moment finds a core that the installed application runs on, and a core on
\* trial another to fall back on (recovery_boot.py, firmware_update.py): whatever the releases
\* need of one another, however often power is lost, up to an event the code does not cover.
THEOREM ResetIsSafeHolds ==
  ASSUME Exposure \subseteq Excused
  PROVE  Spec => []ResetIsSafe
BY CoreInvariance, CoreIsSafe, PTL

\* Only the supervisor and the confirmation forget a universal transaction by themselves.
LEMMA OnlyForgets ==
  ASSUME TypeOK, ~Serving, uni.status = "activating", uni'.status = "idle", Next
  PROVE  Reconcile \/ ConfirmUni
<1> USE DEF disk, Serving
<1>1. CASE Boot
  BY <1>1
  DEF Boot, Bootloader, CapabilityFailure, Reconcile, BootAttempt, EnterConsole, Activate,
      ActivationEnds, StartApplication
<1>2. CASE Run
  BY <1>2
  DEF Run, HealthGate, ConfirmCore, CoreNotMarked, RecordCore, ConfirmApp, CommitApp,
      ConfirmUni, MarkHealthy, ApplicationEnds, Deadline
<1>3. CASE Request
  BY <1>3
  DEF Request, Reboot, ConsoleEnds, BeginCoreUpload, EndCoreUpload, StageApp, StageUniversal,
      DiscardStaged, ActivateFromConsole, RollbackFromConsole, RollbackToPrevious, SelectCore,
      RecordTrial, RecordUniversal, ActivationRefused, ActivateApplicationHalf, TypeOK,
      UniRecord
<1>4. CASE PowerLoss
  BY <1>4 DEF PowerLoss
<1> QED
  BY <1>1, <1>2, <1>3, <1>4 DEF Next

LEMMA ForgottenWhenDone ==
  ASSUME Exposure \subseteq Excused, CoreInv, Next,
         Promised, ~Serving, uni.status = "activating", uni'.status = "idle"
  PROVE  /\ uni.app => app'.status = "idle"
         /\ uni.core => (fw'.status # "trial" \/ boot.state = "valid")
<1> USE DEF CoreInv, IInv, TypeOK
<1>1. exposed = {} /\ Covered
  BY DEF Promised
<1>2. CASE Reconcile
  <2> DEFINE a == ReconciledApp(app, fw, uni)
             u == ReconciledUni(app, fw, uni)
             f == IF Discards(app, fw, uni) /\ uni.core THEN NoFw ELSE BootStatus
  <2>1. a = app /\ ~Discards(app, fw, uni) /\ f = BootStatus
    BY DEF Discards, ReconciledApp
  <2>2. /\ app' = ReconciledApp(a, f, u) /\ fw' = ReconciledFw(a, f, u)
        /\ uni' = ReconciledUni(a, f, u)
    BY <1>2 DEF Reconcile
  <2>3. u = uni \/ (u = NoUni /\ Forgets(app, fw, uni))
    BY <2>1 DEF ReconciledUni
  <2>4. CASE u = uni
    <3>1. ~Discards(a, f, u)
      BY <2>4 DEF Discards
    <3>2. Forgets(a, f, u) /\ app' = app /\ fw' = f
      BY <2>1, <2>2, <2>4, <3>1 DEF ReconciledApp, ReconciledFw, ReconciledUni
    <3> QED
      BY <2>1, <2>4, <3>2 DEF Forgets
  <2>5. CASE u = NoUni /\ Forgets(app, fw, uni)
    <3>1. ~Discards(a, f, u)
      BY <2>5 DEF Discards, NoUni
    <3>2. app' = app /\ fw' = BootStatus
      BY <2>1, <2>2, <3>1 DEF ReconciledApp, ReconciledFw
    <3> QED
      BY <2>5, <3>2 DEF Forgets, BootStatus, NoFw
  <2> QED
    BY <2>3, <2>4, <2>5
<1>3. CASE ConfirmUni
  <2>1. app.status = "idle" /\ (fw.status # "trial" \/ boot.state = "valid")
    BY <1>1, <1>3 DEF ConfirmUni, Paced, Covered, Marked, Confirmed
  <2>2. app'.status = "idle"
    BY <1>3, <2>1, ReconcileApp
  <2>3. fw' = fw \/ fw'.status # "trial"
    BY <1>3 DEF ConfirmUni, ReconciledFw, NoFw
  <2> QED
    BY <2>1, <2>2, <2>3
<1> QED
  BY <1>2, <1>3, OnlyForgets

\* The universal transaction is not forgotten while a component that it activated still waits
\* for its trial or the outcome of one (universal_update.py): for every number of releases
\* and losses of power, up to an event the code does not cover.
THEOREM NoOrphanedComponentHolds ==
  ASSUME Exposure \subseteq Excused
  PROVE  Spec => NoOrphanedComponent
<1>1. ASSUME CoreInv, [Next]_vars
      PROVE  (Promised /\ ~Serving /\ uni.status = "activating" /\ uni'.status = "idle") =>
                /\ uni.app => app'.status = "idle"
                /\ uni.core => (fw'.status # "trial" \/ boot.state = "valid")
  <2>1. CASE Next
    BY <1>1, <2>1, ForgottenWhenDone
  <2>2. CASE UNCHANGED vars
    BY <2>2 DEF vars
  <2> QED
    BY <1>1, <2>1, <2>2
<1> QED
  BY <1>1, CoreInvariance, PTL DEF Spec, NoOrphanedComponent
==============================================================================
