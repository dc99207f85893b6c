------------------------------ MODULE FleetProofs ------------------------------
(***************************************************************************)
(* Theorems about Fleet for any number of releases and whatever they need, *)
(* any policies and commands, and every setting of automatic download and  *)
(* activation.                                                             *)
(***************************************************************************)
EXTENDS Fleet, TLAPS

Numbers == 0 .. MaxRelease

\* What is installed, what waits, and what checks and downloads carry has a number.
Known ==
  /\ installed \in [Type -> Release]
  /\ staged \in [Type -> Numbers]
  /\ previous \in Numbers
  /\ armed \in BOOLEAN /\ asked \in BOOLEAN
  /\ offer \in [Type -> Release]
  /\ plan.want \in [Type -> Numbers]
  /\ plan.active \in Type \cup {None}
  /\ available.type \in Type \cup {None} /\ available.number \in Numbers
  /\ DOMAIN job = Caller
  /\ \A c \in Caller : /\ job[c].release.type \in Type \cup {None}
                       /\ job[c].release.number \in Numbers

\* Application n, if there is one, can run with the core.
Suits(core, n) == n # 0 => core >= Needs[n]

\* Every application that a boot or a rollback could take suits the core that runs now, and
\* so does one that is being written: the core can only be replaced by a newer one.
Suiting ==
  /\ Suits(installed["firmware"], installed["application"])
  /\ Suits(installed["firmware"], previous)
  /\ Suits(installed["firmware"], staged["application"])
  /\ \A c \in Caller : (job[c].at = "stage" /\ job[c].release.type = "application")
                         => Suits(installed["firmware"], job[c].release.number)
  /\ staged["firmware"] # 0 => staged["firmware"] > installed["firmware"]

\* A selected core was asked for.
Selected == armed => asked

\* The inductive invariant.
IInv == Known /\ Suiting /\ Selected

-----------------------------------------------------------------------------
(* Releases and the plan.                                                  *)

LEMMA TypeFacts ==
  Type = {"application", "firmware"} /\ None \notin Type /\ None = "none"
BY DEF Type, None

LEMMA ReleaseFacts ==
  /\ MaxRelease \in Nat \ {0} /\ 1 \in Release /\ 0 \in Numbers
  /\ \A n \in Release : n \in Numbers /\ n \in Nat /\ n # 0
  /\ \A n \in Numbers : n # 0 => n \in Release
  /\ Needs[1] = 1 /\ \A n \in Release : Needs[n] \in Nat
BY BoundAssumption DEF Release, Numbers

\* select_release() names a type or none.
LEMMA SelectFacts ==
  ASSUME NEW have, NEW want
  PROVE  SelectRelease(have, want) \in Type \cup {None}
BY TypeFacts DEF SelectRelease

LEMMA NoPlanFacts ==
  NoPlan.want \in [Type -> Numbers] /\ NoPlan.active \in Type \cup {None}
BY ReleaseFacts DEF NoPlan

\* begin() and refresh() keep the releases of a plan.
LEMMA BeginFacts ==
  ASSUME NEW want \in [Type -> Numbers]
  PROVE  BeginPlan(want).want \in [Type -> Numbers]
         /\ BeginPlan(want).active \in Type \cup {None}
<1>1. CASE SelectRelease(installed, want) = None
  BY <1>1, NoPlanFacts DEF BeginPlan
<1>2. CASE SelectRelease(installed, want) # None
  <2>1. BeginPlan(want) = [status |-> "planned", want |-> want,
                           active |-> SelectRelease(installed, want)]
    BY <1>2 DEF BeginPlan
  <2> QED
    BY <2>1, SelectFacts
<1> QED
  BY <1>1, <1>2

\* next_release()
LEMMA NextFacts ==
  ASSUME NEW p, p.want \in [Type -> Numbers], p.active \in Type \cup {None}
  PROVE  NextRelease(p).type \in Type \cup {None} /\ NextRelease(p).number \in Numbers
<1>1. CASE p.active = None
  BY <1>1, ReleaseFacts DEF NextRelease, Nothing
<1>2. CASE p.active # None
  <2>1. p.active \in Type
    BY <1>2
  <2>2. NextRelease(p) = [type |-> p.active, number |-> p.want[p.active]]
    BY <1>2 DEF NextRelease
  <2> QED
    BY <2>1, <2>2
<1> QED
  BY <1>1, <1>2

\* What a caller carries when it enters a step is what it was given; others keep theirs.
LEMMA EnterFacts ==
  ASSUME DOMAIN job = Caller, NEW c \in Caller, NEW at, NEW release, Enter(c, at, release)
  PROVE  /\ DOMAIN job' = Caller
         /\ job'[c].at = at /\ job'[c].release = release
         /\ \A d \in Caller : d # c => job'[d] = job[d]
BY DEF Enter

LEMMA LeaveFacts ==
  ASSUME DOMAIN job = Caller, NEW c \in Caller, Leave(c)
  PROVE  /\ DOMAIN job' = Caller
         /\ job'[c].at = "off" /\ job'[c].release = Nothing
         /\ \A d \in Caller : d # c => job'[d] = job[d]
BY DEF Leave, Idle

\* Jobs that are as they were, ended, or enter a step with a known release.
Carried(j) ==
  /\ DOMAIN j = Caller
  /\ \A c \in Caller : /\ j[c].release.type \in Type \cup {None}
                       /\ j[c].release.number \in Numbers

LEMMA EnterCarries ==
  ASSUME Carried(job), NEW c \in Caller, NEW at, NEW release, Enter(c, at, release),
         release.type \in Type \cup {None}, release.number \in Numbers
  PROVE  Carried(job')
<1>1. DOMAIN job = Caller
  BY DEF Carried
<1> QED
  BY <1>1, EnterFacts DEF Carried

LEMMA LeaveCarries ==
  ASSUME Carried(job), NEW c \in Caller, Leave(c)
  PROVE  Carried(job')
<1>1. DOMAIN job = Caller
  BY DEF Carried
<1>2. Nothing.type \in Type \cup {None} /\ Nothing.number \in Numbers
  BY ReleaseFacts DEF Nothing
<1> QED
  BY <1>1, <1>2, LeaveFacts DEF Carried

-----------------------------------------------------------------------------
(* The initial states.                                                     *)

LEMMA InitHolds == Init => IInv
<1> SUFFICES ASSUME Init PROVE IInv
  OBVIOUS
<1> USE TypeFacts, ReleaseFacts
<1>1. /\ installed = [t \in Type |-> 1] /\ staged = [t \in Type |-> 0] /\ previous = 0
      /\ offer = [t \in Type |-> 1] /\ job = [c \in Caller |-> Idle]
      /\ plan = NoPlan /\ available = Nothing /\ armed = FALSE /\ asked = FALSE
  BY DEF Init
<1>2. Idle.at = "off" /\ Idle.release.type = None /\ Idle.release.number = 0
  BY DEF Idle, Nothing
<1>3. Known
  BY <1>1, <1>2, NoPlanFacts DEF Known, Nothing
<1>4. installed["firmware"] = 1 /\ installed["application"] = 1 /\ staged["application"] = 0
      /\ staged["firmware"] = 0
  BY <1>1
<1>5. Suits(1, 0) /\ Suits(1, 1)
  BY <1>4 DEF Suits
<1> QED
  BY <1>1, <1>2, <1>3, <1>4, <1>5 DEF IInv, Suiting, Selected

-----------------------------------------------------------------------------
(* Steps while the application runs.                                       *)

\* Where nothing is installed and nothing new is written, what could be taken still suits.
LEMMA SuitingKept ==
  ASSUME Suiting, installed' = installed, previous' = previous,
         \A t \in Type : staged'[t] \in {staged[t], 0},
         \A c \in Caller : job'[c].at = "stage" => job'[c] = job[c]
  PROVE  Suiting'
BY TypeFacts DEF Suiting, Suits

LEMMA KnownCarries == Known => Carried(job)
BY DEF Known, Carried

\* The service, the manager and the channel.
LEMMA ServiceStep ==
  ASSUME IInv,
         \/ \E p \in DOMAIN Policies : ApplyPolicy(p)
         \/ \E c \in Command, good \in BOOLEAN : ManagerRecords(c, good)
         \/ \E t \in Type : Published(t)
         \/ RoundBegins \/ RoundEnds \/ CommandRecorded
  PROVE  IInv'
<1>1. /\ UNCHANGED <<job, available, plan, staged, armed, installed, previous, asked>>
      /\ offer' \in [Type -> Release]
  <2>1. CASE \E p \in DOMAIN Policies : ApplyPolicy(p)
    BY <2>1 DEF ApplyPolicy, device, IInv, Known
  <2>2. CASE \E c \in Command, good \in BOOLEAN : ManagerRecords(c, good)
    BY <2>2 DEF ManagerRecords, device, IInv, Known
  <2>3. CASE \E t \in Type : Published(t)
    <3>1. PICK t \in Type : Published(t)
      BY <2>3
    <3>2. offer[t] + 1 \in Release
      BY <3>1, ReleaseFacts DEF Published, IInv, Known, Release
    <3> QED
      BY <3>1, <3>2 DEF Published, device, history, IInv, Known
  <2>4. CASE RoundBegins \/ RoundEnds \/ CommandRecorded
    BY <2>4 DEF RoundBegins, RoundEnds, CommandRecorded, device, history, IInv, Known
  <2> QED
    BY <2>1, <2>2, <2>3, <2>4
<1> QED
  BY <1>1, SuitingKept DEF IInv, Known, Selected, Suiting, Suits

\* A check or a download begins.
LEMMA BeginsStep ==
  ASSUME IInv, NEW c \in Caller, NEW at \in {"fetch", "open"}, NEW release,
         Enter(c, at, release), release.type \in Type \cup {None}, release.number \in Numbers,
         UNCHANGED <<available, plan, staged, armed, installed, previous, offer, asked>>
  PROVE  IInv'
<1>1. Carried(job) /\ DOMAIN job = Caller
  BY KnownCarries DEF IInv, Known
<1>2. Carried(job')
  BY <1>1, EnterCarries
<1>3. \A d \in Caller : job'[d].at = "stage" => job'[d] = job[d]
  BY <1>1, EnterFacts
<1> QED
  BY <1>2, <1>3, SuitingKept DEF IInv, Known, Carried, Selected

LEMMA NothingFacts == Nothing.type \in Type \cup {None} /\ Nothing.number \in Numbers
BY ReleaseFacts DEF Nothing

LEMMA ChecksStep ==
  ASSUME IInv, \/ CheckBegins \/ AdminAsks
               \/ \E c \in Command : CommandChecks(c) \/ CommandDownloads(c)
  PROVE  IInv'
<1>1. CASE CheckBegins
  <2>1. "check" \in Caller
    BY DEF Caller
  <2> QED
    BY <1>1, <2>1, BeginsStep, NothingFacts DEF CheckBegins, device, history
<1>2. CASE AdminAsks
  <2>1. "check" \in Caller
    BY DEF Caller
  <2> QED
    BY <1>2, <2>1, BeginsStep, NothingFacts DEF AdminAsks, device, IInv, Known
<1>3. ASSUME NEW c \in Command, CommandChecks(c) PROVE IInv'
  <2>1. "monitor" \in Caller
    BY DEF Caller
  <2> QED
    BY <1>3, <2>1, BeginsStep, NothingFacts DEF CommandChecks, device
<1>4. ASSUME NEW c \in Command, CommandDownloads(c) PROVE IInv'
  <2>1. "monitor" \in Caller
    BY DEF Caller
  <2>2. CASE available = Nothing
    BY <1>4, <2>2, SuitingKept DEF CommandDownloads, device, IInv, Known, Selected
  <2>3. CASE available # Nothing
    BY <1>4, <2>1, <2>3, BeginsStep DEF CommandDownloads, device, IInv, Known
  <2> QED
    BY <2>2, <2>3
<1> QED
  BY <1>1, <1>2, <1>3, <1>4

\* The channel's list, or a failure.
LEMMA FetchStep ==
  ASSUME IInv, NEW c \in Caller, Fetched(c)
  PROVE  IInv'
<1> DEFINE p == BeginPlan(offer)
<1>1. plan' = p /\ available' = NextRelease(p)
  BY DEF Fetched
<1>2. offer \in [Type -> Numbers]
  BY ReleaseFacts DEF IInv, Known
<1>3. p.want \in [Type -> Numbers] /\ p.active \in Type \cup {None}
  BY <1>2, BeginFacts
<1>4. NextRelease(p).type \in Type \cup {None} /\ NextRelease(p).number \in Numbers
  BY <1>3, NextFacts
<1>5. Enter(c, "open", NextRelease(p)) \/ Leave(c)
  BY DEF Fetched
<1> HIDE DEF p
<1>6. Carried(job) /\ DOMAIN job = Caller
  BY KnownCarries DEF IInv, Known
<1>7. Carried(job')
  BY <1>4, <1>5, <1>6, EnterCarries, LeaveCarries
<1>8. \A d \in Caller : job'[d].at = "stage" => job'[d] = job[d]
  BY <1>5, <1>6, EnterFacts, LeaveFacts
<1>9. UNCHANGED <<staged, armed, installed, previous, offer, asked>>
  BY DEF Fetched, device, history
<1>10. Suiting'
  BY <1>8, <1>9, SuitingKept DEF IInv
<1>11. Known'
  BY <1>1, <1>3, <1>4, <1>7, <1>9 DEF IInv, Known, Carried
<1> QED
  BY <1>9, <1>10, <1>11 DEF IInv, Selected

LEMMA FailsStep ==
  ASSUME IInv, NEW c \in Caller, JobFails(c)
  PROVE  IInv'
<1>1. Carried(job) /\ DOMAIN job = Caller /\ Leave(c)
  BY KnownCarries DEF IInv, Known, JobFails
<1>2. Carried(job')
  BY <1>1, LeaveCarries
<1>3. \A d \in Caller : job'[d].at = "stage" => job'[d] = job[d]
  BY <1>1, LeaveFacts
<1>4. UNCHANGED <<available, armed, installed, previous, offer, asked>>
  BY DEF JobFails, history
<1>5. plan'.want = plan.want /\ plan'.active = plan.active
  BY DEF JobFails
<1>6. /\ staged' \in [Type -> Numbers]
      /\ \A t \in Type : staged'[t] \in {staged[t], 0}
  BY ReleaseFacts DEF JobFails, IInv, Known
<1>7. Suiting'
  BY <1>3, <1>4, <1>6, SuitingKept DEF IInv
<1>8. Known'
  BY <1>2, <1>4, <1>5, <1>6 DEF IInv, Known, Carried
<1> QED
  BY <1>4, <1>7, <1>8 DEF IInv, Selected

\* mark_staged() and mark_activating() leave the releases of a plan alone.
LEMMA MarkFacts ==
  ASSUME NEW t, NEW status, Mark(t, status)
  PROVE  plan'.want = plan.want /\ plan'.active = plan.active
<1>1. CASE plan.active = t
  <2>1. plan' = [plan EXCEPT !.status = status]
    BY <1>1 DEF Mark
  <2> QED
    BY <2>1
<1>2. CASE plan.active # t
  BY <1>2 DEF Mark
<1> QED
  BY <1>1, <1>2

\* An installer takes the lock for a release that fits the core that runs.
LEMMA OpenStep ==
  ASSUME IInv, NEW c \in Caller, Opened(c)
  PROVE  IInv'
<1> DEFINE r == job[c].release
<1>1. Carried(job) /\ DOMAIN job = Caller /\ Enter(c, "stage", r)
  BY KnownCarries DEF IInv, Known, Opened
<1>2. r.type \in Type \cup {None} /\ r.number \in Numbers
  BY <1>1 DEF Carried
<1>3. Carried(job')
  BY <1>1, <1>2, EnterCarries
<1>4. UNCHANGED <<available, plan, installed, previous, offer, asked>>
  BY DEF Opened, history
<1>5. /\ staged' \in [Type -> Numbers]
      /\ \A t \in Type : staged'[t] \in {staged[t], 0}
  BY ReleaseFacts DEF Opened, IInv, Known
<1>6. armed' \in BOOLEAN /\ (armed' => armed)
  BY DEF Opened, IInv, Known
<1>7. r.type = "application" => Suits(installed["firmware"], r.number)
  BY TypeFacts DEF Opened, Compatible, Suits
<1>8. /\ job'[c].at = "stage" /\ job'[c].release = r
      /\ \A d \in Caller : d # c => job'[d] = job[d]
  BY <1>1, EnterFacts
<1> HIDE DEF r
<1>9. Suiting'
  BY <1>4, <1>5, <1>7, <1>8, TypeFacts DEF IInv, Suiting, Suits
<1>10. Known'
  BY <1>3, <1>4, <1>5, <1>6 DEF IInv, Known, Carried
<1> QED
  BY <1>4, <1>6, <1>9, <1>10 DEF IInv, Selected

\* What has been written waits: an application that suits, or a core that is newer.
LEMMA DownloadStep ==
  ASSUME IInv, NEW c \in Caller, Downloaded(c)
  PROVE  IInv'
<1> DEFINE r == job[c].release
<1>1. Carried(job) /\ DOMAIN job = Caller
  BY KnownCarries DEF IInv, Known
<1>2. r.type \in Type \cup {None} /\ r.number \in Numbers
  BY <1>1 DEF Carried
<1>3. PICK open \in BOOLEAN :
        /\ Newer(installed, r.type, r.number)
        /\ staged' = [staged EXCEPT ![r.type] = r.number]
        /\ available' = Nothing
        /\ IF Activates(open)
           THEN /\ armed' = (armed \/ r.type = "firmware")
                /\ asked' = (asked \/ ActivationAllowed(open))
                /\ Mark(r.type, "activating")
                /\ Enter(c, "reset", r)
           ELSE /\ Mark(r.type, "staged") /\ Leave(c) /\ UNCHANGED <<armed, asked>>
  BY DEF Downloaded
<1>4. job[c].at = "stage"
  BY DEF Downloaded
<1>5. r.type = "application" => Suits(installed["firmware"], r.number)
  BY <1>4 DEF IInv, Suiting
<1>6. UNCHANGED <<installed, previous, offer>>
  BY DEF Downloaded
<1> HIDE DEF r
<1>7. Enter(c, "reset", r) \/ Leave(c)
  BY <1>3
<1>8. Carried(job')
  BY <1>1, <1>2, <1>7, EnterCarries, LeaveCarries
<1>9. \A d \in Caller : job'[d].at = "stage" => job'[d] = job[d]
  BY <1>1, <1>7, EnterFacts, LeaveFacts
<1>10. /\ staged' \in [Type -> Numbers]
       /\ \A t \in Type : staged'[t] = IF t = r.type THEN r.number ELSE staged[t]
  BY <1>2, <1>3 DEF IInv, Known
<1>11. r.type = "firmware" => r.number > installed["firmware"]
  BY <1>3 DEF Newer
<1>12. plan'.want = plan.want /\ plan'.active = plan.active
  BY <1>3, MarkFacts
<1>13. armed' \in BOOLEAN /\ asked' \in BOOLEAN
  BY <1>3 DEF IInv, Known, Activates, ActivationAllowed
<1>14. armed' => asked'
  BY <1>3 DEF IInv, Selected, Activates
<1>15. Suiting'
  BY <1>5, <1>6, <1>9, <1>10, <1>11, TypeFacts DEF IInv, Suiting, Suits
<1>16. Known'
  BY <1>3, <1>6, <1>8, <1>10, <1>12, <1>13, NothingFacts DEF IInv, Known, Carried
<1> QED
  BY <1>14, <1>15, <1>16 DEF IInv, Selected

\* An administrator or a command activates what waits, or gives it up.
LEMMA ActivateStep ==
  ASSUME IInv, \/ \E t \in Type : AdminActivates(t) \/ AdminDiscards(t)
               \/ \E c \in Command : CommandActivates(c)
  PROVE  IInv'
<1>1. UNCHANGED <<job, available, installed, previous, offer>>
  BY DEF AdminActivates, AdminDiscards, CommandActivates
<1>2. /\ staged' \in [Type -> Numbers]
      /\ \A t \in Type : staged'[t] \in {staged[t], 0}
  BY ReleaseFacts DEF AdminActivates, AdminDiscards, CommandActivates, IInv, Known
<1>3. plan'.want = plan.want /\ plan'.active = plan.active
  BY MarkFacts DEF AdminActivates, AdminDiscards, CommandActivates, Activate
<1>4. UNCHANGED <<armed, asked>> \/ (asked' = TRUE /\ \E t : armed' = (armed \/ t = "firmware"))
  <2>1. ASSUME NEW t \in Type, AdminActivates(t) PROVE <1>4!2
    BY <2>1 DEF AdminActivates, Activate
  <2>2. ASSUME NEW t \in Type, AdminDiscards(t) PROVE <1>4!1
    BY <2>2 DEF AdminDiscards
  <2>3. ASSUME NEW c \in Command, CommandActivates(c) PROVE <1>4!1 \/ <1>4!2
    BY <2>3 DEF CommandActivates, Activate
  <2> QED
    BY <2>1, <2>2, <2>3
<1>5. armed' \in BOOLEAN /\ asked' \in BOOLEAN /\ (armed' => asked')
  <2>1. armed \in BOOLEAN /\ asked \in BOOLEAN /\ (armed => asked)
    BY DEF IInv, Known, Selected
  <2>2. CASE UNCHANGED <<armed, asked>>
    BY <2>1, <2>2
  <2>3. CASE asked' = TRUE /\ \E t : armed' = (armed \/ t = "firmware")
    BY <2>1, <2>3
  <2> QED
    BY <1>4, <2>2, <2>3
<1>6. Suiting'
  BY <1>1, <1>2, SuitingKept DEF IInv
<1>7. Known'
  BY <1>1, <1>2, <1>3, <1>5 DEF IInv, Known
<1> QED
  BY <1>5, <1>6, <1>7 DEF IInv, Selected

\* The two applications change places, and both suit.
LEMMA RollBackStep ==
  ASSUME IInv, NEW c \in Command, CommandRollsBack(c)
  PROVE  IInv'
<1>1. UNCHANGED <<job, available, plan, staged, armed, offer, asked>>
  BY DEF CommandRollsBack
<1>2. CASE UNCHANGED <<installed, previous>>
  BY <1>1, <1>2, SuitingKept DEF IInv, Known, Selected
<1>3. CASE /\ previous # 0
           /\ installed' = [installed EXCEPT !["application"] = previous]
           /\ previous' = installed["application"]
  <2>1. previous \in Release /\ installed["application"] \in Release
    BY <1>3, ReleaseFacts, TypeFacts DEF IInv, Known
  <2>2. /\ installed' \in [Type -> Release] /\ previous' \in Numbers
        /\ installed'["firmware"] = installed["firmware"]
        /\ installed'["application"] = previous
    BY <1>3, <2>1, ReleaseFacts, TypeFacts DEF IInv, Known
  <2>3. Suiting'
    BY <1>1, <1>3, <2>2 DEF IInv, Suiting, Suits
  <2> QED
    BY <1>1, <2>2, <2>3 DEF IInv, Known, Selected
<1> QED
  BY <1>2, <1>3 DEF CommandRollsBack

-----------------------------------------------------------------------------
(* Restarts.                                                               *)

LEMMA DownStep ==
  ASSUME IInv, Restarts \/ PowerLoss \/ TearService
  PROVE  IInv'
<1>1. GoesDown /\ UNCHANGED <<plan, device, offer, asked>>
  BY DEF Restarts, PowerLoss, TearService
<1>2. /\ job' = [c \in Caller |-> Idle] /\ available' = Nothing
      /\ UNCHANGED <<plan, staged, armed, installed, previous, offer, asked>>
  BY <1>1 DEF GoesDown, device
<1>3. Idle.at = "off" /\ Idle.release = Nothing
  BY DEF Idle
<1>4. \A c \in Caller : job'[c].at = "stage" => job'[c] = job[c]
  BY <1>2, <1>3
<1>5. \A t \in Type : staged'[t] \in {staged[t], 0}
  BY <1>2
<1>6. Suiting'
  BY <1>2, <1>4, <1>5, SuitingKept DEF IInv
<1>7. Known'
  BY <1>2, <1>3, NothingFacts DEF IInv, Known
<1> QED
  BY <1>2, <1>6, <1>7 DEF IInv, Selected

\* A trial boot never takes an older core, so what suited goes on suiting.
LEMMA BootStep ==
  ASSUME IInv, NEW app \in Release, NEW core \in Release, Boots(app, core)
  PROVE  IInv' /\ (installed'["firmware"] # installed["firmware"] => asked)
<1>1. /\ installed' = [t \in Type |-> IF t = "firmware" THEN core ELSE app]
      /\ installed' \in [Type -> Release]
      /\ installed'["firmware"] = core /\ installed'["application"] = app
  BY TypeFacts DEF Boots
<1>2. \/ core = installed["firmware"]
      \/ armed /\ staged["firmware"] # 0 /\ core = staged["firmware"]
  BY DEF Boots, Trials
<1>3. app \in {installed["application"], staged["application"]}
  BY TypeFacts DEF Boots, Trials
<1>4. core >= installed["firmware"]
  BY <1>2, ReleaseFacts, TypeFacts DEF IInv, Known, Suiting, Release
<1>5. ASSUME NEW n \in Numbers, Suits(installed["firmware"], n) PROVE Suits(core, n)
  <2>1. CASE n = 0
    BY <2>1 DEF Suits
  <2>2. CASE n # 0
    <3>1. Needs[n] \in Nat /\ core \in Nat /\ installed["firmware"] \in Nat
      BY <2>2, ReleaseFacts, TypeFacts DEF IInv, Known
    <3>2. installed["firmware"] >= Needs[n]
      BY <1>5, <2>2 DEF Suits
    <3> QED
      BY <1>1, <1>4, <3>1, <3>2 DEF Suits
  <2> QED
    BY <2>1, <2>2
<1>6. previous' \in {installed["application"], 0, previous} /\ previous' \in Numbers
  BY ReleaseFacts, TypeFacts DEF Boots, IInv, Known
<1>7. /\ staged' = [t \in Type |-> IF t = "firmware" /\ ~armed THEN staged[t] ELSE 0]
      /\ armed' = FALSE /\ asked' = FALSE /\ UNCHANGED offer
      /\ plan' = Refresh(installed', plan) /\ available' = NextRelease(plan')
  BY DEF Boots
<1>8. /\ staged' \in [Type -> Numbers] /\ staged'["application"] = 0
      /\ staged'["firmware"] # 0 => ~armed /\ staged'["firmware"] = staged["firmware"]
  BY <1>7, ReleaseFacts, TypeFacts DEF IInv, Known
<1>9. plan'.want \in [Type -> Numbers] /\ plan'.active \in Type \cup {None}
  <2>1. plan'.want \in {plan.want, NoPlan.want}
        /\ plan'.active \in {SelectRelease(installed', plan.want), NoPlan.active}
    BY <1>7 DEF Refresh
  <2> QED
    BY <2>1, SelectFacts, NoPlanFacts DEF IInv, Known
<1>10. available'.type \in Type \cup {None} /\ available'.number \in Numbers
  BY <1>7, <1>9, NextFacts
<1>11. Carried(job) /\ DOMAIN job = Caller /\ "boot" \in Caller
  BY KnownCarries DEF IInv, Known, Caller
<1>12. Enter("boot", "open", available') \/ UNCHANGED job
  BY DEF Boots
<1>13. Carried(job')
  BY <1>10, <1>11, <1>12, EnterCarries
<1>14. \A d \in Caller : job'[d].at = "stage" => job'[d] = job[d]
  BY <1>11, <1>12, EnterFacts
<1>15. Known'
  BY <1>1, <1>6, <1>7, <1>8, <1>9, <1>10, <1>13 DEF IInv, Known, Carried
<1>16. Suits(core, installed["application"]) /\ Suits(core, app) /\ Suits(core, previous')
  <2>1. /\ Suits(installed["firmware"], installed["application"])
        /\ Suits(installed["firmware"], staged["application"])
        /\ Suits(installed["firmware"], previous) /\ previous \in Numbers
        /\ installed["application"] \in Numbers /\ staged["application"] \in Numbers
    BY ReleaseFacts, TypeFacts DEF IInv, Known, Suiting
  <2> QED
    BY <1>3, <1>5, <1>6, <2>1, ReleaseFacts DEF Suits
<1>17. ASSUME NEW c \in Caller, job'[c].at = "stage", job'[c].release.type = "application"
       PROVE  Suits(core, job'[c].release.number)
  <2>1. Suits(installed["firmware"], job[c].release.number) /\ job[c].release.number \in Numbers
    BY <1>11, <1>14, <1>17 DEF IInv, Suiting, Carried
  <2> QED
    BY <1>5, <1>14, <1>17, <2>1
<1>18. Suiting'
  BY <1>1, <1>2, <1>8, <1>16, <1>17 DEF IInv, Suiting, Suits
<1>19. core # installed["firmware"] => asked
  BY <1>2 DEF IInv, Selected
<1> QED
  BY <1>1, <1>7, <1>15, <1>18, <1>19 DEF IInv, Selected

-----------------------------------------------------------------------------
(* The theorems.                                                           *)

LEMMA NextHolds ==
  ASSUME IInv, [Next]_vars
  PROVE  IInv' /\ (installed'["firmware"] # installed["firmware"] => asked)
<1>1. ASSUME NEW app \in Release, NEW core \in Release, Boots(app, core)
      PROVE  IInv' /\ (installed'["firmware"] # installed["firmware"] => asked)
  BY <1>1, BootStep
<1>2. ASSUME NEW c \in Caller, Fetched(c) \/ Opened(c) \/ JobFails(c) \/ Downloaded(c)
      PROVE  IInv' /\ installed' = installed
  BY <1>2, FetchStep, OpenStep, FailsStep, DownloadStep
     DEF Fetched, Opened, JobFails, Downloaded, device
<1>3. ASSUME NEW c \in Command, CommandRollsBack(c)
      PROVE  IInv' /\ installed'["firmware"] = installed["firmware"]
  <2>1. installed'["firmware"] = installed["firmware"]
    BY <1>3, TypeFacts DEF CommandRollsBack, IInv, Known
  <2> QED
    BY <1>3, <2>1, RollBackStep
<1>4. ASSUME \/ CheckBegins \/ AdminAsks
             \/ \E c \in Command : CommandChecks(c) \/ CommandDownloads(c)
      PROVE  IInv' /\ installed' = installed
  <2>1. installed' = installed
    BY <1>4 DEF CheckBegins, AdminAsks, CommandChecks, CommandDownloads, device
  <2> QED
    BY <1>4, <2>1, ChecksStep
<1>5. ASSUME \/ \E t \in Type : AdminActivates(t) \/ AdminDiscards(t)
             \/ \E c \in Command : CommandActivates(c)
      PROVE  IInv' /\ installed' = installed
  <2>1. installed' = installed
    BY <1>5 DEF AdminActivates, AdminDiscards, CommandActivates
  <2> QED
    BY <1>5, <2>1, ActivateStep
<1>6. ASSUME Restarts \/ PowerLoss \/ TearService
      PROVE  IInv' /\ installed' = installed
  <2>1. installed' = installed
    BY <1>6 DEF Restarts, PowerLoss, TearService, device
  <2> QED
    BY <1>6, <2>1, DownStep
<1>7. ASSUME \/ \E p \in DOMAIN Policies : ApplyPolicy(p)
             \/ \E c \in Command, good \in BOOLEAN : ManagerRecords(c, good)
             \/ \E t \in Type : Published(t)
             \/ RoundBegins \/ RoundEnds \/ CommandRecorded
      PROVE  IInv' /\ installed' = installed
  <2>1. installed' = installed
    BY <1>7 DEF ApplyPolicy, ManagerRecords, Published, RoundBegins, RoundEnds,
                CommandRecorded, device
  <2> QED
    BY <1>7, <2>1, ServiceStep
<1>8. CASE UNCHANGED vars
  BY <1>8 DEF vars, IInv, Known, Suiting, Selected
<1> QED
  BY <1>1, <1>2, <1>3, <1>4, <1>5, <1>6, <1>7, <1>8 DEF Next, MonitorMoves

LEMMA InvariantHolds == Spec => []IInv
<1> QED
  BY InitHolds, NextHolds, PTL DEF Spec

\* The application that runs has the core it needs (update_orchestrator.py, release_update.py):
\* whatever was published, downloaded, activated, given up and rolled back, in what order, and
\* whichever trials failed.  Compatibility is checked when a release is opened, and nothing
\* after that can take the core away.
THEOREM ApplicationHasItsCoreHolds == Spec => []ApplicationHasItsCore
<1>1. IInv => ApplicationHasItsCore
  <2> SUFFICES ASSUME IInv PROVE ApplicationHasItsCore
    OBVIOUS
  <2>1. installed["application"] \in Release /\ installed["firmware"] \in Nat
    BY TypeFacts, ReleaseFacts DEF IInv, Known
  <2>2. Needs[installed["application"]] \in Nat /\ installed["application"] # 0
    BY <2>1, ReleaseFacts
  <2> QED
    BY <2>1, <2>2 DEF IInv, Suiting, Suits, ApplicationHasItsCore
<1> QED
  BY <1>1, InvariantHolds, PTL

\* A core is replaced only where somebody asked for it, or the fleet's policy allowed it, since
\* the last boot (iotmd_runtime.py): a download alone never leads to another core.
THEOREM CoreOnlyAskedHolds == Spec => CoreOnlyAsked
<1>1. IInv /\ [Next]_vars => [installed'["firmware"] # installed["firmware"] => asked]_vars
  BY NextHolds
<1> QED
  BY <1>1, InvariantHolds, PTL DEF Spec, CoreOnlyAsked

-----------------------------------------------------------------------------
(* Commands are carried out once.                                          *)

\* The monitor is at command c, and its result is not recorded yet.
Trying(c) == monitor.step \in {"wait", "record"} /\ monitor.command = c

\* The monitor is a task of the application: there is none while the device is down.
Listed ==
  /\ policy \in 0 .. Len(Policies)
  /\ completed \in Seq(Command)
  /\ monitor \in Monitor
  /\ ~up => monitor.step = "off"

\* What was carried out is of the policy in force; its result is stored, or it is the command
\* the monitor is at; and nothing of that is due on the list of the round.
CarriedOut ==
  Promised => /\ ran \subseteq ToSet(InForce)
              /\ \A c \in ran : c \in ToSet(completed) \/ Trying(c)
              /\ ran \cap monitor.todo = {}

OnceInv == Listed /\ CarriedOut

\* A policy's commands are commands.
LEMMA PolicyFacts ==
  ASSUME NEW p \in DOMAIN Policies
  PROVE  Policies[p].commands \in Seq(Command) /\ ToSet(Policies[p].commands) \subseteq Command
<1> DEFINE Policy == [commands : Seq(Command), auto : BOOLEAN, maximum : Nat \ {0}]
<1>1. Policies \in Seq(Policy)
  BY PolicyAssumption
<1>2. \A x \in Policy : x.commands \in Seq(Command)
  OBVIOUS
<1> HIDE DEF Policy
<1>3. Policies[p] \in Policy
  BY <1>1
<1>4. Policies[p].commands \in Seq(Command)
  BY <1>2, <1>3
<1> QED
  BY <1>4 DEF ToSet

LEMMA InForceFacts ==
  ASSUME policy \in 0 .. Len(Policies)
  PROVE  ToSet(InForce) \subseteq Command
<1>1. CASE policy = 0
  BY <1>1 DEF InForce, ToSet
<1>2. CASE policy # 0
  <2>1. policy \in DOMAIN Policies /\ InForce = Policies[policy].commands
    BY <1>2, PolicyAssumption DEF InForce
  <2> QED
    BY <2>1, PolicyFacts
<1> QED
  BY <1>1, <1>2

\* The latest entries of a list that a command has just been added to: it is among them.
LEMMA KeepFacts ==
  ASSUME NEW s \in Seq(Command), NEW c \in Command
  PROVE  /\ KeepLatest(Append(s, c)) \in Seq(Command)
         /\ c \in ToSet(KeepLatest(Append(s, c)))
<1> DEFINE t == Append(s, c)
           from == IF Len(t) > CompletedLimit THEN Len(t) - CompletedLimit + 1 ELSE 1
           kept == SubSeq(t, from, Len(t))
<1>1. t \in Seq(Command) /\ Len(t) = Len(s) + 1 /\ t[Len(t)] = c /\ Len(s) \in Nat
  OBVIOUS
<1>2. CompletedLimit \in Nat \ {0}
  BY BoundAssumption
<1>3. from \in 1 .. Len(t)
  BY <1>1, <1>2
<1>4. KeepLatest(t) = kept
  BY DEF KeepLatest
<1> HIDE DEF t, from
<1>5. /\ kept \in Seq(Command) /\ Len(kept) = Len(t) - from + 1
      /\ \A i \in 1 .. Len(t) - from + 1 : kept[i] = t[from + i - 1]
  BY <1>1, <1>3
<1>6. kept[Len(t) - from + 1] = c /\ Len(t) - from + 1 \in DOMAIN kept
  BY <1>1, <1>3, <1>5
<1>7. c \in ToSet(kept)
  BY <1>6 DEF ToSet
<1> HIDE DEF kept
<1>8. KeepLatest(Append(s, c)) = kept
  BY <1>4 DEF t
<1> QED
  BY <1>5, <1>7, <1>8

\* complete_command() keeps what is in force and was completed, unless it says it forgets it.
LEMMA CompleteFacts ==
  ASSUME Listed, NEW c \in Command, NEW good, CompleteCommand(c, good)
  PROVE  /\ completed' \in Seq(Command) /\ policy' = policy /\ InForce' = InForce
         /\ c \in ToSet(completed')
         /\ "forgotten" \notin Forgotten
              => ToSet(completed) \cap ToSet(InForce) \subseteq ToSet(completed')
  BY KeepFacts DEF CompleteCommand, Listed, Forgotten, InForce

LEMMA PromisedBefore ==
  ASSUME exposed \subseteq exposed', Promised'
  PROVE  Promised
BY DEF Promised

\* Steps that neither carry out nor record a command, and end none that is being tried.
LEMMA QuietKeeps ==
  ASSUME OnceInv, UNCHANGED <<policy, completed, ran, exposed>>,
         monitor' \in Monitor, monitor'.todo \subseteq monitor.todo,
         \A c \in Command : Trying(c) => Trying(c)',
         ran \subseteq Command, ~up' => monitor'.step = "off"
  PROVE  OnceInv'
<1>1. Listed'
  BY DEF OnceInv, Listed
<1>2. InForce' = InForce /\ Promised' = Promised
  BY DEF InForce, Promised
<1>3. CarriedOut'
  BY <1>2 DEF OnceInv, CarriedOut
<1> QED
  BY <1>1, <1>3 DEF OnceInv

-----------------------------------------------------------------------------
(* The steps.                                                              *)

LEMMA InitOnce == Init => OnceInv
<1> SUFFICES ASSUME Init PROVE OnceInv
  OBVIOUS
<1>1. /\ policy = 0 /\ completed = <<>> /\ ran = {} /\ up = TRUE
      /\ monitor = [Resting EXCEPT !.step = "sleep"]
  BY DEF Init
<1>2. Resting \in Monitor /\ "sleep" \in Steps
  BY PolicyAssumption DEF Resting, Monitor, Steps
<1>3. monitor \in Monitor
  BY <1>1, <1>2 DEF Monitor
<1>4. 0 \in 0 .. Len(Policies)
  BY PolicyAssumption
<1>5. Listed
  BY <1>1, <1>3, <1>4 DEF Listed
<1> QED
  BY <1>1, <1>5 DEF OnceInv, CarriedOut

\* What is counted as carried out is a command, while the promise stands.
LEMMA RanFacts ==
  ASSUME OnceInv, Promised
  PROVE  ran \subseteq Command
BY InForceFacts DEF OnceInv, Listed, CarriedOut

LEMMA RestingFacts ==
  /\ Resting \in Monitor /\ Resting.step = "off" /\ Resting.todo = {}
  /\ \A step \in Steps : /\ [Resting EXCEPT !.step = step] \in Monitor
                         /\ [Resting EXCEPT !.step = step].step = step
                         /\ [Resting EXCEPT !.step = step].todo = {}
<1>1. Resting \in Monitor
  BY PolicyAssumption DEF Resting, Monitor, Steps
<1> QED
  BY <1>1 DEF Resting, Monitor, Steps

\* The caller has its outcome: the monitor is still at its command.
LEMMA ReturnFacts ==
  ASSUME Listed, NEW c \in Caller, NEW good \in BOOLEAN, Return(c, good)
  PROVE  /\ monitor' \in Monitor /\ monitor'.todo = monitor.todo
         /\ \A d \in Command : Trying(d) => Trying(d)'
         /\ monitor' # monitor => monitor'.step = "record"
<1>1. CASE c # "monitor"
  BY <1>1 DEF Return, Listed, Trying
<1>2. CASE c = "monitor"
  <2>1. monitor' = [monitor EXCEPT !.step = "record", !.good = good] /\ monitor \in Monitor
    BY <1>2 DEF Return, Listed
  <2>2. /\ monitor' \in Monitor /\ monitor'.todo = monitor.todo
        /\ monitor'.command = monitor.command /\ monitor'.step = "record"
    BY <2>1 DEF Monitor, Steps
  <2> QED
    BY <2>2 DEF Trying
<1> QED
  BY <1>1, <1>2

\* The checks and downloads, the administrator, the channel and the boots.
LEMMA QuietStep ==
  ASSUME OnceInv,
         \/ CheckBegins \/ AdminAsks \/ RoundEnds
         \/ \E c \in Caller : Fetched(c) \/ Opened(c) \/ JobFails(c) \/ Downloaded(c)
         \/ \E t \in Type : AdminActivates(t) \/ AdminDiscards(t)
         \/ \E app, core \in Release : Boots(app, core)
         \/ \E t \in Type : Published(t)
         \/ UNCHANGED vars
  PROVE  OnceInv'
<1>1. UNCHANGED <<policy, completed, ran, exposed>>
  BY DEF CheckBegins, AdminAsks, RoundEnds, Fetched, Opened, JobFails, Downloaded,
         AdminActivates, AdminDiscards, Boots, Published, vars, service, history
<1>2. Listed
  BY DEF OnceInv
<1>3. /\ monitor' \in Monitor /\ monitor'.todo \subseteq monitor.todo
      /\ \A c \in Command : Trying(c) => Trying(c)'
      /\ ~up' => monitor'.step = "off"
  <2>1. CASE RoundEnds
    <3>1. monitor' = [Resting EXCEPT !.step = "sleep"] /\ monitor.step = "round" /\ up' = up /\ up
      BY <2>1 DEF RoundEnds
    <3>2. "sleep" \in Steps
      BY DEF Steps
    <3> QED
      BY <3>1, <3>2, RestingFacts DEF Trying
  <2>2. CASE \E app, core \in Release : Boots(app, core)
    <3>1. monitor' = [Resting EXCEPT !.step = "sleep"] /\ ~up /\ up' = TRUE
      BY <2>2 DEF Boots
    <3>2. "sleep" \in Steps
      BY DEF Steps
    <3>3. monitor.step = "off"
      BY <1>2, <3>1 DEF Listed
    <3> QED
      BY <3>1, <3>2, <3>3, RestingFacts DEF Trying
  <2>3. ASSUME NEW c \in Caller, Fetched(c) \/ JobFails(c) \/ Downloaded(c)
        PROVE  <1>3!:
    <3>1. up /\ up' = up
      BY <2>3 DEF Fetched, JobFails, Downloaded, Free
    <3>2. UNCHANGED monitor \/ \E good \in BOOLEAN : Return(c, good)
      BY <2>3 DEF Fetched, JobFails, Downloaded
    <3> QED
      BY <1>2, <3>1, <3>2, ReturnFacts DEF Listed, Trying
  <2>4. CASE UNCHANGED <<monitor, up>>
    BY <1>2, <2>4 DEF Listed, Trying
  <2> QED
    BY <2>1, <2>2, <2>3, <2>4
       DEF CheckBegins, AdminAsks, Opened, AdminActivates, AdminDiscards, Published, vars
<1>4. CASE Promised
  BY <1>1, <1>3, <1>4, QuietKeeps, RanFacts
<1>5. CASE ~Promised
  <2>1. ~Promised'
    BY <1>1, <1>5 DEF Promised
  <2> QED
    BY <1>1, <1>2, <1>3, <2>1 DEF OnceInv, Listed, CarriedOut
<1> QED
  BY <1>4, <1>5

\* A round lists what is pending: nothing that was carried out.
LEMMA BeginsRound ==
  ASSUME OnceInv, RoundBegins
  PROVE  OnceInv'
<1>1. /\ monitor' = [monitor EXCEPT !.step = "round", !.list = policy, !.todo = Pending]
      /\ monitor.step = "sleep" /\ up /\ up' = up
      /\ UNCHANGED <<policy, completed, ran, exposed>>
  BY DEF RoundBegins, service, history
<1>2. /\ monitor \in Monitor /\ policy \in 0 .. Len(Policies) /\ Pending \subseteq Command
  BY InForceFacts DEF OnceInv, Listed, Pending
<1>3. monitor' \in Monitor /\ monitor'.todo = Pending /\ monitor'.step = "round"
  BY <1>1, <1>2 DEF Monitor, Steps
<1>4. Listed'
  BY <1>1, <1>3 DEF OnceInv, Listed
<1>5. ASSUME Promised' PROVE CarriedOut'
  <2>1. Promised /\ InForce' = InForce
    BY <1>1, <1>5 DEF Promised, InForce
  <2>2. \A c \in ran : c \in ToSet(completed)
    BY <1>1, <2>1 DEF OnceInv, CarriedOut, Trying
  <2> QED
    BY <1>1, <1>3, <2>1, <2>2 DEF OnceInv, CarriedOut, Pending
<1> QED
  BY <1>4, <1>5 DEF OnceInv, CarriedOut

\* A command is carried out: it was due, and is due no more.
LEMMA CarriesStep ==
  ASSUME OnceInv, NEW c \in Command, Carries(c)
  PROVE  OnceInv' /\ (Promised => c \notin ran)
<1>1. /\ up /\ up' = up /\ monitor.step = "round" /\ c \in monitor.todo
      /\ ran' = ran \cup ({c} \cap ToSet(InForce))
      /\ UNCHANGED <<policy, completed, exposed>>
  BY DEF Carries, CommandChecks, CommandDownloads, CommandActivates, CommandRollsBack, Acts,
         Turn, service
<1>2. PICK step \in {"record", "wait"}, good \in BOOLEAN : Takes(c, step, good)
  BY DEF Carries, CommandChecks, CommandDownloads, CommandActivates, CommandRollsBack,
         Tried, Awaits, OnceInv, Listed, Monitor
<1>3. /\ monitor' \in Monitor /\ monitor'.todo = monitor.todo \ {c} /\ monitor'.step = step
      /\ monitor'.command = c
  <2>1. monitor \in Monitor
    BY DEF OnceInv, Listed
  <2> QED
    BY <1>2, <2>1 DEF Takes, Monitor, Steps
<1>4. Listed'
  BY <1>1, <1>3 DEF OnceInv, Listed
<1>5. ASSUME Promised PROVE c \notin ran /\ CarriedOut'
  <2>1. InForce' = InForce
    BY <1>1 DEF InForce
  <2>2. /\ ran \subseteq ToSet(InForce) /\ ran \cap monitor.todo = {}
        /\ \A d \in ran : d \in ToSet(completed)
    BY <1>1, <1>5 DEF OnceInv, CarriedOut, Trying
  <2>3. Trying(c)'
    BY <1>2, <1>3 DEF Trying
  <2> QED
    BY <1>1, <1>3, <2>1, <2>2, <2>3 DEF CarriedOut
<1>6. Promised' => Promised
  BY <1>1 DEF Promised
<1> QED
  BY <1>4, <1>5, <1>6 DEF OnceInv, CarriedOut

\* The result is stored; or the command is not pending, and the task ends.
LEMMA RecordStep ==
  ASSUME {"torn", "forgotten"} \subseteq Excused, OnceInv, CommandRecorded
  PROVE  OnceInv'
<1> DEFINE c == monitor.command
<1>1. up /\ up' = up /\ monitor.step = "record" /\ ran' = ran /\ Records
  BY DEF CommandRecorded
<1>2. monitor \in Monitor /\ Listed /\ Pending \subseteq Command
  BY InForceFacts DEF OnceInv, Listed, Pending
<1>3. CASE c \in Pending
  <2>1. /\ CompleteCommand(c, monitor.good) /\ exposed' = exposed \cup Forgotten
        /\ monitor' = [monitor EXCEPT !.step = "round", !.command = None]
    BY <1>1, <1>3 DEF Records
  <2>2. monitor' \in Monitor /\ monitor'.todo = monitor.todo /\ monitor'.step = "round"
    BY <1>2, <2>1 DEF Monitor, Steps
  <2>3. c \in Command
    BY <1>2, <1>3
  <2>4. /\ completed' \in Seq(Command) /\ policy' = policy /\ InForce' = InForce
        /\ c \in ToSet(completed')
        /\ "forgotten" \notin Forgotten
              => ToSet(completed) \cap ToSet(InForce) \subseteq ToSet(completed')
    BY <1>2, <2>1, <2>3, CompleteFacts
  <2>5. Listed'
    BY <1>1, <1>2, <2>2, <2>4 DEF Listed
  <2>6. ASSUME Promised' PROVE CarriedOut'
    <3>1. Promised /\ "forgotten" \notin Forgotten
      BY <2>1, <2>6 DEF Promised
    <3>2. \A d \in ran : d \in ToSet(completed')
      BY <2>4, <3>1 DEF OnceInv, CarriedOut, Trying
    <3> QED
      BY <1>1, <2>2, <2>4, <3>1, <3>2 DEF OnceInv, CarriedOut
  <2> QED
    BY <2>5, <2>6 DEF OnceInv, CarriedOut
<1>4. CASE c \notin Pending
  <2>1. monitor' = [Resting EXCEPT !.step = "dead"] /\ UNCHANGED <<service, exposed>>
    BY <1>1, <1>4 DEF Records
  <2>2. monitor' \in Monitor /\ monitor'.todo = {} /\ monitor'.step = "dead"
    BY <2>1, RestingFacts DEF Steps
  <2>3. UNCHANGED <<policy, completed>> /\ InForce' = InForce /\ Promised' = Promised
    BY <2>1 DEF service, InForce, Promised
  <2>4. Listed'
    BY <1>1, <1>2, <2>2, <2>3 DEF Listed
  <2>5. ASSUME Promised PROVE \A d \in ran : d \in ToSet(completed)
    BY <1>4, <2>5 DEF OnceInv, CarriedOut, Trying, Pending
  <2> QED
    BY <1>1, <2>2, <2>3, <2>4, <2>5 DEF OnceInv, CarriedOut
<1> QED
  BY <1>3, <1>4

\* A new policy: what it keeps of what was carried out is still known.
LEMMA PolicyStep ==
  ASSUME OnceInv, NEW p \in DOMAIN Policies, ApplyPolicy(p)
  PROVE  OnceInv'
<1>1. /\ policy' = p /\ ran' = ran \cap ToSet(Policies[p].commands)
      /\ UNCHANGED <<completed, monitor, up>> /\ exposed \subseteq exposed'
  BY DEF ApplyPolicy
<1>2. p \in 0 .. Len(Policies) /\ p # 0
  BY PolicyAssumption
<1>3. InForce' = Policies[p].commands
  BY <1>1, <1>2 DEF InForce
<1>4. Listed'
  BY <1>1, <1>2 DEF OnceInv, Listed
<1>5. ASSUME Promised' PROVE CarriedOut'
  <2>1. Promised
    BY <1>1, <1>5, PromisedBefore
  <2> QED
    BY <1>1, <1>3, <2>1 DEF OnceInv, CarriedOut, Trying
<1> QED
  BY <1>4, <1>5 DEF OnceInv, CarriedOut

\* The manager records a result, perhaps of what the monitor is at.
LEMMA ManagerStep ==
  ASSUME {"torn", "forgotten"} \subseteq Excused, OnceInv,
         NEW c \in Command, NEW good \in BOOLEAN, ManagerRecords(c, good)
  PROVE  OnceInv'
<1>1. /\ CompleteCommand(c, good) /\ UNCHANGED <<monitor, up, ran>>
      /\ exposed \cup Forgotten \subseteq exposed'
  BY DEF ManagerRecords
<1>2. /\ completed' \in Seq(Command) /\ policy' = policy /\ InForce' = InForce
      /\ "forgotten" \notin Forgotten
            => ToSet(completed) \cap ToSet(InForce) \subseteq ToSet(completed')
  BY <1>1, CompleteFacts DEF OnceInv
<1>3. Listed'
  BY <1>1, <1>2 DEF OnceInv, Listed
<1>4. ASSUME Promised' PROVE CarriedOut'
  <2>1. Promised /\ "forgotten" \notin Forgotten
    BY <1>1, <1>4 DEF Promised
  <2> QED
    BY <1>1, <1>2, <2>1 DEF OnceInv, CarriedOut, Trying
<1> QED
  BY <1>3, <1>4 DEF OnceInv, CarriedOut

\* A command that was tried and not recorded is not counted after a restart; what is counted
\* has its result in flash, unless the state was torn.
LEMMA OnceDown ==
  ASSUME {"torn", "forgotten"} \subseteq Excused, OnceInv, Restarts \/ PowerLoss \/ TearService
  PROVE  OnceInv'
<1>1. monitor' = Resting /\ ran' = ran \ {monitor.command} /\ exposed \subseteq exposed'
  BY DEF Restarts, PowerLoss, TearService, GoesDown, history
<1>2. monitor' \in Monitor /\ monitor'.step = "off" /\ monitor'.todo = {}
  BY <1>1, RestingFacts
<1>3. CASE TearService
  <2>1. policy' = 0 /\ completed' = <<>> /\ ~Promised'
    BY <1>3 DEF TearService, Promised
  <2>2. 0 \in 0 .. Len(Policies)
    BY PolicyAssumption
  <2> QED
    BY <1>2, <2>1, <2>2 DEF OnceInv, Listed, CarriedOut
<1>4. CASE Restarts \/ PowerLoss
  <2>1. UNCHANGED <<policy, completed>> /\ InForce' = InForce
    BY <1>4 DEF Restarts, PowerLoss, service, InForce
  <2>2. Listed'
    BY <1>2, <2>1 DEF OnceInv, Listed
  <2>3. ASSUME Promised' PROVE CarriedOut'
    <3>1. Promised
      BY <1>1, <2>3, PromisedBefore
    <3>2. \A c \in ran' : c \in ToSet(completed)
      BY <1>1, <3>1 DEF OnceInv, CarriedOut, Trying
    <3> QED
      BY <1>1, <1>2, <2>1, <3>1, <3>2 DEF OnceInv, CarriedOut
  <2> QED
    BY <2>2, <2>3 DEF OnceInv, CarriedOut
<1> QED
  BY <1>3, <1>4

LEMMA NextOnce ==
  ASSUME {"torn", "forgotten"} \subseteq Excused, OnceInv, [Next]_vars
  PROVE  OnceInv' /\ \A c \in Command : (Promised /\ Carries(c)) => c \notin ran
<1>1. \A c \in Command : Carries(c) => (Promised => c \notin ran)
  BY CarriesStep
<1>2. OnceInv'
  BY QuietStep, BeginsRound, CarriesStep, RecordStep, PolicyStep, ManagerStep, OnceDown
     DEF Next, MonitorMoves, Carries
<1> QED
  BY <1>1, <1>2

\* Whatever the policies, however many and whichever commands they keep, withdraw and bring
\* back, a command in force is carried out once (fleet_management.py, fleet_policy_monitor):
\* rounds, results the manager records, policies that come while a check or a download is
\* awaited, restarts.  The list of completed commands must not have lost one in force, and the
\* state must not have been torn.
THEOREM CommandOnceHolds ==
  ASSUME {"torn", "forgotten"} \subseteq Excused
  PROVE  Spec => CommandOnce
<1>1. Spec => []OnceInv
  BY InitOnce, NextOnce, PTL DEF Spec
<1>2. OnceInv /\ [Next]_vars
        => [\A c \in Command : (Promised /\ Carries(c)) => c \notin ran]_vars
  BY NextOnce
<1> QED
  BY <1>1, <1>2, PTL DEF Spec, CommandOnce

\* What is carried out was asked for, and once.
THEOREM AsAskedHolds ==
  ASSUME {"torn", "forgotten"} \subseteq Excused
  PROVE  Spec => AsAsked
BY CommandOnceHolds, CoreOnlyAskedHolds DEF AsAsked
===============================================================================
