---------------------------------- MODULE Fleet ----------------------------------
(***************************************************************************)
(* Signed fleet policies and the releases they let a device take:          *)
(* FleetService (fleet_management.py), the monitor that carries its        *)
(* commands out, the check and the download of releases                    *)
(* (iotmd_runtime.py, release_update.py) and the plan that leads a device  *)
(* through a core and an application (update_orchestrator.py).             *)
(*                                                                         *)
(* One asyncio loop: an action is what happens between two awaits.  What   *)
(* the installers do is in AppUpdate and DeviceUpdate; here a release is   *)
(* staged, and the next boots install it or go back.                       *)
(***************************************************************************)
EXTENDS Naturals, Sequences, SequencesExt

CONSTANTS
  Command,         \* identifiers of commands
  Does,            \* what a command asks for
  Policies,        \* the policies the manager signs, in the order of their numbers
  CompletedLimit,  \* completed_commands[-64:]
  MaxRelease,      \* releases of each type are 1 .. MaxRelease
  Needs,           \* Needs[r]: the core application r needs
  AutoDownload,    \* release_auto_download
  AutoActivate,    \* release_auto_activate
  MaxEvents,       \* a bound of the model: losses of power, and interventions of the
                   \* administrator and of the manager
  Excused          \* the exposures after which nothing is guaranteed

Type    == {"application", "firmware"}
Release == 1 .. MaxRelease
Caller  == {"monitor", "check", "boot"}
None    == "none"

ASSUME PolicyAssumption ==
  /\ None \notin Command
  /\ Does \in [Command -> {"check", "download", "activate", "rollback"}]
  /\ Policies \in Seq([commands : Seq(Command), auto : BOOLEAN, maximum : Nat \ {0}])
  /\ \A p \in DOMAIN Policies : /\ Len(Policies[p].commands) <= CompletedLimit
                                /\ IsInjective(Policies[p].commands)
ASSUME BoundAssumption ==
  /\ CompletedLimit \in Nat \ {0} /\ MaxRelease \in Nat \ {0}
  /\ Needs \in [Release -> Release] /\ Needs[1] = 1  \* what a device begins with fits
  /\ AutoDownload \in BOOLEAN /\ AutoActivate \in BOOLEAN
  /\ MaxEvents \in Nat

VARIABLES
  policy,     \* the number of the policy in force, 0 without one
  completed,  \* completed_commands
  failures,   \* consecutive_failures
  paused,     \* rollout_paused
  monitor,    \* fleet_policy_monitor: its step, the policy its list came from and what is
              \* still due of it, the command it is at and the outcome it will record
  job,        \* the checks and downloads that run, by caller
  available,  \* release_available
  plan,       \* .paired-update-state.json
  staged,     \* the verified release of each type that waits, 0 without one
  armed,      \* the boot partition of the staged core is selected
  installed,  \* the running release of each type
  previous,   \* the application in the other slot, 0 without one
  reset,      \* a restart has been scheduled
  up,         \* the application runs
  offer,      \* what the channel lists (external)
  ran,        \* history: commands carried out since they came in force
  asked,      \* history: activation was asked for, or allowed, since the last boot
  events, exposed

service == <<policy, completed, failures, paused>>
device  == <<staged, armed, installed, previous>>
history == <<ran, asked, events, exposed>>
vars == <<policy, completed, failures, paused, monitor, job, available, plan, staged,
          armed, installed, previous, reset, up, offer, ran, asked, events, exposed>>

(***************************************************************************)
(* What the code does not cover (README, Exposures):                       *)
(*   stale  a policy or a result that comes while the monitor awaits takes *)
(*          commands away that are on its list                             *)
(*   torn   power lost while the state of the service is replaced          *)
(*   forgotten  the list of completed commands, at its limit, loses one    *)
(*          that is still in force: it is pending again                    *)
(***************************************************************************)
Exposure == {"stale", "torn", "forgotten"}

Steps    == {"off", "round", "wait", "record", "sleep", "dead"}
Monitor  == [step : Steps, list : 0 .. Len(Policies), todo : SUBSET Command,
             command : Command \cup {None}, good : BOOLEAN]
Resting  == [step |-> "off", list |-> 0, todo |-> {}, command |-> None, good |-> TRUE]
Nothing  == [type |-> None, number |-> 0]
Chosen   == [type : Type, number : Release]
Idle     == [at |-> "off", release |-> Nothing]
NoPlan   == [status |-> None, want |-> [t \in Type |-> 0], active |-> None]
Statuses == {None, "planned", "staged", "activating", "failed"}

TypeOK ==
  /\ policy \in 0 .. Len(Policies)
  /\ completed \in Seq(Command) /\ Len(completed) <= CompletedLimit
  /\ failures \in Nat /\ paused \in BOOLEAN
  /\ monitor \in Monitor
  /\ job \in [Caller -> [at : {"off", "fetch", "open", "stage", "reset"},
                         release : Chosen \cup {Nothing}]]
  /\ available \in Chosen \cup {Nothing}
  /\ plan \in [status : Statuses, want : [Type -> 0 .. MaxRelease],
               active : Type \cup {None}]
  /\ staged \in [Type -> 0 .. MaxRelease] /\ armed \in BOOLEAN
  /\ installed \in [Type -> Release] /\ previous \in 0 .. MaxRelease
  /\ reset \in BOOLEAN /\ up \in BOOLEAN
  /\ offer \in [Type -> Release]
  /\ ran \subseteq Command /\ asked \in BOOLEAN
  /\ events \in 0 .. MaxEvents
  /\ exposed \subseteq Exposure

Init ==
  /\ policy = 0 /\ completed = <<>> /\ failures = 0 /\ paused = FALSE
  /\ monitor = [Resting EXCEPT !.step = "sleep"]
  /\ job = [c \in Caller |-> Idle]
  /\ available = Nothing /\ plan = NoPlan
  /\ staged = [t \in Type |-> 0] /\ armed = FALSE
  /\ installed = [t \in Type |-> 1] /\ previous = 0
  /\ reset = FALSE /\ up = TRUE
  /\ offer = [t \in Type |-> 1]
  /\ ran = {} /\ asked = FALSE /\ events = 0 /\ exposed = {}

\* The monitor awaits between two rounds and while it checks or downloads, and nowhere else.
Free == up /\ monitor.step \in {"sleep", "wait", "dead"}

-----------------------------------------------------------------------------
(* The service.                                                            *)

InForce  == IF policy = 0 THEN <<>> ELSE Policies[policy].commands
Maximum  == IF policy = 0 THEN 1 ELSE Policies[policy].maximum

\* Mutant: the whole policy is pending until its last command is done.
PendingWhole ==
  IF Last(<<0>> \o InForce) \in ToSet(completed) THEN {} ELSE ToSet(InForce)
\* pending_commands()
Pending == ToSet(InForce) \ ToSet(completed)

\* completed[-64:]
KeepLatest(s) ==
  SubSeq(s, IF Len(s) > CompletedLimit THEN Len(s) - CompletedLimit + 1 ELSE 1, Len(s))

\* record_result()
RecordResult(good) ==
  LET count == IF good THEN 0 ELSE failures + 1 IN
  /\ failures' = IF count > Maximum THEN Maximum ELSE count  \* beyond it nothing changes
  /\ paused' = (count >= Maximum)

\* complete_command() of a pending command; of another it raises.
CompleteCommand(c, good) ==
  /\ completed' = KeepLatest(Append(completed, c))
  /\ RecordResult(good)
  /\ UNCHANGED policy

\* A command in force was carried out, and is no longer known to have been.
Forgotten ==
  IF ToSet(completed) \cap ToSet(InForce) \subseteq ToSet(completed') THEN {} ELSE {"forgotten"}

\* fleet_activation_allowed(); open: within_maintenance_window(), which may hold at any time.
ActivationAllowed(open) ==
  \/ policy = 0
  \/ /\ Policies[policy].auto
     /\ ~paused
     /\ open

\* The list of the round that is being awaited loses a command that is on it.
LosesListed(after) ==
  IF monitor.step = "wait" /\ ~(monitor.todo \cup {monitor.command} \subseteq after)
    THEN {"stale"} ELSE {}

\* POST /api/v2/fleet/policy of a signed policy with a higher number.
ApplyPolicy(p) ==
  /\ Free /\ p > policy
  /\ policy' = p /\ paused' = FALSE
  /\ ran' = ran \cap ToSet(Policies[p].commands)
  /\ exposed' = exposed \cup LosesListed(ToSet(Policies[p].commands) \ ToSet(completed))
  /\ UNCHANGED <<completed, failures, monitor, job, available, plan, device, reset, up,
                 offer, asked, events>>

\* POST /api/v2/fleet/commands/{id}/result: the manager records an outcome itself.
ManagerRecords(c, good) ==
  /\ Free /\ events < MaxEvents /\ c \in Pending
  /\ CompleteCommand(c, good)
  /\ events' = events + 1
  /\ exposed' = exposed \cup LosesListed(Pending \ {c}) \cup Forgotten
  /\ UNCHANGED <<monitor, job, available, plan, device, reset, up, offer, ran,
                 asked>>

-----------------------------------------------------------------------------
(* Releases and the plan.                                                  *)

\* have: the installed releases.
Newer(have, t, n) == n > have[t]

\* Mutant: any core will do.
CompatibleAlways(have, t, n) == TRUE
\* validate_release_compatibility(): the core an application needs.
Compatible(have, t, n) == t = "firmware" \/ (n # 0 /\ have["firmware"] >= Needs[n])

\* select_release()
SelectRelease(have, want) ==
  LET fits(t) == Newer(have, t, want[t]) /\ Compatible(have, t, want[t]) IN
  IF fits("firmware") THEN "firmware" ELSE IF fits("application") THEN "application" ELSE None

\* refresh(): the plan p after what has been installed since.
Refresh(have, p) ==
  LET active == SelectRelease(have, p.want) IN
  IF \A t \in Type : ~Newer(have, t, p.want[t]) THEN NoPlan
  ELSE [p EXCEPT !.active = active,
                 !.status = IF @ \in {"staged", "activating"} /\ active # None
                               /\ ~(p.active # None /\ ~Newer(have, p.active, p.want[p.active]))
                            THEN @ ELSE "planned"]

\* begin(): a new plan, if a release can be taken now.
BeginPlan(want) ==
  LET active == SelectRelease(installed, want) IN
  IF active = None THEN NoPlan
  ELSE [status |-> "planned", want |-> want, active |-> active]

\* next_release()
NextRelease(p) ==
  IF p.active = None THEN Nothing ELSE [type |-> p.active, number |-> p.want[p.active]]

\* mark_staged(), mark_activating(): only a plan that is at this type.
Mark(t, status) ==
  plan' = IF plan.active = t THEN [plan EXCEPT !.status = status] ELSE plan

Enter(c, at, release) == job' = [job EXCEPT ![c] = [at |-> at, release |-> release]]
Leave(c) == job' = [job EXCEPT ![c] = Idle]

\* The outcome a caller gets: the monitor records it.
Return(c, good) ==
  monitor' = IF c = "monitor" THEN [monitor EXCEPT !.step = "record", !.good = good]
                              ELSE monitor

\* check_release_once() of release_monitor, which main() starts after its own download.
CheckBegins ==
  /\ Free /\ job["check"] = Idle /\ job["boot"] = Idle
  /\ Enter("check", "fetch", Nothing)
  /\ UNCHANGED <<service, monitor, available, plan, device, reset, up, offer, history>>

\* The administrator, or Home Assistant, has the channel checked, or what was found
\* downloaded.
AdminAsks ==
  /\ Free /\ events < MaxEvents /\ job["check"] = Idle
  /\ \/ Enter("check", "fetch", Nothing)
     \/ available # Nothing /\ Enter("check", "open", available)
  /\ events' = events + 1
  /\ UNCHANGED <<service, monitor, available, plan, device, reset, up, offer, ran, asked,
                 exposed>>

\* The channel's list has been read: plan, release_available, and the download when it is
\* automatic.
Fetched(c) ==
  /\ Free /\ job[c].at = "fetch"
  /\ LET p == BeginPlan(offer) IN
     /\ plan' = p /\ available' = NextRelease(p)
     /\ IF AutoDownload /\ p # NoPlan
        THEN Enter(c, "open", NextRelease(p)) /\ UNCHANGED monitor
        ELSE Leave(c) /\ Return(c, TRUE)
  /\ UNCHANGED <<service, device, reset, up, offer, history>>

\* The server answers, and the installer takes the lock.  A core that waited is given up
\* before the first write.
Opened(c) ==
  /\ Free /\ job[c].at = "open"
  /\ \A d \in Caller : job[d].at # "stage"
  /\ Compatible(installed, job[c].release.type, job[c].release.number)
  /\ Enter(c, "stage", job[c].release)
  /\ staged' = IF job[c].release.type = "firmware"
               THEN [staged EXCEPT !["firmware"] = 0] ELSE staged
  /\ armed' = IF job[c].release.type = "firmware" THEN FALSE ELSE armed
  /\ UNCHANGED <<service, monitor, available, plan, installed, previous, reset, up,
                 offer, history>>

\* The network, the lock, the signature or the digest: the caller raises.  A boot records
\* the failure in the plan; a bundle found wrong after it was staged is discarded.
JobFails(c) ==
  /\ Free /\ job[c].at \in {"fetch", "open", "stage"}
  /\ Leave(c) /\ Return(c, FALSE)
  /\ plan' = IF c = "boot" /\ plan # NoPlan THEN [plan EXCEPT !.status = "failed"] ELSE plan
  /\ \/ UNCHANGED staged
     \/ /\ job[c].at = "stage"
        /\ staged' = [staged EXCEPT ![job[c].release.type] = 0]
  /\ UNCHANGED <<service, available, armed, installed, previous, reset, up, offer,
                 history>>

\* release_auto_activate and fleet_activation_allowed()
Activates(open) == AutoActivate /\ ActivationAllowed(open)

\* The bundle is staged; release_available is forgotten, whatever it is by now.
Downloaded(c) ==
  /\ Free /\ job[c].at = "stage"
  /\ \E open \in BOOLEAN : LET r == job[c].release IN
     /\ Newer(installed, r.type, r.number)
     /\ staged' = [staged EXCEPT ![r.type] = r.number]
     /\ available' = Nothing
     /\ IF Activates(open)
        THEN /\ armed' = (armed \/ r.type = "firmware")
             /\ asked' = (asked \/ ActivationAllowed(open))
             /\ Mark(r.type, "activating")
             /\ Enter(c, "reset", r)
             /\ UNCHANGED monitor
        ELSE /\ Mark(r.type, "staged")
             /\ Leave(c) /\ Return(c, TRUE)
             /\ UNCHANGED <<armed, asked>>
  /\ UNCHANGED <<service, installed, previous, reset, up, offer, ran, events,
                 exposed>>

-----------------------------------------------------------------------------
(* Activation by an administrator or by a command.                         *)

\* portal_action('activate-firmware' or 'activate-update'): nothing staged, or done.
CanActivate(t) == staged[t] # 0
Activate(t) ==
  /\ armed' = (armed \/ t = "firmware")
  /\ Mark(t, "activating")
  /\ asked' = TRUE /\ reset' = TRUE

AdminActivates(t) ==
  /\ Free /\ events < MaxEvents /\ CanActivate(t)
  /\ Activate(t) /\ events' = events + 1
  /\ UNCHANGED <<service, monitor, job, available, staged, installed, previous, up, offer,
                 ran, exposed>>

\* discard_pending_update(): the administrator gives a staged release up.
AdminDiscards(t) ==
  /\ Free /\ events < MaxEvents /\ staged[t] # 0 /\ (t = "firmware" => ~armed)
  /\ staged' = [staged EXCEPT ![t] = 0] /\ events' = events + 1
  /\ UNCHANGED <<service, monitor, job, available, plan, armed, installed, previous,
                 reset, up, offer, ran, asked, exposed>>

-----------------------------------------------------------------------------
(* fleet_policy_monitor().                                                 *)

\* A round begins with the commands that are pending now; without any it does nothing.
RoundBegins ==
  /\ up /\ monitor.step = "sleep" /\ Pending # {}
  /\ monitor' = [monitor EXCEPT !.step = "round", !.list = policy, !.todo = Pending]
  /\ UNCHANGED <<service, job, available, plan, device, reset, up, offer, history>>

RoundEnds ==
  /\ up /\ monitor.step = "round" /\ monitor.todo = {}
  /\ monitor' = [Resting EXCEPT !.step = "sleep"]
  /\ UNCHANGED <<service, job, available, plan, device, reset, up, offer, history>>

\* Command c is the first of the list that is still due.
Turn(c) ==
  LET list == Policies[monitor.list].commands IN
  /\ c \in monitor.todo
  /\ \E i \in DOMAIN list : list[i] = c /\ \A j \in 1 .. i - 1 : list[j] \notin monitor.todo

\* The monitor takes the next command.  One that is no longer in force is not counted as one
\* of the policy's.
Acts(c, kind) ==
  /\ up /\ monitor.step = "round" /\ Turn(c) /\ Does[c] = kind
  /\ ran' = ran \cup ({c} \cap ToSet(InForce))

Takes(c, step, good) ==
  monitor' = [monitor EXCEPT !.step = step, !.todo = @ \ {c}, !.command = c, !.good = good]
\* The result of a command that has been tried is recorded next.
Tried(c, good) == Takes(c, "record", good)
\* A check or a download is awaited.
Awaits(c) == Takes(c, "wait", monitor.good)

CommandChecks(c) ==
  /\ Acts(c, "check")
  /\ Enter("monitor", "fetch", Nothing) /\ Awaits(c)
  /\ UNCHANGED <<service, available, plan, device, reset, up, offer, asked, events, exposed>>

CommandDownloads(c) ==
  /\ Acts(c, "download")
  /\ IF available = Nothing THEN Tried(c, FALSE) /\ UNCHANGED job
     ELSE Enter("monitor", "open", available) /\ Awaits(c)
  /\ UNCHANGED <<service, available, plan, device, reset, up, offer, asked, events, exposed>>

\* Only inside the window; a core that waits before an application that waits.
CommandActivates(c) ==
  /\ Acts(c, "activate")
  /\ \E open \in BOOLEAN :
     LET t == IF staged["firmware"] # 0 THEN "firmware" ELSE "application" IN
     IF open /\ CanActivate(t)
     THEN Activate(t) /\ Tried(c, TRUE)
     ELSE Tried(c, FALSE) /\ UNCHANGED <<armed, plan, asked, reset>>
  /\ UNCHANGED <<service, job, available, staged, installed, previous, up, offer,
                 events, exposed>>

\* rollback_to_previous(): the other slot, when nothing is pending.
CommandRollsBack(c) ==
  /\ Acts(c, "rollback")
  /\ IF previous # 0 /\ staged["application"] = 0
     THEN /\ installed' = [installed EXCEPT !["application"] = previous]
          /\ previous' = installed["application"]
          /\ reset' = TRUE /\ Tried(c, TRUE)
     ELSE Tried(c, FALSE) /\ UNCHANGED <<installed, previous, reset>>
  /\ UNCHANGED <<service, job, available, plan, staged, armed, up, offer, asked,
                 events, exposed>>

\* Mutant: only a success is recorded.
RecordsSuccess ==
  LET c == monitor.command IN
  /\ IF monitor.good /\ c \in Pending THEN CompleteCommand(c, TRUE)
     ELSE UNCHANGED service
  /\ monitor' = [monitor EXCEPT !.step = "round", !.command = None]
  /\ UNCHANGED exposed
\* complete_command() after the effect.  A command that is no longer pending makes it
\* raise, also in the handler of a failure: the task ends.
Records ==
  LET c == monitor.command IN
  IF c \in Pending
  THEN /\ CompleteCommand(c, monitor.good) /\ exposed' = exposed \cup Forgotten
       /\ monitor' = [monitor EXCEPT !.step = "round", !.command = None]
  ELSE monitor' = [Resting EXCEPT !.step = "dead"] /\ UNCHANGED <<service, exposed>>

CommandRecorded ==
  /\ up /\ monitor.step = "record"
  /\ Records
  /\ UNCHANGED <<job, available, plan, device, reset, up, offer, ran, asked, events>>

-----------------------------------------------------------------------------
(* Restarts.                                                               *)

\* What a restart leaves: the flash.  A command that was tried and not recorded will be
\* tried again.
GoesDown ==
  /\ up' = FALSE /\ reset' = FALSE
  /\ monitor' = Resting /\ job' = [c \in Caller |-> Idle] /\ available' = Nothing
  /\ ran' = ran \ {monitor.command}

\* hardware_platform.reset(), of the timer or a second after an automatic activation.
Restarts ==
  /\ Free /\ (reset \/ \E c \in Caller : job[c].at = "reset")
  /\ GoesDown
  /\ UNCHANGED <<service, plan, device, offer, asked, events, exposed>>

PowerLoss ==
  /\ up /\ events < MaxEvents
  /\ GoesDown /\ events' = events + 1
  /\ UNCHANGED <<service, plan, device, offer, asked, exposed>>

\* _replace() removes the state before it renames the new one; _load() then starts empty.
TearService ==
  /\ up /\ events < MaxEvents /\ policy # 0
  /\ GoesDown /\ events' = events + 1
  /\ policy' = 0 /\ completed' = <<>> /\ failures' = 0 /\ paused' = FALSE
  /\ exposed' = exposed \cup {"torn"}
  /\ UNCHANGED <<plan, device, offer, asked>>

\* The trial boots of what was staged: an application that waits is activated by any boot,
\* a core when its partition was selected.  It is confirmed, or the device goes back.
Trials(t) ==
  IF staged[t] = 0 \/ (t = "firmware" /\ ~armed) THEN {installed[t]}
  ELSE {staged[t], installed[t]}

\* Boots until main() has started its services: the plan is brought up to date, and what
\* it wants next is downloaded.
Boots(app, core) ==
  /\ ~up /\ app \in Trials("application") /\ core \in Trials("firmware")
  /\ installed' = [t \in Type |-> IF t = "firmware" THEN core ELSE app]
  /\ previous' = IF app # installed["application"] THEN installed["application"]
                 ELSE IF staged["application"] # 0 THEN 0 ELSE previous
  /\ staged' = [t \in Type |-> IF t = "firmware" /\ ~armed THEN staged[t] ELSE 0]
  /\ armed' = FALSE /\ asked' = FALSE /\ up' = TRUE
  /\ monitor' = [Resting EXCEPT !.step = "sleep"]
  /\ plan' = Refresh(installed', plan)
  /\ available' = NextRelease(plan')
  /\ IF AutoDownload /\ available' # Nothing
     THEN Enter("boot", "open", available') ELSE UNCHANGED job
  /\ UNCHANGED <<service, reset, offer, ran, events, exposed>>

-----------------------------------------------------------------------------
(* What is outside: the channel.                                           *)

\* A newer release is published.
Published(t) ==
  /\ offer[t] < MaxRelease
  /\ offer' = [offer EXCEPT ![t] = @ + 1]
  /\ UNCHANGED <<service, monitor, job, available, plan, device, reset, up, history>>

MonitorMoves ==
  \/ RoundBegins \/ RoundEnds \/ CommandRecorded
  \/ \E c \in Command : CommandChecks(c) \/ CommandDownloads(c) \/ CommandActivates(c)
                          \/ CommandRollsBack(c)

Next ==
  \/ \E p \in DOMAIN Policies : ApplyPolicy(p)
  \/ \E c \in Command, good \in BOOLEAN : ManagerRecords(c, good)
  \/ CheckBegins \/ AdminAsks
  \/ \E c \in Caller : Fetched(c) \/ Opened(c) \/ JobFails(c) \/ Downloaded(c)
  \/ \E t \in Type : AdminActivates(t) \/ AdminDiscards(t)
  \/ MonitorMoves
  \/ Restarts \/ PowerLoss \/ TearService
  \/ \E app, core \in Release : Boots(app, core)
  \/ \E t \in Type : Published(t)

\* What a caller's check or download does next.
JobMoves(c) == Fetched(c) \/ Opened(c) \/ Downloaded(c) \/ JobFails(c)
Booting == Restarts \/ \E app, core \in Release : Boots(app, core)

\* What runs goes on: the loop, the timer of a restart, the boot, and every connection,
\* which is answered or broken.
Runs ==
  /\ WF_vars(MonitorMoves) /\ WF_vars(Booting)
  /\ \A c \in {"monitor", "check"} : WF_vars(JobMoves(c))

\* The channel is checked by the schedule, and what is tried again and again succeeds.
Succeeds ==
  /\ WF_vars(CheckBegins)
  /\ SF_vars(Fetched("check"))
  /\ SF_vars(\E c \in {"check", "boot"} : Opened(c)) 
  /\ SF_vars(\E c \in {"check", "boot"} : Downloaded(c))
  /\ SF_vars(\E app, core \in Release : Boots(app, core) /\ \A t \in Type :
               installed'[t] = (IF staged[t] # 0 /\ (t = "firmware" => armed)
                                THEN staged[t] ELSE installed[t]))

Spec == Init /\ [][Next]_vars /\ Runs /\ Succeeds

-----------------------------------------------------------------------------
(* Correctness, up to the first excused exposure.                          *)

Promised == exposed \cap Excused = {}

Carries(c) == CommandChecks(c) \/ CommandDownloads(c) \/ CommandActivates(c)
                \/ CommandRollsBack(c)

\* A command of a policy is carried out once, also when the policy is replaced by one that
\* repeats it; only a restart before its result is stored has it tried again.
CommandOnce == [][\A c \in Command : (Promised /\ Carries(c)) => c \notin ran]_vars

\* The application that runs has the core it needs, whatever was downloaded, activated and
\* rolled back in what order.
ApplicationHasItsCore == Needs[installed["application"]] <= installed["firmware"]

\* A core is only replaced after somebody asked for it or the fleet's policy allowed it
\* when it was selected.
CoreOnlyAsked == [][installed'["firmware"] # installed["firmware"] => asked]_vars

\* Every command of the policy in force gets a result, unless the device restarts for ever
\* or a command was taken off the list of a round, which ends the monitor.
Served == []<>(Pending = {} \/ ~up \/ "stale" \in exposed \/ ~Promised)

\* Where releases are downloaded and activated without anybody and no fleet policy holds
\* them back, what the channel publishes is installed: again and again no plan is left
\* and nothing is on offer that the device could take.
PlanEnds ==
  []<>(\/ plan = NoPlan /\ SelectRelease(installed, offer) = None
       \/ policy # 0 \/ ~AutoDownload \/ ~AutoActivate \/ ~Promised)

\* What is carried out was asked for, and once.
AsAsked == CommandOnce /\ CoreOnlyAsked

\* Commands come to a result, and plans to an end.
Completes == Served /\ PlanEnds

==============================================================================
