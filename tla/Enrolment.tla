-------------------------------- MODULE Enrolment --------------------------------
(***************************************************************************)
(* The certificate methods: the owner's changes of method                  *)
(* (certificate_enrollment_service.py, update-acme-settings and            *)
(* validate_uploaded_certificates() of iotmd_runtime.py), the enrolment    *)
(* with an IoT CA (iot_ca_enrollment.py), the renewal monitors             *)
(* (certificate_lifecycle.py), and the reload of the two listeners.        *)
(*                                                                         *)
(* An enrolment and a renewal await the network with everything they are   *)
(* about to install already decided.  The monitor that main() starts is    *)
(* the one of the method of that start, and is not told when the method    *)
(* changes.  A set of files is installed in one transaction, which is a    *)
(* step here (Settings has its crashes).                                   *)
(***************************************************************************)
EXTENDS Integers, FiniteSets

CONSTANTS
  ApiEnabled,  \* device_api_enabled
  MaxChanges,  \* a bound of the model: changes the owner asks for
  MaxAges,     \* a bound of the model: how often certificates come of age
  MaxCrashes,  \* a bound of the model: restarts
  Excused      \* the exposures after which nothing is guaranteed

ASSUME EnrolmentAssumption ==
  ApiEnabled \in BOOLEAN /\ MaxChanges \in Nat /\ MaxAges \in Nat /\ MaxCrashes \in Nat

VARIABLES
  settings,  \* certificate settings of the store: method, and the number of the change
  portal,    \* the installed portal identity: its method, and the change it was got under
  iot,       \* STATE_PATH of iot_ca_enrollment: the enrolment, and whether renewal is due
  local,     \* STATE_PATH of certificate_manager: "none", "fresh" or "due"
  monitor,   \* the renewal monitor: method and change it was started with, and its phase
  renewing,  \* the change the renewal in flight was begun under
  job,       \* STATUS of an enrolment from the portal is "running"
  stale,     \* listeners that do not serve the installed identity
  reload,    \* listeners whose reload task waits
  latest,    \* history: the last change that installed an identity
  changes,   \* changes asked for
  ages,      \* how often certificates came of age
  crashes,
  exposed

vars == <<settings, portal, iot, local, monitor, renewing, job, stale, reload, latest, changes,
          ages, crashes, exposed>>

(***************************************************************************)
(* What the code does not cover (README, Exposures):                       *)
(*   between      power fails, or the store cannot be written, after an    *)
(*                identity is installed and before its method is saved     *)
(*   overtaken    a renewal begun for one enrolment is installed over a    *)
(*                later one                                                *)
(*   unwatched    a certificate of the method of the settings is of age,   *)
(*                and the monitor of that method does not run: it ended    *)
(*                with its first renewal, or the method was changed since  *)
(*                the start                                                *)
(*   unscheduled  a reload that is waiting already makes the next call     *)
(*                raise, and the other listener is not reloaded            *)
(*   postponed    an upload that changes outbound trust as well reloads    *)
(*                nothing, and asks for a restart                          *)
(***************************************************************************)
Exposure == {"between", "overtaken", "unwatched", "unscheduled", "postponed"}
Promised == exposed \cap Excused = {}

Method    == {"self_signed", "acme", "iot_ca", "manual"}
Automatic == Method \ {"manual"}
Listener  == IF ApiEnabled THEN {"portal", "api"} ELSE {"portal"}
NoIoT     == [change |-> -1, due |-> TRUE]

\* The change that is being made: one more than the last that was saved
Change == settings.change + 1

Init ==
  /\ \E method \in Method :
       /\ settings = [method |-> method, change |-> 0]
       /\ portal = [method |-> method, change |-> 0]
       /\ iot = IF method = "iot_ca" THEN [change |-> 0, due |-> FALSE] ELSE NoIoT
       /\ local \in IF method \in {"self_signed", "acme"} THEN {"fresh"} ELSE {"none", "fresh"}
       /\ monitor = [method |-> method, change |-> 0, phase |-> "watching"]
  /\ renewing = 0 /\ job = FALSE /\ stale = {} /\ reload = {} /\ latest = 0
  /\ changes = 0 /\ ages = 0 /\ crashes = 0 /\ exposed = {}

\* renewal_due(), of the state file of the method: also when there is none
Due(method) == IF method = "iot_ca" THEN iot.due ELSE local # "fresh"

\* An identity of the configured method is due, and a monitor sees to it.
OfAge == settings.method \in Automatic /\ Due(settings.method)
Watched == monitor.phase # "ended" /\ monitor.method = settings.method

\* In the next state
Unwatched == IF OfAge' /\ ~Watched' THEN {"unwatched"} ELSE {}

-----------------------------------------------------------------------------
(* The listeners.                                                          *)

\* Mutant: only the portal is reloaded.
ReloadsPortal(wanted) == reload \cup {"portal"}

\* schedule_...(): start_task() for one listener after the other.  It raises at the first
\* whose task runs already (TaskSupervisor.start()), and those after it are not reached.
Reloads(wanted) ==
  IF "portal" \in reload THEN reload ELSE reload \cup wanted

Schedules(wanted) ==
  /\ reload' = Reloads(wanted)
  /\ exposed' = exposed \cup Unwatched
                 \cup IF "portal" \in reload /\ ~(wanted \subseteq reload)
                      THEN {"unscheduled"} ELSE {}

\* reload_portal_listener(), reload_device_api_listener(): a second later the listener is
\* closed and opened with what is installed then.
ReloadRuns(l) ==
  /\ l \in reload /\ reload' = reload \ {l} /\ stale' = stale \ {l}
  /\ UNCHANGED <<settings, portal, iot, local, monitor, renewing, job, latest, changes, ages,
                 crashes, exposed>>

-----------------------------------------------------------------------------
(* The owner's changes.                                                    *)

Asks == changes < MaxChanges /\ changes' = changes + 1

\* change("self_signed"): installed, saved, and the portal reloads.
ChangesToSelfSigned ==
  /\ Asks /\ ~job
  /\ UNCHANGED <<iot, monitor, renewing, job, ages, crashes>>
  /\ portal' = [method |-> "self_signed", change |-> Change] /\ local' = "fresh"
  /\ settings' = portal' /\ latest' = Change
  /\ stale' = stale \cup {"portal"} /\ Schedules({"portal"})

\* change("iot_ca_auto") and change("iot_ca_file") start an enrolment.
AsksEnrolment ==
  /\ Asks /\ ~job /\ job' = TRUE
  /\ UNCHANGED <<settings, portal, iot, local, monitor, renewing, stale, reload, latest, ages,
                 crashes, exposed>>

\* Mutant: an enrolment leaves the settings to the page that shows its result.
SettingsLeft(method) == settings

\* update_certificate_settings()
SettingsAfter(method) == [method |-> method, change |-> Change]

\* install(), automatic_install(): the set is installed, the settings are saved, both
\* listeners reload (_finish()).
Enrolled ==
  /\ job /\ job' = FALSE
  /\ UNCHANGED <<local, monitor, renewing, changes, ages, crashes>>
  /\ portal' = [method |-> "iot_ca", change |-> Change]
  /\ iot' = [change |-> Change, due |-> FALSE]
  /\ settings' = SettingsAfter("iot_ca") /\ latest' = Change
  /\ stale' = stale \cup Listener /\ Schedules(Listener)

\* The settings could not be saved: the set stays installed, and nothing is reloaded.
EnrolledUnsaved ==
  /\ job /\ job' = FALSE
  /\ portal' = [method |-> "iot_ca", change |-> Change]
  /\ iot' = [change |-> Change, due |-> FALSE]
  /\ stale' = stale \cup Listener /\ exposed' = exposed \cup {"between"}
  /\ UNCHANGED <<settings, local, monitor, renewing, reload, latest, changes, ages, crashes>>

EnrolmentFails ==
  /\ job /\ job' = FALSE
  /\ UNCHANGED <<settings, portal, iot, local, monitor, renewing, stale, reload, latest,
                 changes, ages, crashes, exposed>>

\* validate_uploaded_certificates(): a package with the portal's pair, and the API's or not
Uploads ==
  /\ Asks
  /\ UNCHANGED <<iot, local, monitor, renewing, job, ages, crashes>>
  /\ portal' = [method |-> "manual", change |-> Change]
  /\ settings' = portal' /\ latest' = Change
  /\ \E wanted \in {{"portal"}, Listener} :
       /\ stale' = stale \cup wanted
       /\ \/ Schedules(wanted)
          \/ reload' = reload /\ exposed' = exposed \cup Unwatched \cup {"postponed"}

\* update-acme-settings: the installed identity is retained until the restart.
SavesAcme ==
  /\ Asks
  /\ UNCHANGED <<portal, iot, local, monitor, renewing, job, stale, reload, latest, ages,
                 crashes>>
  /\ \E method \in {"acme", "manual"} : settings' = SettingsAfter(method)
  /\ exposed' = exposed \cup Unwatched

-----------------------------------------------------------------------------
(* The renewal monitor, every fifteen minutes.                             *)

\* certificate_lifecycle.monitor(), with the settings main() was started with
MonitorOf(s) == [method |-> s.method, change |-> s.change, phase |-> "watching"]

\* renew() reads the enrolment, issue() has its settings; then they await the network.
RenewalBegins ==
  /\ monitor.phase = "watching" /\ monitor.method \in {"acme", "iot_ca"}
  /\ Due(monitor.method) /\ (monitor.method = "iot_ca" => iot # NoIoT)
  /\ monitor' = [monitor EXCEPT !.phase = "renewing"]
  /\ renewing' = IF monitor.method = "iot_ca" THEN iot.change ELSE monitor.change
  /\ UNCHANGED <<settings, portal, iot, local, job, stale, reload, latest, changes, ages,
                 crashes, exposed>>

\* The failure is logged, and the monitor waits for the next quarter of an hour.
RenewalFails ==
  /\ monitor.phase = "renewing"
  /\ monitor' = [monitor EXCEPT !.phase = "watching"] /\ renewing' = 0
  /\ UNCHANGED <<settings, portal, iot, local, job, stale, reload, latest, changes, ages,
                 crashes, exposed>>

\* The new identity is installed, of the enrolment or the settings the renewal began with.
Installs(change) ==
  /\ portal' = [method |-> monitor.method, change |-> change]
  /\ IF monitor.method = "iot_ca"
     THEN iot' = [change |-> change, due |-> FALSE] /\ UNCHANGED local
     ELSE local' = "fresh" /\ UNCHANGED iot
  /\ stale' = stale \cup IF monitor.method = "iot_ca" THEN Listener ELSE {"portal"}
  /\ monitor' = [monitor EXCEPT !.phase = "renewed"] /\ renewing' = 0
  /\ exposed' = exposed \cup IF change < latest THEN {"overtaken"} ELSE {}
  /\ UNCHANGED <<settings, job, reload, latest, changes, ages, crashes>>

Renewed == monitor.phase = "renewing" /\ Installs(renewing)

\* self_signed_renewal_monitor() waits for nobody.
RenewsSelfSigned ==
  /\ monitor.phase = "watching" /\ monitor.method = "self_signed" /\ Due("self_signed")
  /\ Installs(monitor.change)

\* Two seconds later the monitor schedules the reload, and returns.
MonitorEnds ==
  /\ monitor.phase = "renewed" /\ monitor' = [monitor EXCEPT !.phase = "ended"]
  /\ UNCHANGED <<settings, portal, iot, local, renewing, job, stale, latest, changes, ages,
                 crashes>>
  /\ Schedules(IF monitor.method = "iot_ca" THEN Listener ELSE {"portal"})

-----------------------------------------------------------------------------
\* Two thirds of a certificate's life have passed.
Ages ==
  /\ ages < MaxAges /\ ages' = ages + 1
  /\ UNCHANGED <<settings, portal, monitor, renewing, job, stale, reload, latest, changes,
                 crashes>>
  /\ \/ iot # NoIoT /\ ~iot.due /\ iot' = [iot EXCEPT !.due = TRUE] /\ UNCHANGED local
     \/ local = "fresh" /\ local' = "due" /\ UNCHANGED iot
  /\ exposed' = exposed \cup Unwatched

\* The device restarts, whatever it awaits: main() reads the settings, the listeners load
\* what is installed.
Restart ==
  /\ crashes < MaxCrashes /\ crashes' = crashes + 1
  /\ monitor' = MonitorOf(settings)
  /\ renewing' = 0 /\ job' = FALSE /\ stale' = {} /\ reload' = {}
  /\ UNCHANGED <<settings, portal, iot, local, latest, changes, ages, exposed>>

\* Power fails right after an identity was installed.
CrashBetween ==
  /\ crashes < MaxCrashes /\ crashes' = crashes + 1
  /\ \/ /\ job
        /\ portal' = [method |-> "iot_ca", change |-> Change]
        /\ iot' = [change |-> Change, due |-> FALSE] /\ UNCHANGED <<local, changes>>
     \/ /\ Asks /\ ~job
        /\ portal' = [method |-> "self_signed", change |-> Change] /\ local' = "fresh"
        /\ UNCHANGED iot
     \/ /\ Asks
        /\ portal' = [method |-> "manual", change |-> Change] /\ UNCHANGED <<iot, local>>
  /\ monitor' = MonitorOf(settings)
  /\ renewing' = 0 /\ job' = FALSE /\ stale' = {} /\ reload' = {}
  /\ exposed' = exposed \cup {"between"}
  /\ UNCHANGED <<settings, latest, ages>>

Owner == ChangesToSelfSigned \/ AsksEnrolment \/ Uploads \/ SavesAcme
Job   == Enrolled \/ EnrolledUnsaved \/ EnrolmentFails
Monitor == RenewalBegins \/ RenewalFails \/ Renewed \/ RenewsSelfSigned \/ MonitorEnds

Next ==
  \/ Owner \/ Job \/ Monitor \/ Ages \/ Restart \/ CrashBetween
  \/ \E l \in Listener : ReloadRuns(l)

\* Tasks that wait for a time go on; the CA issues a certificate in the end if it is asked
\* again and again.
Fairness ==
  /\ WF_vars(RenewalBegins) /\ SF_vars(Renewed) /\ WF_vars(RenewsSelfSigned)
  /\ WF_vars(RenewalFails \/ Renewed) /\ WF_vars(MonitorEnds)
  /\ \A l \in Listener : WF_vars(ReloadRuns(l))

Spec == Init /\ [][Next]_vars /\ Fairness

-----------------------------------------------------------------------------
TypeOK ==
  /\ settings \in [method : Method, change : 0 .. MaxChanges]
  /\ portal \in [method : Method, change : 0 .. MaxChanges + 1]
  /\ iot \in [change : -1 .. MaxChanges + 1, due : BOOLEAN] /\ local \in {"none", "fresh", "due"}
  /\ monitor \in [method : Method, change : 0 .. MaxChanges,
                  phase : {"watching", "renewing", "renewed", "ended"}]
  /\ stale \subseteq Listener /\ reload \subseteq Listener /\ exposed \subseteq Exposure

\* The portal has the identity of the owner's last change that installed one, or that of a
\* later one which only set the method and was then carried out by the monitor; and if it is
\* that of the last change of all, it is of the method the settings name.  So no crash, no
\* reload and no renewal that was under way brings back what the owner replaced.
KeepsChoice ==
  Promised => /\ portal.change \in latest .. settings.change
              /\ portal.change = settings.change => portal.method = settings.method

\* Both listeners come to serve what is installed, whoever installed it and whichever reload
\* was waiting already; and an identity of the configured method that has come of age is
\* renewed, over any failed attempt and restart (docs/CERTIFICATES.md:93-103), or the owner
\* has another installed.
ServesInstalled ==
  \A l \in Listener : (l \in stale) ~> (l \notin stale \/ ~Promised)

IsRenewed == OfAge ~> (~OfAge \/ ~Promised)

IdentityLasts == ServesInstalled /\ IsRenewed
=============================================================================
