---------------------------------- MODULE Setup ----------------------------------
(***************************************************************************)
(* First-boot setup (setup_wizard.py, setup_workflow.py): the requests of  *)
(* the wizard, of which several are answered at a time, the enrolment task *)
(* that runs beside them, the station that both join the home network      *)
(* with, and the hand-over from the device's own access point to it.       *)
(*                                                                         *)
(* A handler awaits the body of its request, the station, a download and   *)
(* its own answer; whatever it read before may have changed after.  The    *)
(* writes between two awaits are one step here: Settings has the losses of *)
(* power between them.  A configuration is its number, its network and     *)
(* what it says of the portal's certificate; the rest of it is not needed. *)
(***************************************************************************)
EXTENDS Integers, FiniteSets

CONSTANTS
  Conn,           \* handlers, numbered: a request takes the first that is free
  Net,            \* networks the owner may enter
  InReach,        \* those the station can join
  MaxConfigures,  \* a bound of the model: forms with a configuration
  MaxRequests,    \* a bound of the model: requests
  MaxFaults,      \* a bound of the model: losses of the network or of power
  Excused         \* the exposures after which nothing is guaranteed

ASSUME SetupAssumption ==
  /\ Conn \subseteq Nat /\ InReach \subseteq Net
  /\ {MaxConfigures, MaxRequests, MaxFaults} \subseteq Nat

VARIABLES
  phase,    \* "setup"; after a restart "operating", or "dead" without a setup password
  store,    \* the stored configuration
  key,      \* the setup password is stored
  files,    \* the portal's certificate and its key, each with where it comes from
  staged,   \* methods whose staged trust anchor is there (.acme, .iotca)
  app,      \* an application is staged or installed
  station,  \* the Wi-Fi station: "off", "joining" or "joined", and the network
  ap,       \* the access point is on
  status,   \* enrollment['status']
  task,     \* enrolment tasks, by the request that created them
  conn,     \* the handlers
  spent,    \* what was used up of the bounds
  exposed

vars == <<phase, store, key, files, staged, app, station, ap, status, task, conn, spent, exposed>>

(***************************************************************************)
(* What the code does not cover (README, Exposures):                       *)
(*   stale       a request that awaited an application saves the           *)
(*               configuration it had read before, over a later one        *)
(*   orphaned    the answer to an enrolment request fails: its task is not *)
(*               created, and the status says "running" until a restart    *)
(*   superseded  an enrolment ends after the configuration it was for was  *)
(*               replaced                                                  *)
(*   halfway     an ACME certificate is installed and its trust anchor     *)
(*               cannot be, while the settings are of another method which *)
(*               nothing prepares again                                    *)
(*   loose       a single certificate file is written after the selection  *)
(*               was validated (/certificate)                              *)
(*   unfinished  a configuration is entered after setup was finished, and  *)
(*               before the restart: neither provisioned nor a password    *)
(*   waiting     the answer that setup is finished fails: no restart       *)
(*   cut off     a handler or a task that cannot join switches the station *)
(*               off, and the access point is off or about to be           *)
(***************************************************************************)
Exposure == {"stale", "orphaned", "superseded", "halfway", "loose", "unfinished",
             "waiting", "cut off"}
Promised == exposed \cap Excused = {}
Exposes(cases) == exposed' = exposed \cup cases
When(condition, name) == IF condition THEN {name} ELSE {}

Enrolment == {"acme", "iot_ca"}
\* Files of pairs that the owner brings along, self-issued or issued by an authority: they are
\* made for no configuration.
Supplied  == {"other self-issued", "other issued"}
NoConfig  == [number |-> 0, net |-> "none", mode |-> "none", host |-> 0, provisioned |-> FALSE]
NoTask    == [at |-> "none", method |-> "none", net |-> "none", number |-> 0]
Idle      == [at |-> "idle", kind |-> "none", snap |-> NoConfig]
Off       == [state |-> "off", net |-> "none"]

\* build_configuration(): the certificate is self-signed until another is chosen.
Configuration(n) ==
  [number |-> spent.configures + 1, net |-> n, mode |-> "self_signed",
   host |-> spent.configures + 1, provisioned |-> FALSE]

Half(kind, host) == [kind |-> kind, host |-> host]

\* Who makes a pair replaces both files, with a new key, for the configuration of that name.
Certificate(kind, host) == [cert |-> Half(kind, host), key |-> Half(kind, host)]

\* update_certificate_settings()
WithMode(config, mode, host) == [config EXCEPT !.mode = mode, !.host = host]

\* Setup begins, or is taken up again by a device that was configured, and perhaps enrolled,
\* before it lost power: nothing but what is stored is left of the requests of that time.
Unconfigured ==
  /\ store = NoConfig /\ files = Certificate("none", 0)
  /\ spent = [configures |-> 0, requests |-> 0, faults |-> 0]

Resumed ==
  /\ spent = [configures |-> 1, requests |-> 1, faults |-> 0]
  /\ spent.configures <= MaxConfigures
  /\ \E n \in Net, mode \in {"self_signed", "manual"} \cup Enrolment :
       /\ store = [number |-> 1, net |-> n, mode |-> mode, host |-> 1, provisioned |-> FALSE]
       /\ files = Certificate(mode, 1)

Init ==
  /\ phase = "setup" /\ key = TRUE /\ (Unconfigured \/ Resumed)
  /\ staged = {} /\ app \in BOOLEAN
  /\ station = Off /\ ap = TRUE /\ status = "idle"
  /\ task = [c \in Conn |-> NoTask] /\ conn = [c \in Conn |-> Idle]
  /\ exposed = {}

Fault == spent.faults < MaxFaults /\ spent' = [spent EXCEPT !.faults = @ + 1]

\* What neither a handler nor a task changes
Setting  == phase = "setup" /\ UNCHANGED phase
Becomes(c, at) == conn' = [conn EXCEPT ![c].at = at]
Closes(c) == conn' = [conn EXCEPT ![c] = Idle]

-----------------------------------------------------------------------------
(* The station.                                                            *)

IsConnected == station.state = "joined"

\* _connect_station(): it is enough that the station is connected, to whatever network.
StartsJoin(net) ==
  station' = IF IsConnected THEN station ELSE [state |-> "joining", net |-> net]

LinkUp ==
  /\ Setting /\ station.state = "joining" /\ station.net \in InReach
  /\ station' = [station EXCEPT !.state = "joined"]
  /\ UNCHANGED <<store, key, files, staged, app, ap, status, task, conn, spent, exposed>>

\* The network is lost; the station tries to join it again by itself.
LinkDown ==
  /\ Setting /\ IsConnected /\ Fault
  /\ station' = [station EXCEPT !.state = "joining"]
  /\ UNCHANGED <<store, key, files, staged, app, ap, status, task, conn, exposed>>

\* The access point is off, or will be: an owner's network was joined.
HandedOver == ~ap \/ \E c \in Conn : conn[c].kind = "configure" /\ conn[c].at # "joining"

\* Half a minute without a connection: the station is switched off.
GivesUp ==
  /\ ~IsConnected /\ station' = Off /\ Exposes(When(HandedOver, "cut off"))

-----------------------------------------------------------------------------
(* The requests.                                                           *)

\* A handler whose body has arrived.  Nothing is read of the device before, but by requests
\* for an enrolment.
Handles(c) ==
  /\ Setting /\ spent.requests < MaxRequests
  /\ conn[c] = Idle /\ \A d \in Conn : conn[d] = Idle => c <= d

Requested == [spent EXCEPT !.requests = @ + 1]

\* handle(): an enrolment that is running answers the next request for one at once.
Request(c) ==
  /\ Handles(c) /\ spent' = Requested
  /\ store # NoConfig /\ status # "running" /\ task[c] = NoTask
  /\ \E method \in Enrolment :
       conn' = [conn EXCEPT ![c] = [Idle EXCEPT !.at = "body", !.kind = method]]
  /\ UNCHANGED <<store, key, files, staged, app, station, ap, status, task, exposed>>

\* The body does not arrive, or is refused.
BodyFails(c) ==
  /\ Setting /\ conn[c].at = "body" /\ Closes(c)
  /\ UNCHANGED <<store, key, files, staged, app, station, ap, status, task, spent, exposed>>

\* _configure_device() saves and installs first; then the station joins.
Configures(c) ==
  /\ Handles(c) /\ spent.configures < MaxConfigures
  /\ spent' = [Requested EXCEPT !.configures = @ + 1]
  /\ \E n \in Net :
       /\ store' = Configuration(n)
       /\ files' = Certificate("self_signed", store'.host)
       /\ StartsJoin(n)
       /\ conn' = [conn EXCEPT ![c] = [@ EXCEPT !.at = IF IsConnected THEN "answer" ELSE "joining",
                                                !.kind = "configure"]]
       /\ Exposes(When(store.provisioned, "unfinished"))
  /\ UNCHANGED <<key, staged, app, ap, status, task>>

\* The station is joined while two handlers wait for it: both take it for theirs.
Joined(c) ==
  /\ Setting /\ conn[c].at = "joining" /\ IsConnected
  /\ \/ conn[c].kind = "configure" /\ Becomes(c, "answer")
     \/ conn[c].kind = "install" /\ Becomes(c, "download")
  /\ UNCHANGED <<store, key, files, staged, app, station, ap, status, task, spent, exposed>>

\* Mutant: the page that says so is followed by the hand-over all the same.
NotJoinedHandedOver(c) ==
  /\ Setting /\ conn[c].at = "joining" /\ GivesUp
  /\ IF conn[c].kind = "configure" THEN Becomes(c, "handover") ELSE Closes(c)
  /\ UNCHANGED <<store, key, files, staged, app, ap, status, task, spent>>

NotJoined(c) ==
  /\ Setting /\ conn[c].at = "joining" /\ GivesUp /\ Closes(c)
  /\ UNCHANGED <<store, key, files, staged, app, ap, status, task, spent>>

\* Five seconds after its page was sent, the owner is expected on the other network.
HandsOver(c) ==
  /\ Setting /\ conn[c].at = "handover" /\ Closes(c) /\ ap' = FALSE
  /\ UNCHANGED <<store, key, files, staged, app, station, status, task, spent, exposed>>

\* /enroll-certificate, /iot-ca-enrollment, /iot-ca-auto-enrollment: the status was looked
\* at before the body arrived, and another enrolment may have begun since.
AsksEnrolment(c) ==
  /\ Setting /\ conn[c].at = "body"
  /\ status' = "running"
  /\ staged' = staged \cup ({conn[c].kind} \cap {"acme"})
  /\ conn' = [conn EXCEPT ![c] = [@ EXCEPT !.at = "answer", !.snap = store]]
  /\ UNCHANGED <<store, key, files, app, station, ap, task, spent, exposed>>

\* _install_manual_certificates(): staged, validated, committed and saved without an await
InstallsManual(c) ==
  /\ Handles(c) /\ spent' = Requested /\ store # NoConfig
  /\ files' = Certificate("manual", store.number)
  /\ store' = WithMode(store, "manual", store.number)
  /\ UNCHANGED <<key, staged, app, station, ap, status, task, conn, exposed>>

\* A selection of the certificate has been validated.
Selected ==
  store.provisioned \/ \E c \in Conn : conn[c].kind \in {"install", "upload"}

\* /certificate: one file, as it comes, whatever is stored and whatever is under way.  Two such
\* requests leave a pair.
WritesFile(c) ==
  /\ Handles(c) /\ spent' = Requested
  /\ \E kind \in Supplied : \/ files' = [files EXCEPT !.cert = Half(kind, 0)]
                            \/ files' = [files EXCEPT !.key = Half(kind, 0)]
  /\ Exposes(When(Selected, "loose"))
  /\ UNCHANGED <<store, key, staged, app, station, ap, status, task, conn>>

-----------------------------------------------------------------------------
(* The end of setup.                                                       *)

\* Subject and issuer are the same.
SelfIssued(half) == half.kind \in {"self_signed", "other self-issued"}

\* Mutant: the certificate is looked at, and not whether the key is its own.
ValidCertificate(mode, pair) ==
  /\ mode # "none" /\ pair.cert.kind # "none"
  /\ mode = "self_signed" => SelfIssued(pair.cert)
  /\ mode \in Enrolment => ~SelfIssued(pair.cert)

\* _validate_certificate_files(): the pair loads, and its certificate is self-issued or is not,
\* as the mode asks; a manual one may be either.  Neither its name nor its origin is compared.
\* A trust anchor is there once an enrolment or a manual package was installed.
Valid(mode, pair) ==
  /\ mode # "none" /\ pair.cert.kind # "none" /\ pair.cert = pair.key
  /\ mode = "self_signed" => SelfIssued(pair.cert)
  /\ mode \in Enrolment => ~SelfIssued(pair.cert)

\* _prepare_certificate_selection() of the mode that is stored, which the page must name.
\* It looks at the certificate, and not at its key.
Prepared ==
  IF store.mode = "self_signed" /\ ~SelfIssued(files.cert)
  THEN Certificate("self_signed", store.host) ELSE files

\* mark_provisioned() of what the request had read, erase_bootstrap_key()
Provisions(c, config) ==
  /\ store' = [config EXCEPT !.provisioned = TRUE]
  /\ key' = FALSE
  /\ conn' = [conn EXCEPT ![c] = [@ EXCEPT !.at = "answer", !.kind = "finished"]]
  /\ Exposes(When(store # [config EXCEPT !.provisioned = store.provisioned], "stale"))

\* /install: with the application that is there, or one that is downloaded, or neither
\* (303 See Other, which ends like a refused request)
Installs(c) ==
  /\ Handles(c) /\ spent' = Requested /\ store # NoConfig
  /\ files' = Prepared /\ Valid(store.mode, Prepared)
  /\ IF app THEN Provisions(c, store) /\ UNCHANGED station
     ELSE /\ StartsJoin(store.net)
          /\ conn' = [conn EXCEPT ![c] = [at |-> "joining", kind |-> "install", snap |-> store]]
          /\ UNCHANGED <<store, key, exposed>>
  /\ UNCHANGED <<staged, app, ap, status, task>>

\* acquire_update_lock()
Locked == \E c \in Conn : conn[c].at = "receiving"

\* /upload: the configuration is read before the application is received.
Uploads(c) ==
  /\ Handles(c) /\ spent' = Requested
  /\ store # NoConfig /\ Valid(store.mode, files) /\ ~Locked
  /\ conn' = [conn EXCEPT ![c] = [at |-> "receiving", kind |-> "upload", snap |-> store]]
  /\ UNCHANGED <<store, key, files, staged, app, station, ap, status, task, exposed>>

\* stage_release(), which calls receive_bundle() as well
Downloads(c) ==
  /\ Setting /\ conn[c].at = "download" /\ ~Locked /\ Becomes(c, "receiving")
  /\ UNCHANGED <<store, key, files, staged, app, station, ap, status, task, spent,
                 exposed>>

Received(c) ==
  /\ Setting /\ conn[c].at = "receiving" /\ app' = TRUE
  /\ Provisions(c, conn[c].snap)
  /\ UNCHANGED <<files, staged, station, ap, status, task, spent>>

\* The release, the bundle or the lock is not to be had.
NotReceived(c) ==
  /\ Setting /\ conn[c].at \in {"download", "receiving"} /\ Closes(c)
  /\ UNCHANGED <<store, key, files, staged, app, station, ap, status, task, spent,
                 exposed>>

\* What follows an answer is done only when it could be sent.
AnswerSent(c) ==
  /\ Setting /\ conn[c].at = "answer"
  /\ CASE conn[c].kind = "configure" -> Becomes(c, "handover") /\ UNCHANGED task
       [] conn[c].kind = "finished" -> Becomes(c, "reboot") /\ UNCHANGED task
       [] OTHER ->
            /\ Closes(c)
            /\ task' = [task EXCEPT ![c] =
                 [at |-> "waiting", method |-> conn[c].kind, net |-> conn[c].snap.net,
                  number |-> conn[c].snap.host]]
  /\ UNCHANGED <<store, key, files, staged, app, station, ap, status, spent, exposed>>

AnswerFails(c) ==
  /\ Setting /\ conn[c].at = "answer" /\ Closes(c)
  /\ Exposes(When(conn[c].kind \in Enrolment, "orphaned")
             \cup When(conn[c].kind = "finished", "waiting"))
  /\ UNCHANGED <<store, key, files, staged, app, station, ap, status, task, spent>>

-----------------------------------------------------------------------------
(* The enrolment task.                                                     *)

\* install(), automatic_install(), _enroll_acme_certificate()
TaskStarts(c) ==
  /\ Setting /\ task[c].at = "waiting" /\ StartsJoin(task[c].net)
  /\ task' = [task EXCEPT ![c].at = "joining"]
  /\ UNCHANGED <<store, key, files, staged, app, ap, status, conn, spent, exposed>>

\* enroll() stages the trust anchor first, and awaits the CA.
TaskJoined(c) ==
  /\ Setting /\ task[c].at = "joining" /\ IsConnected
  /\ task' = [task EXCEPT ![c].at = "issuing"]
  /\ staged' = staged \cup ({task[c].method} \cap {"iot_ca"})
  /\ UNCHANGED <<store, key, files, app, station, ap, status, conn, spent, exposed>>

\* Mutant: only what goes wrong after the station has joined is caught.
EndsUncaught(c) ==
  /\ task' = [task EXCEPT ![c] = NoTask] /\ staged' = staged \ {task[c].method}
  /\ status' = IF task[c].at = "issuing" THEN "error" ELSE status

EndsInError(c) ==
  /\ task' = [task EXCEPT ![c] = NoTask] /\ staged' = staged \ {task[c].method}
  /\ status' = "error"

TaskFails(c) ==
  /\ Setting
  /\ \/ task[c].at = "joining" /\ GivesUp
     \/ task[c].at = "issuing" /\ UNCHANGED <<station, exposed>>
  /\ EndsInError(c)
  /\ UNCHANGED <<store, key, files, app, ap, conn, spent>>

\* commit_certificate_files() and update_certificate_settings(), without an await
Enrolled(c) ==
  /\ Setting /\ task[c].at = "issuing" /\ task[c].method \in staged
  /\ files' = Certificate(task[c].method, task[c].number)
  /\ store' = WithMode(store, task[c].method, task[c].number)
  /\ task' = [task EXCEPT ![c] = NoTask] /\ staged' = staged \ {task[c].method}
  /\ status' = "complete"
  /\ Exposes(When(task[c].number # store.number, "superseded"))
  /\ UNCHANGED <<key, app, station, ap, conn, spent>>

\* issue() has installed the portal's certificate when its trust anchor is refused.  The next
\* selection of the self-signed one makes another.
Halfway(c) ==
  /\ Setting /\ task[c].at = "issuing" /\ task[c].method = "acme"
  /\ files' = Certificate("acme", task[c].number)
  /\ EndsInError(c)
  /\ Exposes(When(\/ store.mode = "self_signed" /\ Selected
                  \/ store.mode \notin {"self_signed", "acme"}
                  \/ task[c].number # store.number, "halfway"))
  /\ UNCHANGED <<store, key, app, station, ap, conn, spent>>

-----------------------------------------------------------------------------
(* Restarts.                                                               *)

\* run(): what is stored decides, and setup begins with its access point.
StartsAgain ==
  /\ phase' = IF store.provisioned THEN "operating" ELSE IF key THEN "setup" ELSE "dead"
  /\ station' = Off /\ ap' = TRUE /\ status' = "idle"
  /\ task' = [c \in Conn |-> NoTask] /\ conn' = [c \in Conn |-> Idle]
  /\ UNCHANGED <<store, key, files, staged, app, exposed>>

Restarts(c) == phase = "setup" /\ conn[c].at = "reboot" /\ StartsAgain /\ UNCHANGED spent
PowerFails  == phase = "setup" /\ Fault /\ StartsAgain

-----------------------------------------------------------------------------
\* What has to go on once it was asked for
Proceeds(c) ==
  \/ BodyFails(c) \/ AsksEnrolment(c) \/ Joined(c) \/ NotJoined(c) \/ HandsOver(c)
  \/ Downloads(c) \/ Received(c) \/ NotReceived(c) \/ AnswerSent(c) \/ AnswerFails(c)
  \/ Restarts(c)

Runs(c) == TaskStarts(c) \/ TaskJoined(c) \/ TaskFails(c) \/ Enrolled(c) \/ Halfway(c)

Next ==
  \/ LinkUp \/ LinkDown \/ PowerFails
  \/ \E c \in Conn :
       \/ Request(c) \/ Configures(c) \/ InstallsManual(c) \/ WritesFile(c) \/ Installs(c)
       \/ Uploads(c) \/ Proceeds(c) \/ Runs(c)

\* Every await of a handler and of a task ends: bodies, answers, the station and the CA have
\* their time limits.
Fairness == \A c \in Conn : WF_vars(Proceeds(c) \/ Runs(c))

Spec == Init /\ [][Next]_vars /\ Fairness

-----------------------------------------------------------------------------
(* Properties.                                                             *)

Halves ==
  [kind : {"none", "self_signed", "manual"} \cup Enrolment, host : 0 .. MaxConfigures]
  \cup [kind : Supplied, host : {0}]
Stored ==
  [number : 0 .. MaxConfigures, net : Net \cup {"none"},
   mode : {"none", "self_signed", "manual"} \cup Enrolment, host : 0 .. MaxConfigures,
   provisioned : BOOLEAN]

\* The variables keep their types.
TypeOK ==
  /\ phase \in {"setup", "operating", "dead"} /\ store \in Stored /\ key \in BOOLEAN
  /\ files \in [cert : Halves, key : Halves] /\ staged \subseteq Enrolment
  /\ app \in BOOLEAN /\ ap \in BOOLEAN
  /\ station \in [state : {"off", "joining", "joined"}, net : Net \cup {"none"}]
  /\ status \in {"idle", "running", "complete", "error"}
  /\ exposed \subseteq Exposure

\* What the owner may have supplied instead, for each mode
Alike(mode) ==
  CASE mode = "self_signed" -> {"other self-issued"}
    [] mode = "manual"      -> Supplied
    [] OTHER                -> {"other issued"}

\* What setup leaves behind works: there is an application, and the device presents a pair
\* that belongs together.  It is the one its settings speak of, made for the name the owner
\* gave it last; or the owner put it there whole, file by file, and it is self-issued, or
\* not, as the settings say (_validate_certificate_selection(), and the order of each
\* route's commit and save).
LeavesWorking ==
  (Promised /\ store.provisioned) =>
    /\ app /\ store.host = store.number
    /\ \/ files = Certificate(store.mode, store.host)
       \/ \E kind \in Alike(store.mode) : files = Certificate(kind, 0)

\* A device can always be started: it is set up, or it has the password of its setup access
\* point, without which _run_initial_setup() refuses to start.
NotLockedOut == Promised => store.provisioned \/ key

\* There is always a way to the wizard: the access point, or a station that has joined or
\* tries to.
InTouch == (Promised /\ phase = "setup") => ap \/ station # Off

\* The owner of a device that is not set up can always reach it.
Reachable == NotLockedOut /\ InTouch

\* Whatever was begun ends: an enrolment does not keep the wizard waiting, and a device that
\* is set up restarts into its application.
Ends ==
  /\ (Promised /\ status = "running") ~> (status # "running" \/ ~Promised)
  /\ (Promised /\ store.provisioned) ~> (phase = "operating" \/ ~Promised)

\* A device that is set up can be reached as it was asked to be.
SetUp == TypeOK /\ LeavesWorking
=============================================================================
