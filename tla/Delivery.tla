------------------------------- MODULE Delivery -------------------------------
(***************************************************************************)
(* How the state of the modules reaches Home Assistant: the bounded        *)
(* publish queue (message_broker.py), the MQTT worker, the configuration   *)
(* of a connection and the discovery of iotmd_runtime.py and               *)
(* home_assistant_service.py, over the reconnecting client lib/mqtt_as.py. *)
(*                                                                         *)
(* The value of a module is the number of its last reading; a subscriber   *)
(* that is shown number n after a larger one has gone back in time.  The   *)
(* tasks interleave at their awaits only, so each action below runs from   *)
(* one await to the next.  The broker announces the device's will when it  *)
(* loses the connection, and sessions are clean: a new connection has no   *)
(* subscriptions.                                                          *)
(***************************************************************************)
EXTENDS Naturals, Sequences, FiniteSets

CONSTANTS
  Devices,        \* the modules, in the order of the settings file
  Refresher,      \* tasks that repeat the discovery (ha_discovery_status, ...)
  None, Configure,  \* no module; the task that configures a connection
  CriticalLimit, StateLimit,
  Mode,           \* settings: qos and retain of the states of the modules
  MaxValue,       \* a bound of the model: readings of a module
  MaxFaults,      \* a bound of the model: breaks and failed calls
  MaxBirths       \* a bound of the model: restarts of Home Assistant

Module == {Devices[i] : i \in DOMAIN Devices}
Task   == Refresher \cup {Configure}

\* ha_status_topic(), then the command topic of each module.
Topics == <<None>> \o Devices

ASSUME DevicesAssumption == Devices \in Seq(Module) /\ Devices # <<>> /\ None \notin Module
ASSUME TaskAssumption    == Configure \notin Refresher
ASSUME LimitAssumption   == CriticalLimit \in Nat \ {0} /\ StateLimit \in Nat \ {0}
ASSUME ModeAssumption    == Mode \subseteq [qos : {0, 1}, retain : BOOLEAN]
ASSUME BoundAssumption   == /\ MaxValue \in Nat \ {0}
                            /\ MaxFaults \in Nat
                            /\ MaxBirths \in Nat

VARIABLES
  phase,    \* main(): MQTT not started, first configuration, on, given up
  mode,     \* mqtt_qos and mqtt_retain_state
  value,    \* the last reading of each module
  critical, \* BoundedPublishQueue._critical
  states,   \* BoundedPublishQueue._state, in the order of _state_order
  hand,     \* what the worker publishes, <<>> when it has nothing
  up,       \* the client is connected
  upEvent,  \* client.up
  epoch,    \* how many connections there have been
  conf,     \* the configuring task: its step, the next topic, the connection
            \* it began on
  disc,     \* the discoveries that run: module, step and snapshot of it
  birth,    \* Home Assistant's live "online", received and not handled
  subs,     \* broker: subscriptions of this connection
  avail,    \* broker: 0, or the connection on which the pass began that
            \* announced the device
  seen,     \* Home Assistant: what it shows of each module, 0 for nothing
  kept,     \* broker: the last state a driver published
  behind,   \* history: what is known to be missing at the broker
  faults,   \* bound
  births    \* bound

containers == <<critical, states>>
client     == <<up, upEvent, epoch>>
broker     == <<subs, avail, seen, kept>>
bounds     == <<faults, births>>
vars       == <<phase, mode, value, critical, states, hand, up, upEvent, epoch, conf,
                disc, birth, subs, avail, seen, kept, behind, faults, births>>

(***************************************************************************)
(* Messages                                                                *)
(***************************************************************************)
Kind    == {"state", "online", "config"}
Message == [kind : Kind, module : Module \cup {None}, value : 0 .. MaxValue,
            qos : {0, 1}, retain : BOOLEAN, driver : BOOLEAN, late : BOOLEAN,
            pass : 0 .. MaxFaults + 1]

Config(d) ==
  [kind |-> "config", module |-> d, value |-> 0, qos |-> 0, retain |-> TRUE,
   driver |-> FALSE, late |-> FALSE, pass |-> 0]

Online ==
  [kind |-> "online", module |-> None, value |-> 0, qos |-> mode.qos, retain |-> TRUE,
   driver |-> FALSE, late |-> FALSE, pass |-> conf.pass]

\* publish_state: the payload is read when the driver publishes.
DriverState(d, v) ==
  [kind |-> "state", module |-> d, value |-> v, qos |-> mode.qos, retain |-> mode.retain,
   driver |-> TRUE, late |-> FALSE, pass |-> 0]

\* publish_discovery: the payload was read before a sleep.
Snapshot(d, v) ==
  [kind |-> "state", module |-> d, value |-> v, qos |-> 0, retain |-> FALSE,
   driver |-> FALSE, late |-> (v # value[d]), pass |-> 0]

\* What a message is about: a module's state, or the availability (None).
About(msg) == IF msg.kind = "config" THEN {} ELSE {msg.module}

(***************************************************************************)
(* BoundedPublishQueue                                                     *)
(***************************************************************************)
IsCritical(msg) == msg.retain \/ msg.kind # "state"

Key(msg) == <<msg.module, msg.qos, msg.retain>>

PutCritical(msg) ==
  LET full == Len(critical) >= CriticalLimit
  IN  /\ critical' = Append(IF full THEN Tail(critical) ELSE critical, msg)
      /\ behind' = behind \cup IF full THEN About(Head(critical)) ELSE {}
      /\ UNCHANGED states

\* A state that waits is replaced and keeps its place.
Coalesced(msg) ==
  [i \in DOMAIN states |-> IF Key(states[i]) = Key(msg) THEN msg ELSE states[i]]

PutState(msg) ==
  LET full == Len(states) >= StateLimit
  IN  /\ IF \E i \in DOMAIN states : Key(states[i]) = Key(msg)
         THEN states' = Coalesced(msg) /\ UNCHANGED behind
         ELSE /\ states' = Append(IF full THEN Tail(states) ELSE states, msg)
              /\ behind' = behind \cup IF full THEN About(Head(states)) ELSE {}
      /\ UNCHANGED critical

Put(msg) == IF IsCritical(msg) THEN PutCritical(msg) ELSE PutState(msg)

\* Mutant: pop() for pop(0).
TakeNewest ==
  /\ critical # <<>>
  /\ hand' = <<critical[Len(critical)]>>
  /\ critical' = SubSeq(critical, 1, Len(critical) - 1)
  /\ UNCHANGED states

TakeCritical ==
  /\ critical # <<>>
  /\ hand' = <<Head(critical)>>
  /\ critical' = Tail(critical)
  /\ UNCHANGED states

TakeState ==
  /\ critical = <<>>
  /\ states # <<>>
  /\ hand' = <<Head(states)>>
  /\ states' = Tail(states)
  /\ UNCHANGED critical

(***************************************************************************)
(* The worker and the client                                               *)
(***************************************************************************)
\* The worker exists once the first connection is there.
Take ==
  /\ phase \in {"first", "on"}
  /\ hand = <<>>
  /\ TakeCritical \/ TakeState
  /\ UNCHANGED <<phase, mode, value, client, conf, disc, birth, broker, behind, bounds>>

\* A snapshot waits in the place of the driver's own state when neither is
\* retained and both have QoS 0; otherwise one may be sent after a newer other.
OneQueue       == mode.qos = 0 /\ ~mode.retain
Older(msg)     == msg.kind = "state" /\ msg.value < seen[msg.module]
OutOfDate(msg) == Older(msg) \/ msg.late
CatchesUp(msg) == msg.kind = "online" \/ msg.driver \/ OneQueue

\* What the broker and Home Assistant make of a message.
Receive(msg) ==
  /\ seen' = IF msg.kind = "state" THEN [seen EXCEPT ![msg.module] = msg.value] ELSE seen
  /\ kept' = IF msg.driver THEN [kept EXCEPT ![msg.module] = msg.value] ELSE kept
  /\ behind' = CASE OutOfDate(msg) -> behind \cup {msg.module}
               [] CatchesUp(msg) -> behind \ About(msg)
               [] OTHER -> behind

Deliver ==
  /\ up
  /\ hand # <<>>
  /\ Receive(hand[1])
  /\ avail' = IF hand[1].kind = "online" THEN hand[1].pass ELSE avail
  /\ hand' = <<>>
  /\ UNCHANGED <<phase, mode, value, containers, client, conf, disc, birth, subs, bounds>>

\* _publish_message_now: an error other than a lost connection drops the message.
PublishFails ==
  /\ up
  /\ hand # <<>>
  /\ faults < MaxFaults
  /\ faults' = faults + 1
  /\ behind' = behind \cup About(hand[1])
  /\ hand' = <<>>
  /\ UNCHANGED <<phase, mode, value, containers, client, conf, disc, birth, broker, births>>

\* What a break does to the message in hand: it was not sent and is sent again,
\* QoS 0 is lost in the socket, QoS 1 arrived and is sent again for want of a
\* PUBACK.
Unsent   == UNCHANGED <<hand, seen, kept, behind>>
Lost     == hand # <<>> /\ hand[1].qos = 0 /\ hand' = <<>> /\ UNCHANGED <<seen, kept, behind>>
Unacked  == hand # <<>> /\ hand[1].qos = 1 /\ Receive(hand[1]) /\ UNCHANGED hand

\* The connection is gone and the broker announces the will.
Break ==
  /\ up
  /\ faults < MaxFaults
  /\ faults' = faults + 1
  /\ up' = FALSE
  /\ Unsent \/ Lost \/ Unacked
  /\ avail' = 0
  /\ subs' = {}
  /\ UNCHANGED <<phase, mode, value, containers, upEvent, epoch, conf, disc, birth, births>>

\* _keep_connected, once the first connection has succeeded.
Reconnect ==
  /\ phase \in {"first", "on"}
  /\ ~up
  /\ up' = TRUE
  /\ upEvent' = TRUE
  /\ epoch' = epoch + 1
  /\ UNCHANGED <<phase, mode, value, containers, hand, conf, disc, birth, broker, behind, bounds>>

(***************************************************************************)
(* The drivers                                                             *)
(***************************************************************************)
\* A reading, and publish_state with it; drivers run before MQTT does.
DriverPublishes(d) ==
  /\ value[d] < MaxValue
  /\ value' = [value EXCEPT ![d] = @ + 1]
  /\ Put(DriverState(d, value[d] + 1))
  /\ UNCHANGED <<phase, mode, hand, client, conf, disc, birth, broker, bounds>>

(***************************************************************************)
(* Discovery: publish_discovery, in each task that runs it                 *)
(***************************************************************************)
NotRunning == [at |-> 0, step |-> "off", snap |-> 0]
AtModule(i)    == [at |-> i, step |-> "read", snap |-> 0]
Sleeping(i, v) == [at |-> i, step |-> "sleep", snap |-> v]

Discovery == [at : 0 .. Len(Devices), step : {"off", "read", "sleep"}, snap : 0 .. MaxValue]

\* The state of the module is read and its entities are put, then it sleeps.
\* A driver that fails leaves an empty state and no entities.
ReadsModule(t) ==
  /\ disc[t].step = "read"
  /\ LET d == Devices[disc[t].at] IN
       \/ /\ disc' = [disc EXCEPT ![t] = Sleeping(disc[t].at, value[d])]
          /\ Put(Config(d))
          /\ UNCHANGED faults
       \/ /\ faults < MaxFaults
          /\ faults' = faults + 1
          /\ disc' = [disc EXCEPT ![t] = Sleeping(disc[t].at, 0)]
          /\ UNCHANGED <<containers, behind>>
  /\ UNCHANGED <<phase, mode, value, hand, client, conf, birth, broker, births>>

\* After the sleep the state that was read is put; the next module, or the end.
PutsModule(t) ==
  /\ disc[t].step = "sleep"
  /\ Put(Snapshot(Devices[disc[t].at], disc[t].snap))
  /\ disc' = [disc EXCEPT ![t] = IF disc[t].at < Len(Devices)
                                  THEN AtModule(disc[t].at + 1) ELSE NotRunning]
  /\ UNCHANGED <<phase, mode, value, hand, client, conf, birth, broker, bounds>>

(***************************************************************************)
(* The connection                                                          *)
(***************************************************************************)
Passing(step, topic, pass) == [step |-> step, topic |-> topic, pass |-> pass]

Resting == Passing("rest", 0, 0)

Configuration == [step : {"rest", "subscribe", "online", "discover"},
                  topic : 0 .. Len(Topics), pass : 0 .. MaxFaults + 1]

\* Mutant: announced before it has subscribed.
BeginsOnline(pass) == conf' = Passing("online", 0, pass)

Begins(pass) == conf' = Passing("subscribe", 1, pass)

\* main(): the first connection is tried once.
ConnectFirst ==
  /\ phase = "start"
  /\ phase' = "first"
  /\ up' = TRUE
  /\ upEvent' = FALSE          \* set by connect() and cleared at once
  /\ epoch' = 1
  /\ Begins(1)
  /\ UNCHANGED <<mode, value, containers, hand, disc, birth, broker, behind, bounds>>

ConnectFails ==
  /\ phase = "start"
  /\ faults < MaxFaults
  /\ faults' = faults + 1
  /\ phase' = "failed"
  /\ UNCHANGED <<mode, value, containers, hand, client, conf, disc, birth, broker, behind, births>>

\* up(): the event is cleared before the connection is configured, and a
\* connection made meanwhile is configured next.
ClearUp == upEvent' = FALSE
LeaveUp == UNCHANGED upEvent

Wakes ==
  /\ phase = "on"
  /\ conf.step = "rest"
  /\ upEvent
  /\ ClearUp
  /\ Begins(epoch)
  /\ UNCHANGED <<phase, mode, value, containers, hand, up, epoch, disc, birth, broker,
                 behind, bounds>>

\* subscribe() returns when the broker has acknowledged it, on any connection.
Subscribe ==
  /\ conf.step = "subscribe"
  /\ up
  /\ subs' = subs \cup {Topics[conf.topic]}
  /\ conf' = IF conf.topic < Len(Topics)
             THEN Passing("subscribe", conf.topic + 1, conf.pass)
             ELSE Passing("online", 0, conf.pass)
  /\ UNCHANGED <<phase, mode, value, containers, hand, client, disc, birth, avail, seen, kept,
                 behind, bounds>>

Announce ==
  /\ conf.step = "online"
  /\ Put(Online)
  /\ conf' = Passing("discover", 0, conf.pass)
  /\ disc' = [disc EXCEPT ![Configure] = AtModule(1)]
  /\ UNCHANGED <<phase, mode, value, hand, client, birth, broker, bounds>>

\* The first configuration ends with the start of the tasks up and messages.
Configured ==
  /\ conf.step = "discover"
  /\ disc[Configure] = NotRunning
  /\ LeaveUp
  /\ conf' = Resting
  /\ phase' = "on"
  /\ UNCHANGED <<mode, value, containers, hand, up, epoch, disc, birth, broker, behind, bounds>>

(***************************************************************************)
(* Home Assistant                                                          *)
(***************************************************************************)
\* It forgets what is not retained, and a subscribed device hears of it.
HomeAssistantRestarts ==
  /\ phase = "on"
  /\ births < MaxBirths
  /\ births' = births + 1
  /\ seen' = IF mode.retain THEN kept ELSE [d \in Module |-> 0]
  /\ birth' = (birth \/ None \in subs)
  /\ UNCHANGED <<phase, mode, value, containers, hand, client, conf, disc, subs, avail, kept,
                 behind, faults>>

\* start_task refuses a task that runs; what it has announced already is missed.
Refreshes(t) ==
  /\ phase = "on"
  /\ birth
  /\ birth' = FALSE
  /\ IF disc[t] = NotRunning
     THEN disc' = [disc EXCEPT ![t] = AtModule(1)] /\ UNCHANGED behind
     ELSE behind' = behind \cup Module /\ UNCHANGED disc
  /\ UNCHANGED <<phase, mode, value, containers, hand, client, conf, broker, bounds>>

(***************************************************************************)
(* The specification                                                       *)
(***************************************************************************)
Init ==
  /\ phase = "start"
  /\ mode \in Mode
  /\ value = [d \in Module |-> 0]
  /\ critical = <<>> /\ states = <<>> /\ hand = <<>>
  /\ up = FALSE /\ upEvent = FALSE /\ epoch = 0
  /\ conf = Resting
  /\ disc = [t \in Task |-> NotRunning]
  /\ birth = FALSE
  /\ subs = {} /\ avail = 0
  /\ seen = [d \in Module |-> 0] /\ kept = [d \in Module |-> 0]
  /\ behind = {}
  /\ faults = 0 /\ births = 0

Discovers(t) == ReadsModule(t) \/ PutsModule(t)

Next ==
  \/ Take \/ Deliver \/ PublishFails
  \/ Break \/ Reconnect
  \/ ConnectFirst \/ ConnectFails
  \/ Wakes \/ Subscribe \/ Announce \/ Configured
  \/ HomeAssistantRestarts
  \/ \E d \in Module : DriverPublishes(d)
  \/ \E t \in Task : Discovers(t)
  \/ \E t \in Refresher : Refreshes(t)

\* The device's own tasks go on and a lost connection comes back; breaks, failed
\* calls, readings and restarts of Home Assistant need not happen.
Fairness ==
  /\ WF_vars(Take) /\ WF_vars(Deliver)
  /\ WF_vars(Reconnect)
  /\ WF_vars(ConnectFirst)
  /\ WF_vars(Wakes) /\ WF_vars(Subscribe) /\ WF_vars(Announce) /\ WF_vars(Configured)
  /\ \A t \in Task : WF_vars(Discovers(t))
  /\ WF_vars(\E t \in Refresher : Refreshes(t))

Spec == Init /\ [][Next]_vars /\ Fairness

(***************************************************************************)
(* Properties                                                              *)
(***************************************************************************)
TypeOK ==
  /\ phase \in {"start", "first", "on", "failed"}
  /\ mode \in Mode
  /\ value \in [Module -> 0 .. MaxValue]
  /\ critical \in Seq(Message) /\ Len(critical) <= CriticalLimit
  /\ states \in Seq(Message) /\ Len(states) <= StateLimit
  /\ hand \in Seq(Message) /\ Len(hand) <= 1
  /\ up \in BOOLEAN /\ upEvent \in BOOLEAN
  /\ epoch \in 0 .. MaxFaults + 1
  /\ conf \in Configuration
  /\ disc \in [Task -> Discovery]
  /\ birth \in BOOLEAN
  /\ subs \subseteq Module \cup {None}
  /\ avail \in 0 .. MaxFaults + 1
  /\ seen \in [Module -> 0 .. MaxValue] /\ kept \in [Module -> 0 .. MaxValue]
  /\ behind \subseteq Module \cup {None}
  /\ faults \in 0 .. MaxFaults /\ births \in 0 .. MaxBirths

\* No message takes a module back in time, except a discovery's snapshot that was
\* out of date when it was put; states that are retained or sent with QoS 1 wait
\* in another place than the discovery's, and only the driver's own keep order.
Fresh ==
  [][\A msg \in {hand[i] : i \in DOMAIN hand} :
       (hand' = <<>> /\ seen' # seen) =>
          /\ (msg.kind = "state" /\ msg.driver) => msg.value >= kept[msg.module]
          /\ (Older(msg) /\ OneQueue) => msg.late]_vars

\* A device that a pass of this connection announced hears every command: all its
\* subscriptions are in place on this connection.
OnlineMeansSubscribed ==
  (avail # 0 /\ avail = epoch) => subs = Module \cup {None}

\* Whatever connections break in whatever step, in the end the device is connected,
\* subscribed and announced, and Home Assistant shows the last state of each
\* module, unless it is known that the message was dropped, failed, was out of
\* date or was refused.
Settled ==
  /\ up
  /\ subs = Module \cup {None}
  /\ avail # 0 \/ None \in behind
  /\ \A d \in Module : seen[d] = value[d] \/ d \in behind

Settles == <>[]((phase \in {"first", "on"}) => Settled)
==============================================================================
