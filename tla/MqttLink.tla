------------------------------- MODULE MqttLink ----------------------------------
(***************************************************************************)
(* The MQTT client under Delivery (lib/mqtt_as.py): packets, identifiers   *)
(* and acknowledgements on a connection that breaks, falls silent and      *)
(* comes back.                                                             *)
(*                                                                         *)
(* Two tasks call it, the worker, which publishes its messages one after   *)
(* the other, and the task that subscribes.  A call that fails is repeated *)
(* with a new identifier on the next connection.  Packets of the broker    *)
(* are read one at a time under the lock under which the calls write, and  *)
(* what it publishes goes into a ring from which the listener takes it.    *)
(* Delivery takes for granted what is promised here.                       *)
(***************************************************************************)
EXTENDS Integers, Sequences, FiniteSets

CONSTANTS
  Worker, Subscriber, \* the tasks
  Qos,                \* of the messages the worker publishes
  MaxRepubs,          \* config["max_repubs"]
  RingSize,           \* config["queue_len"]
  MaxMessages,        \* bounds of the model: messages published, ...
  MaxSubscribes,      \* ... subscriptions made, ...
  MaxIncoming,        \* ... messages of the broker, ...
  MaxTroubles         \* ... breaks, silences and late answers

Caller == {Worker, Subscriber}

ASSUME CallersAssumption == Worker # Subscriber
ASSUME RingAssumption    == RingSize \in Nat \ {0, 1} /\ MaxRepubs \in Nat
ASSUME LinkBounds ==
  /\ Qos \in {0, 1}
  /\ {MaxMessages, MaxSubscribes, MaxIncoming, MaxTroubles} \subseteq Nat

VARIABLES
  connected,  \* _isconnected
  silent,     \* packets no longer reach the other side
  pids,       \* rcv_pids
  newPid,     \* the generator of identifiers, which come round only after 65535 calls
  call,       \* the call of each task: where it stands, its identifier and repeats
  made,       \* how many calls each task has made
  out, inn,   \* packets on their way
  subscribed, \* the broker: of this connection
  received,   \* the broker: the last message it received
  issued,       \* the broker: messages it has sent
  ring,       \* MsgQueue: the slots, where to read and write, the messages discarded
  taken,      \* the last message the listener took
  troubles    \* bound

linkVars == <<connected, silent, pids, newPid, call, made, out, inn, subscribed, received,
              issued, ring, taken, troubles>>

NoCall == [at |-> "idle", pid |-> 0, repeats |-> 0]

\* main() has connected before the tasks begin.
LinkInit ==
  /\ connected = TRUE /\ silent = FALSE
  /\ pids = {} /\ newPid = 1
  /\ call = [c \in Caller |-> NoCall] /\ made = [c \in Caller |-> 0]
  /\ out = << >> /\ inn = << >>
  /\ subscribed = FALSE /\ received = 0 /\ issued = 0
  /\ ring = [slot |-> [i \in 0 .. RingSize - 1 |-> 0], read |-> 0, write |-> 0, discards |-> 0]
  /\ taken = 0 /\ troubles = 0

Stands(c, at) == call' = [call EXCEPT ![c] = [@ EXCEPT !.at = at]]

\* _reconnect: the connection is given up, and its socket closed with what it carries.
Reconnects ==
  /\ connected' = FALSE
  /\ out' = << >> /\ inn' = << >> /\ subscribed' = FALSE

KeepsConnection == UNCHANGED <<connected, out, inn, subscribed>>

Trouble == troubles < MaxTroubles /\ troubles' = troubles + 1

-----------------------------------------------------------------------------
(* The calls.                                                              *)

\* Publishes with QoS 0 await no acknowledgement.
Awaits(c) == c = Subscriber \/ Qos = 1

Calls(c) ==
  /\ call[c].at = "idle"
  /\ made[c] < IF c = Worker THEN MaxMessages ELSE MaxSubscribes
  /\ made' = [made EXCEPT ![c] = @ + 1]
  /\ Stands(c, "entering")
  /\ UNCHANGED <<connected, silent, pids, newPid, out, inn, subscribed, received, issued, ring,
                 taken, troubles>>

\* _connection() returns; the call has an identifier and awaits the lock.
Enters(c) ==
  /\ call[c].at = "entering" /\ connected
  /\ newPid' = newPid + 1
  /\ pids' = IF Awaits(c) THEN pids \cup {newPid} ELSE pids
  /\ call' = [call EXCEPT ![c] = [at |-> "locked", pid |-> newPid, repeats |-> 0]]
  /\ UNCHANGED <<connected, silent, made, out, inn, subscribed, received, issued, ring, taken,
                 troubles>>

\* The packet is written whole.
Writes(c) ==
  /\ call[c].at = "locked" /\ connected
  /\ out' = Append(out, [kind |-> IF c = Worker THEN "publish" ELSE "subscribe",
                         pid |-> call[c].pid, what |-> made[c]])
  /\ Stands(c, IF Awaits(c) THEN "waiting" ELSE "idle")
  /\ UNCHANGED <<connected, silent, pids, newPid, made, inn, subscribed, received, issued, ring,
                 taken, troubles>>

\* _await_pid, and the call returns.
Returns(c) ==
  /\ call[c].at = "waiting" /\ call[c].pid \notin pids
  /\ Stands(c, "idle")
  /\ UNCHANGED <<connected, silent, pids, newPid, made, out, inn, subscribed, received, issued,
                 ring, taken, troubles>>

\* The answer is late, or will never come: the message is published again as a duplicate, ...
Late == IF silent THEN UNCHANGED troubles ELSE Trouble

Overdue(c) == call[c].at = "waiting" /\ call[c].pid \in pids /\ connected

Republishes ==
  /\ Overdue(Worker) /\ call[Worker].repeats < MaxRepubs
  /\ Late
  /\ call' = [call EXCEPT ![Worker] =
                [at |-> "locked", pid |-> @.pid, repeats |-> @.repeats + 1]]
  /\ UNCHANGED <<connected, silent, pids, newPid, made, out, inn, subscribed, received, issued,
                 ring, taken>>

\* ... or the connection given up; so it is when a packet cannot be written.
GivesUp(c) ==
  /\ \/ Overdue(c) /\ (c = Worker => call[c].repeats = MaxRepubs)
     \/ call[c].at = "locked" /\ connected
  /\ Late
  /\ Stands(c, "entering") /\ Reconnects
  /\ UNCHANGED <<silent, pids, newPid, made, received, issued, ring, taken>>

\* isconnected() is false: the call begins again.
Notices(c) ==
  /\ ~connected
  /\ \/ call[c].at = "locked"
     \/ call[c].at = "waiting" /\ call[c].pid \in pids
  /\ Stands(c, "entering")
  /\ UNCHANGED <<connected, silent, pids, newPid, made, out, inn, subscribed, received, issued,
                 ring, taken, troubles>>

-----------------------------------------------------------------------------
(* The connection.                                                         *)

\* connect(), which takes seconds: by then the calls have noticed, which look every tenth.
Connects ==
  /\ ~connected /\ \A c \in Caller : call[c].at \in {"idle", "entering"}
  /\ connected' = TRUE /\ silent' = FALSE /\ pids' = {}
  /\ UNCHANGED <<newPid, call, made, out, inn, subscribed, received, issued, ring, taken,
                 troubles>>

\* The socket or the Wi-Fi fails.
Breaks ==
  /\ connected /\ Trouble
  /\ Reconnects
  /\ UNCHANGED <<silent, pids, newPid, call, made, received, issued, ring, taken>>

FallsSilent ==
  /\ connected /\ ~silent /\ Trouble
  /\ silent' = TRUE
  /\ UNCHANGED <<connected, pids, newPid, call, made, out, inn, subscribed, received, issued,
                 ring, taken>>

\* _keep_alive: four intervals without an answer.
KeepAlive ==
  /\ connected /\ silent
  /\ Reconnects
  /\ UNCHANGED <<silent, pids, newPid, call, made, received, issued, ring, taken, troubles>>

-----------------------------------------------------------------------------
(* Messages of the broker.                                                 *)

\* MsgQueue.put: a full ring gives up its oldest.
PutInRing(q, n) ==
  LET next == (q.write + 1) % RingSize IN
  [slot     |-> [q.slot EXCEPT ![q.write] = n],
   write    |-> next,
   read     |-> IF next = q.read THEN (q.read + 1) % RingSize ELSE q.read,
   discards |-> IF next = q.read THEN q.discards + 1 ELSE q.discards]

\* Mutant: an acknowledgement is taken for that of every call.
AcknowledgesAll(pid) == {}

\* Mutant: it is looked up and not taken off.
AcknowledgesNone(pid) == pids

Acknowledged(pid) == pids \ {pid}

\* wait_msg
Handles ==
  /\ connected /\ inn # << >>
  /\ LET packet == Head(inn) IN
       \/ /\ packet.kind = "publish"
          /\ ring' = PutInRing(ring, packet.what)
          /\ inn' = Tail(inn)
          /\ out' = Append(out, [packet EXCEPT !.kind = "ack"])
          /\ UNCHANGED <<connected, subscribed, pids>>
       \/ /\ packet.kind = "ack" /\ packet.pid \in pids
          /\ pids' = Acknowledged(packet.pid)
          /\ inn' = Tail(inn)
          /\ UNCHANGED <<connected, subscribed, out, ring>>
       \/ \* an acknowledgement that nobody awaits, as of a message sent twice
          /\ packet.kind = "ack" /\ packet.pid \notin pids
          /\ Reconnects
          /\ UNCHANGED <<pids, ring>>
  /\ UNCHANGED <<silent, newPid, call, made, received, issued, taken, troubles>>

\* MsgQueue.__anext__, by the task messages()
Takes ==
  /\ ring.read # ring.write
  /\ taken' = ring.slot[ring.read]
  /\ ring' = [ring EXCEPT !.read = (@ + 1) % RingSize]
  /\ KeepsConnection
  /\ UNCHANGED <<silent, pids, newPid, call, made, received, issued, troubles>>

-----------------------------------------------------------------------------
(* The broker.                                                             *)

BrokerReads ==
  /\ connected /\ ~silent /\ out # << >>
  /\ out' = Tail(out)
  /\ LET packet == Head(out) IN
       /\ received' = IF packet.kind = "publish" THEN packet.what ELSE received
       /\ subscribed' = (subscribed \/ packet.kind = "subscribe")
       /\ inn' = IF packet.kind = "subscribe" \/ (packet.kind = "publish" /\ Qos = 1)
                 THEN Append(inn, [packet EXCEPT !.kind = "ack"]) ELSE inn
  /\ UNCHANGED <<connected, silent, pids, newPid, call, made, issued, ring, taken, troubles>>

BrokerSends ==
  /\ connected /\ ~silent /\ subscribed /\ issued < MaxIncoming
  /\ issued' = issued + 1
  /\ inn' = Append(inn, [kind |-> "publish", pid |-> 0, what |-> issued'])
  /\ UNCHANGED <<connected, silent, pids, newPid, call, made, out, subscribed, received, ring,
                 taken, troubles>>

-----------------------------------------------------------------------------
LinkNext ==
  \/ \E c \in Caller : Calls(c) \/ Enters(c) \/ Writes(c) \/ Returns(c) \/ GivesUp(c) \/ Notices(c)
  \/ Republishes
  \/ Connects \/ Breaks \/ FallsSilent \/ KeepAlive
  \/ Handles \/ Takes
  \/ BrokerReads \/ BrokerSends

LinkSpec == LinkInit /\ [][LinkNext]_linkVars

-----------------------------------------------------------------------------
Packet == [kind : {"publish", "subscribe", "ack"}, pid : Nat, what : Nat]

LinkTypeOK ==
  /\ {connected, silent, subscribed} \subseteq BOOLEAN
  /\ pids \subseteq 1 .. newPid - 1
  /\ call \in [Caller -> [at : {"idle", "entering", "locked", "waiting"}, pid : 0 .. newPid - 1,
                          repeats : 0 .. MaxRepubs]]
  /\ out \in Seq(Packet) /\ inn \in Seq(Packet)
  /\ DOMAIN ring.slot = 0 .. RingSize - 1 /\ {ring.read, ring.write} \subseteq DOMAIN ring.slot

\* What the ring holds, oldest first.
Held == [i \in 1 .. (ring.write + RingSize - ring.read) % RingSize |->
           ring.slot[(ring.read + i - 1) % RingSize]]

\* The ring holds what the listener has not taken, in the order of the broker.
RingIsTrue ==
  \A i \in DOMAIN Held : (IF i = 1 THEN taken ELSE Held[i - 1]) < Held[i]

\* A message of the broker that is read comes last in the ring, and the oldest goes for it
\* only when the ring is full and it is counted.
Queues ==
  (ring' # ring /\ taken' = taken) =>
    /\ Held' = LET all == Append(Held, Head(inn).what)
               IN  IF Len(all) = RingSize THEN Tail(all) ELSE all
    /\ ring'.discards - ring.discards = Len(Held) + 1 - Len(Held')

\* A publish with QoS 1 that returns was received, and a subscribe that returns stands as
\* long as the connection does.
Acknowledges ==
  \A c \in Caller :
    (call[c].at = "waiting" /\ call'[c].at = "idle") =>
      IF c = Worker THEN received >= made[c] ELSE connected => subscribed

\* Repeats never take the broker back to an earlier message, and the listener never sees one
\* again.
InSequence == received' >= received /\ taken' >= taken

LinkIsTrue == [][LinkTypeOK' /\ RingIsTrue' /\ Queues /\ Acknowledges /\ InSequence]_linkVars

\* A call that has not returned never waits for what nobody will do: something is under way
\* for it, however connections broke and fell silent.
NobodyWaitsForever ==
  \A c \in Caller :
    call[c].at # "idle" =>
      ENABLED (\/ Enters(c) \/ Writes(c)
               \/ \E d \in Caller : Returns(d) \/ Notices(d)
               \/ Connects \/ KeepAlive \/ Handles \/ BrokerReads)
=============================================================================
