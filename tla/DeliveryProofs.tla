---------------------------- MODULE DeliveryProofs ----------------------------
(***************************************************************************)
(* Theorems about Delivery for every list of modules, every limit of the   *)
(* queue, every setting and any number of readings, faults and restarts;   *)
(* about the client below it (MqttLink); and about the commands that are   *)
(* delivered (Commands).                                                   *)
(***************************************************************************)
EXTENDS Delivery, MqttLink, Commands, SequenceTheorems, TLAPS

Everything == Module \cup {None}

\* A task that works has a module, or a topic, to work on.
Positions ==
  /\ \A t \in Task : disc[t].step # "off" => disc[t].at # 0
  /\ conf.step = "subscribe" => conf.topic # 0

\* Every connection but the first follows a break.
Connections ==
  /\ up => epoch <= faults + 1
  /\ ~up => epoch <= faults
  /\ phase = "start" => epoch = 0

\* An announcement tells of a pass that has begun, and when that pass began on
\* the connection that is up, everything is subscribed.
Told(msg) ==
  /\ msg.pass <= epoch
  /\ (msg.kind = "online" /\ up /\ msg.pass = epoch) => subs = Everything

Announcements ==
  /\ \A i \in DOMAIN critical : Told(critical[i])
  /\ \A i \in DOMAIN states : states[i].kind = "state" /\ Told(states[i])
  /\ \A i \in DOMAIN hand : Told(hand[i])
  /\ avail <= epoch
  /\ ~up => avail = 0

\* The pass itself: what it has subscribed since it began on this connection.
Pass ==
  /\ conf.pass <= epoch
  /\ (up /\ conf.pass = epoch /\ conf.step = "subscribe") =>
        \A i \in 1 .. conf.topic - 1 : Topics[i] \in subs
  /\ (up /\ conf.pass = epoch /\ conf.step \in {"online", "discover"}) => subs = Everything

\* The inductive invariant.
IInv == TypeOK /\ Positions /\ Connections /\ Announcements /\ Pass /\ OnlineMeansSubscribed

-----------------------------------------------------------------------------
(* Messages and the queue.                                                 *)

LEMMA TopicFacts ==
  /\ Len(Devices) \in Nat /\ Len(Devices) >= 1
  /\ \A i \in 1 .. Len(Devices) : Devices[i] \in Module
  /\ Len(Topics) = Len(Devices) + 1
  /\ \A i \in 1 .. Len(Topics) : Topics[i] \in Everything
  /\ \A x \in Everything : \E i \in 1 .. Len(Topics) : Topics[i] = x
<1>1. Devices \in Seq(Module) /\ Devices # <<>>
  BY DevicesAssumption
<1>2. Len(Devices) \in Nat /\ Len(Devices) >= 1 /\ DOMAIN Devices = 1 .. Len(Devices)
  BY <1>1, EmptySeq, LenProperties
<1>3. \A i \in 1 .. Len(Devices) : Devices[i] \in Module
  BY <1>1, <1>2, ElementOfSeq
<1>4. <<None>> \in Seq(Everything) /\ Devices \in Seq(Everything) /\ Len(<<None>>) = 1
  BY <1>1, <1>2, <1>3 DEF Everything
<1>5. /\ Topics \in Seq(Everything)
      /\ Len(Topics) = 1 + Len(Devices)
      /\ \A i \in 1 .. 1 + Len(Devices) :
            Topics[i] = IF i <= 1 THEN <<None>>[i] ELSE Devices[i - 1]
  BY <1>4, ConcatProperties DEF Topics
<1>6. Topics[1] = None /\ \A i \in 1 .. Len(Devices) : Topics[i + 1] = Devices[i]
  BY <1>2, <1>5
<1>7. \A i \in 1 .. Len(Topics) : Topics[i] \in Everything
  BY <1>5, <1>2, ElementOfSeq
<1>8. ASSUME NEW x \in Everything PROVE \E i \in 1 .. Len(Topics) : Topics[i] = x
  <2>1. CASE x = None
    BY <2>1, <1>2, <1>5, <1>6
  <2>2. CASE x \in Module
    <3>1. PICK i \in 1 .. Len(Devices) : Devices[i] = x
      BY <2>2, <1>2 DEF Module
    <3>2. i + 1 \in 1 .. Len(Topics) /\ Topics[i + 1] = x
      BY <3>1, <1>2, <1>5, <1>6
    <3> QED
      BY <3>2
  <2> QED
    BY <2>1, <2>2 DEF Everything
<1> QED
  BY <1>2, <1>3, <1>5, <1>7, <1>8

LEMMA BoundFacts ==
  /\ MaxValue \in Nat /\ MaxFaults \in Nat /\ MaxBirths \in Nat
  /\ CriticalLimit \in Nat /\ CriticalLimit >= 1
  /\ StateLimit \in Nat /\ StateLimit >= 1
BY BoundAssumption, LimitAssumption

LEMMA ConfigFacts ==
  ASSUME NEW d \in Module
  PROVE  Config(d) \in Message /\ Config(d).kind = "config" /\ Config(d).pass = 0
BY BoundFacts DEF Config, Message, Kind

LEMMA OnlineFacts ==
  ASSUME TypeOK
  PROVE  Online \in Message /\ Online.kind = "online" /\ Online.pass = conf.pass
<1>1. mode.qos \in {0, 1} /\ conf.pass \in 0 .. MaxFaults + 1
  BY ModeAssumption DEF TypeOK, Configuration
<1> QED
  BY <1>1, BoundFacts DEF Online, Message, Kind

LEMMA DriverStateFacts ==
  ASSUME TypeOK, NEW d \in Module, NEW v \in 0 .. MaxValue
  PROVE  /\ DriverState(d, v) \in Message
         /\ DriverState(d, v).kind = "state" /\ DriverState(d, v).pass = 0
<1>1. mode.qos \in {0, 1} /\ mode.retain \in BOOLEAN
  BY ModeAssumption DEF TypeOK
<1> QED
  BY <1>1, BoundFacts DEF DriverState, Message, Kind

LEMMA SnapshotFacts ==
  ASSUME NEW d \in Module, NEW v \in 0 .. MaxValue
  PROVE  /\ Snapshot(d, v) \in Message
         /\ Snapshot(d, v).kind = "state" /\ Snapshot(d, v).pass = 0
BY BoundFacts DEF Snapshot, Message, Kind

LEMMA AboutFacts ==
  ASSUME NEW msg \in Message
  PROVE  About(msg) \subseteq Everything
BY DEF About, Message, Everything

LEMMA TailFacts ==
  ASSUME NEW S, NEW q \in Seq(S), q # <<>>
  PROVE  /\ Len(q) \in Nat /\ Len(q) >= 1
         /\ Head(q) \in S /\ Head(q) = q[1] /\ 1 \in DOMAIN q
         /\ Tail(q) \in Seq(S)
         /\ Len(Tail(q)) = Len(q) - 1
         /\ \A i \in DOMAIN Tail(q) : \E j \in DOMAIN q : Tail(q)[i] = q[j]
<1>1. /\ Len(q) \in Nat /\ DOMAIN q = 1 .. Len(q) /\ Len(q) >= 1
      /\ Tail(q) \in Seq(S) /\ Len(Tail(q)) = Len(q) - 1
      /\ \A i \in 1 .. Len(Tail(q)) : Tail(q)[i] = q[i + 1]
  BY HeadTailProperties, LenProperties, EmptySeq
<1>2. Head(q) = q[1] /\ q[1] \in S
  BY <1>1, HeadTailProperties, ElementOfSeq
<1>3. DOMAIN Tail(q) = 1 .. Len(q) - 1
  BY <1>1, LenProperties
<1>4. \A i \in DOMAIN Tail(q) : i + 1 \in DOMAIN q /\ Tail(q)[i] = q[i + 1]
  BY <1>1, <1>3
<1> QED
  BY <1>1, <1>2, <1>4

LEMMA AppendFacts ==
  ASSUME NEW S, NEW q \in Seq(S), NEW x \in S
  PROVE  /\ Append(q, x) \in Seq(S)
         /\ Len(q) \in Nat
         /\ Len(Append(q, x)) = Len(q) + 1
         /\ \A i \in DOMAIN Append(q, x) :
               Append(q, x)[i] = x \/ \E j \in DOMAIN q : Append(q, x)[i] = q[j]
<1>1. /\ Append(q, x) \in Seq(S) /\ Len(q) \in Nat /\ DOMAIN q = 1 .. Len(q)
      /\ Len(Append(q, x)) = Len(q) + 1
      /\ \A i \in 1 .. Len(q) : Append(q, x)[i] = q[i]
      /\ Append(q, x)[Len(q) + 1] = x
  BY AppendProperties, LenProperties
<1>2. DOMAIN Append(q, x) = 1 .. Len(q) + 1
  BY <1>1, LenProperties
<1> QED
  BY <1>1, <1>2

\* A message that is put drops at most the oldest of its container, and adds
\* nothing but itself.
LEMMA PutFacts ==
  ASSUME TypeOK, NEW msg \in Message, Put(msg)
  PROVE  /\ critical' \in Seq(Message) /\ Len(critical') <= CriticalLimit
         /\ states' \in Seq(Message) /\ Len(states') <= StateLimit
         /\ behind' \subseteq Everything
         /\ \A i \in DOMAIN critical' :
               critical'[i] = msg \/ \E j \in DOMAIN critical : critical'[i] = critical[j]
         /\ \A i \in DOMAIN states' :
               \/ states'[i] = msg /\ msg.kind = "state"
               \/ \E j \in DOMAIN states : states'[i] = states[j]
<1>1. /\ critical \in Seq(Message) /\ Len(critical) <= CriticalLimit
      /\ states \in Seq(Message) /\ Len(states) <= StateLimit
      /\ behind \subseteq Everything
      /\ Len(critical) \in Nat /\ Len(states) \in Nat
  BY LenProperties DEF TypeOK, Everything
<1>2. CASE IsCritical(msg)
  <2> DEFINE rest == IF Len(critical) >= CriticalLimit THEN Tail(critical) ELSE critical
  <2>1. /\ critical' = Append(rest, msg) /\ UNCHANGED states
        /\ behind' = behind \cup IF Len(critical) >= CriticalLimit THEN About(Head(critical))
                                ELSE {}
    BY <1>2 DEF Put, PutCritical
  <2>2. CASE Len(critical) >= CriticalLimit
    <3>1. critical # <<>>
      BY <2>2, BoundFacts, EmptySeq
    <3>2. /\ rest \in Seq(Message) /\ Len(rest) = Len(critical) - 1
          /\ \A i \in DOMAIN rest : \E j \in DOMAIN critical : rest[i] = critical[j]
          /\ Head(critical) \in Message
      BY <1>1, <2>2, <3>1, TailFacts
    <3>3. /\ critical' \in Seq(Message) /\ Len(critical') = Len(critical)
          /\ \A i \in DOMAIN critical' :
                critical'[i] = msg \/ \E j \in DOMAIN rest : critical'[i] = rest[j]
      <4> HIDE DEF rest
      <4> QED
        BY <1>1, <2>1, <3>2, AppendFacts
    <3>4. About(Head(critical)) \subseteq Everything
      BY <3>2, AboutFacts
    <3> HIDE DEF rest
    <3> QED
      BY <1>1, <2>1, <2>2, <3>2, <3>3, <3>4
  <2>3. CASE ~(Len(critical) >= CriticalLimit)
    <3>1. critical' = Append(critical, msg) /\ behind' = behind
      BY <2>1, <2>3
    <3>2. /\ critical' \in Seq(Message) /\ Len(critical') = Len(critical) + 1
          /\ \A i \in DOMAIN critical' :
                critical'[i] = msg \/ \E j \in DOMAIN critical : critical'[i] = critical[j]
      BY <1>1, <3>1, AppendFacts
    <3> QED
      BY <1>1, <2>1, <2>3, <3>1, <3>2, BoundFacts
  <2> QED
    BY <2>2, <2>3
<1>3. CASE ~IsCritical(msg)
  <2>1. PutState(msg) /\ UNCHANGED critical /\ msg.kind = "state"
    BY <1>3 DEF Put, PutState, IsCritical
  <2>2. CASE \E i \in DOMAIN states : Key(states[i]) = Key(msg)
    <3>1. states' = Coalesced(msg) /\ behind' = behind
      BY <2>1, <2>2 DEF PutState
    <3>2. /\ DOMAIN states = 1 .. Len(states)
          /\ \A i \in 1 .. Len(states) : states[i] \in Message
      BY <1>1, LenProperties, ElementOfSeq
    <3>3. states' = [i \in 1 .. Len(states) |->
                       IF Key(states[i]) = Key(msg) THEN msg ELSE states[i]]
      BY <3>1, <3>2 DEF Coalesced
    <3>4. states' \in [1 .. Len(states) -> Message]
      BY <3>2, <3>3
    <3>5. states' \in Seq(Message) /\ Len(states') = Len(states)
      BY <1>1, <3>4
    <3> QED
      BY <1>1, <2>1, <3>1, <3>2, <3>3, <3>5
  <2>3. CASE ~ \E i \in DOMAIN states : Key(states[i]) = Key(msg)
    <3> DEFINE rest == IF Len(states) >= StateLimit THEN Tail(states) ELSE states
    <3>1. /\ states' = Append(rest, msg)
          /\ behind' = behind \cup IF Len(states) >= StateLimit THEN About(Head(states)) ELSE {}
      BY <2>1, <2>3 DEF PutState
    <3>2. CASE Len(states) >= StateLimit
      <4>1. states # <<>>
        BY <3>2, BoundFacts, EmptySeq
      <4>2. /\ rest \in Seq(Message) /\ Len(rest) = Len(states) - 1
            /\ \A i \in DOMAIN rest : \E j \in DOMAIN states : rest[i] = states[j]
            /\ Head(states) \in Message
        BY <1>1, <3>2, <4>1, TailFacts
      <4>3. /\ states' \in Seq(Message) /\ Len(states') = Len(states)
            /\ \A i \in DOMAIN states' :
                  states'[i] = msg \/ \E j \in DOMAIN rest : states'[i] = rest[j]
        <5> HIDE DEF rest
        <5> QED
          BY <1>1, <3>1, <4>2, AppendFacts
      <4>4. About(Head(states)) \subseteq Everything
        BY <4>2, AboutFacts
      <4> HIDE DEF rest
      <4> QED
        BY <1>1, <2>1, <3>1, <3>2, <4>2, <4>3, <4>4
    <3>3. CASE ~(Len(states) >= StateLimit)
      <4>1. states' = Append(states, msg) /\ behind' = behind
        BY <3>1, <3>3
      <4>2. /\ states' \in Seq(Message) /\ Len(states') = Len(states) + 1
            /\ \A i \in DOMAIN states' :
                  states'[i] = msg \/ \E j \in DOMAIN states : states'[i] = states[j]
        BY <1>1, <4>1, AppendFacts
      <4> QED
        BY <1>1, <2>1, <3>3, <4>1, <4>2, BoundFacts
    <3> QED
      BY <3>2, <3>3
  <2> QED
    BY <2>2, <2>3
<1> QED
  BY <1>2, <1>3

-----------------------------------------------------------------------------
(* Positions of the tasks.                                                 *)

LEMMA DiscoveryFacts ==
  /\ NotRunning \in Discovery /\ NotRunning.step = "off"
  /\ \A i \in 1 .. Len(Devices) : AtModule(i) \in Discovery /\ AtModule(i).at = i
  /\ \A i \in 1 .. Len(Devices), v \in 0 .. MaxValue :
        Sleeping(i, v) \in Discovery /\ Sleeping(i, v).at = i
  /\ \A r \in Discovery : /\ r.at \in 0 .. Len(Devices)
                          /\ r.snap \in 0 .. MaxValue
                          /\ r.step \in {"off", "read", "sleep"}
BY TopicFacts, BoundFacts DEF NotRunning, AtModule, Sleeping, Discovery

LEMMA PassFacts ==
  /\ \A topic \in 0 .. Len(Topics), pass \in 0 .. MaxFaults + 1,
        step \in {"rest", "subscribe", "online", "discover"} :
        /\ Passing(step, topic, pass) \in Configuration
        /\ Passing(step, topic, pass).step = step
        /\ Passing(step, topic, pass).topic = topic
        /\ Passing(step, topic, pass).pass = pass
  /\ \A c \in Configuration : /\ c.step \in {"rest", "subscribe", "online", "discover"}
                              /\ c.topic \in 0 .. Len(Topics)
                              /\ c.pass \in 0 .. MaxFaults + 1
  /\ Resting \in Configuration /\ Resting.step = "rest" /\ Resting.pass = 0
BY TopicFacts, BoundFacts DEF Passing, Resting, Configuration

LEMMA MessageFacts ==
  \A msg \in Message : /\ msg.kind \in {"state", "online", "config"}
                       /\ msg.module \in Everything
                       /\ msg.value \in 0 .. MaxValue
                       /\ msg.pass \in 0 .. MaxFaults + 1
BY BoundFacts DEF Message, Kind, Everything

-----------------------------------------------------------------------------
(* The invariant.                                                          *)

LEMMA PutKeeps ==
  ASSUME IInv, NEW msg \in Message, Told(msg), Put(msg),
         UNCHANGED <<up, epoch, subs, hand, avail>>
  PROVE  Announcements'
<1>1. \A x : Told(x) => Told(x)'
  BY DEF Told
<1>2. Announcements
  BY DEF IInv
<1>3. \A i \in DOMAIN critical' : Told(critical'[i])
  BY <1>2, PutFacts DEF IInv, Announcements
<1>4. \A i \in DOMAIN states' : states'[i].kind = "state" /\ Told(states'[i])
  BY <1>2, PutFacts DEF IInv, Announcements
<1> QED
  BY <1>2, <1>3, <1>4 DEF Announcements, Told

THEOREM Initial == Init => IInv
<1> SUFFICES ASSUME Init PROVE IInv
  OBVIOUS
<1>1. TypeOK
  <2>1. <<>> \in Seq(Message) /\ Len(<<>>) = 0
    OBVIOUS
  <2>2. /\ critical \in Seq(Message) /\ Len(critical) <= CriticalLimit
        /\ states \in Seq(Message) /\ Len(states) <= StateLimit
        /\ hand \in Seq(Message) /\ Len(hand) <= 1
    BY <2>1, BoundFacts DEF Init
  <2>3. /\ value \in [Module -> 0 .. MaxValue]
        /\ seen \in [Module -> 0 .. MaxValue]
        /\ kept \in [Module -> 0 .. MaxValue]
        /\ disc \in [Task -> Discovery]
        /\ conf \in Configuration
    BY BoundFacts, DiscoveryFacts, PassFacts DEF Init
  <2>4. /\ phase \in {"start", "first", "on", "failed"} /\ mode \in Mode
        /\ up \in BOOLEAN /\ upEvent \in BOOLEAN /\ birth \in BOOLEAN
        /\ subs \subseteq Module \cup {None} /\ behind \subseteq Module \cup {None}
    BY DEF Init
  <2>5. /\ epoch \in 0 .. MaxFaults + 1 /\ avail \in 0 .. MaxFaults + 1
        /\ faults \in 0 .. MaxFaults /\ births \in 0 .. MaxBirths
    BY BoundFacts DEF Init
  <2> QED
    BY <2>2, <2>3, <2>4, <2>5 DEF TypeOK
<1>2. Positions /\ Connections /\ Pass /\ OnlineMeansSubscribed
  BY DiscoveryFacts, PassFacts, BoundFacts
  DEF Init, Positions, Connections, Pass, OnlineMeansSubscribed
<1>3. Announcements
  BY EmptySeq DEF Init, Announcements
<1> QED
  BY <1>1, <1>2, <1>3 DEF IInv

LEMMA TakeStep ==
  ASSUME IInv, Take
  PROVE  IInv'
<1>1. /\ UNCHANGED <<phase, mode, value, up, upEvent, epoch, conf, disc, birth, subs, avail,
                     seen, kept, behind, faults, births>>
      /\ critical \in Seq(Message) /\ states \in Seq(Message)
      /\ Len(critical) \in Nat /\ Len(states) \in Nat
      /\ TypeOK /\ Announcements
  BY LenProperties DEF IInv, TypeOK, Take, client, broker, bounds
<1>2. CASE TakeCritical
  <2>1. /\ critical # <<>> /\ hand' = <<Head(critical)>>
        /\ critical' = Tail(critical) /\ states' = states
    BY <1>2 DEF TakeCritical
  <2>2. /\ Head(critical) \in Message /\ Head(critical) = critical[1] /\ 1 \in DOMAIN critical
        /\ critical' \in Seq(Message) /\ Len(critical') = Len(critical) - 1
        /\ \A i \in DOMAIN critical' : \E j \in DOMAIN critical : critical'[i] = critical[j]
    BY <1>1, <2>1, TailFacts
  <2>3. hand' \in Seq(Message) /\ Len(hand') <= 1 /\ \A i \in DOMAIN hand' : hand'[i] = critical[1]
    BY <2>1, <2>2
  <2>4. TypeOK'
    BY <1>1, <2>1, <2>2, <2>3, BoundFacts DEF TypeOK
  <2>5. Announcements'
    BY <1>1, <2>1, <2>2, <2>3 DEF Announcements, Told
  <2> QED
    BY <1>1, <2>4, <2>5 DEF IInv, Positions, Connections, Pass, OnlineMeansSubscribed
<1>3. CASE TakeState
  <2>1. states # <<>> /\ hand' = <<Head(states)>> /\ states' = Tail(states) /\ critical' = critical
    BY <1>3 DEF TakeState
  <2>2. /\ Head(states) \in Message /\ Head(states) = states[1] /\ 1 \in DOMAIN states
        /\ states' \in Seq(Message) /\ Len(states') = Len(states) - 1
        /\ \A i \in DOMAIN states' : \E j \in DOMAIN states : states'[i] = states[j]
    BY <1>1, <2>1, TailFacts
  <2>3. hand' \in Seq(Message) /\ Len(hand') <= 1 /\ \A i \in DOMAIN hand' : hand'[i] = states[1]
    BY <2>1, <2>2
  <2>4. TypeOK'
    BY <1>1, <2>1, <2>2, <2>3, BoundFacts DEF TypeOK
  <2>5. Announcements'
    BY <1>1, <2>1, <2>2, <2>3 DEF Announcements, Told
  <2> QED
    BY <1>1, <2>4, <2>5 DEF IInv, Positions, Connections, Pass, OnlineMeansSubscribed
<1> QED
  BY <1>2, <1>3 DEF Take

\* What the broker and Home Assistant hold stays well typed.
LEMMA ReceiveFacts ==
  ASSUME TypeOK, NEW msg \in Message, Receive(msg)
  PROVE  /\ seen' \in [Module -> 0 .. MaxValue] /\ kept' \in [Module -> 0 .. MaxValue]
         /\ behind' \subseteq Everything
<1>1. /\ seen \in [Module -> 0 .. MaxValue] /\ kept \in [Module -> 0 .. MaxValue]
      /\ behind \subseteq Everything /\ msg.value \in 0 .. MaxValue /\ msg.module \in Everything
  BY MessageFacts DEF TypeOK, Everything
<1>2. seen' \in [Module -> 0 .. MaxValue] /\ kept' \in [Module -> 0 .. MaxValue]
  BY <1>1 DEF Receive
<1>3. behind' \in {behind \cup {msg.module}, behind \ About(msg), behind}
  BY DEF Receive
<1> QED
  BY <1>1, <1>2, <1>3

LEMMA HandFacts ==
  ASSUME IInv, hand # <<>>
  PROVE  hand[1] \in Message /\ Told(hand[1])
<1>1. hand \in Seq(Message)
  BY DEF IInv, TypeOK
<1>2. 1 \in DOMAIN hand /\ hand[1] \in Message
  BY <1>1, TailFacts
<1> QED
  BY <1>2 DEF IInv, Announcements

LEMMA DeliverStep ==
  ASSUME IInv, Deliver
  PROVE  IInv'
<1>1. hand[1] \in Message /\ Told(hand[1]) /\ Receive(hand[1]) /\ hand' = <<>> /\ up
  BY HandFacts DEF Deliver
<1>2. /\ UNCHANGED <<phase, mode, value, critical, states, up, upEvent, epoch, conf, disc,
                     birth, subs, faults, births>>
      /\ avail' = IF hand[1].kind = "online" THEN hand[1].pass ELSE avail
      /\ TypeOK /\ Announcements /\ OnlineMeansSubscribed
  BY DEF IInv, Deliver, containers, client, bounds
<1>3. avail' \in 0 .. MaxFaults + 1
  BY <1>1, <1>2, MessageFacts DEF TypeOK
<1>4. hand' \in Seq(Message) /\ Len(hand') <= 1 /\ DOMAIN hand' = {}
  BY <1>1
<1>5. TypeOK'
  BY <1>1, <1>2, <1>3, <1>4, ReceiveFacts DEF TypeOK, Everything
<1>6. Announcements'
  BY <1>1, <1>2, <1>4 DEF Announcements, Told
<1>7. OnlineMeansSubscribed'
  BY <1>1, <1>2 DEF OnlineMeansSubscribed, Told, Everything
<1>8. Positions' /\ Connections' /\ Pass'
  BY <1>2 DEF IInv, Positions, Connections, Pass
<1> QED
  BY <1>5, <1>6, <1>7, <1>8 DEF IInv

LEMMA PublishFailsStep ==
  ASSUME IInv, PublishFails
  PROVE  IInv'
<1>1. /\ UNCHANGED <<phase, mode, value, critical, states, up, upEvent, epoch, conf, disc,
                     birth, subs, avail, seen, kept, births>>
      /\ hand' = <<>> /\ faults < MaxFaults /\ faults' = faults + 1
      /\ behind' = behind \cup About(hand[1]) /\ hand[1] \in Message
      /\ TypeOK /\ faults \in 0 .. MaxFaults
  BY HandFacts DEF IInv, TypeOK, PublishFails, containers, client, broker, bounds
<1>2. behind' \subseteq Everything /\ faults' \in 0 .. MaxFaults
  BY <1>1, AboutFacts, BoundFacts DEF TypeOK, Everything
<1>3. hand' \in Seq(Message) /\ Len(hand') <= 1 /\ DOMAIN hand' = {}
  BY <1>1
<1>4. TypeOK'
  BY <1>1, <1>2, <1>3 DEF TypeOK, Everything
<1>5. Announcements'
  BY <1>1, <1>3 DEF IInv, Announcements, Told
<1>6. Connections'
  BY <1>1, BoundFacts DEF IInv, Connections, TypeOK
<1>7. Positions' /\ Pass' /\ OnlineMeansSubscribed'
  BY <1>1 DEF IInv, Positions, Pass, OnlineMeansSubscribed
<1> QED
  BY <1>4, <1>5, <1>6, <1>7 DEF IInv

LEMMA BreakStep ==
  ASSUME IInv, Break
  PROVE  IInv'
<1>1. /\ UNCHANGED <<phase, mode, value, critical, states, upEvent, epoch, conf, disc, birth,
                     births>>
      /\ up = TRUE /\ up' = FALSE /\ faults < MaxFaults /\ faults' = faults + 1
      /\ avail' = 0 /\ subs' = {}
      /\ TypeOK /\ faults \in 0 .. MaxFaults /\ epoch \in 0 .. MaxFaults + 1
  BY DEF IInv, TypeOK, Break, containers
<1>2. /\ hand' \in {hand, <<>>}
      /\ \/ UNCHANGED <<seen, kept, behind>>
         \/ hand[1] \in Message /\ Receive(hand[1])
  BY HandFacts DEF Break, Unsent, Lost, Unacked
<1>3. /\ hand' \in Seq(Message) /\ Len(hand') <= 1
      /\ \A i \in DOMAIN hand' : i \in DOMAIN hand /\ hand'[i] = hand[i]
  <2>1. CASE hand' = hand
    BY <1>1, <2>1 DEF TypeOK
  <2>2. CASE hand' = <<>>
    BY <2>2
  <2> QED
    BY <1>2, <2>1, <2>2
<1>4. /\ seen' \in [Module -> 0 .. MaxValue] /\ kept' \in [Module -> 0 .. MaxValue]
      /\ behind' \subseteq Everything
  BY <1>1, <1>2, ReceiveFacts DEF TypeOK, Everything
<1>5. faults' \in 0 .. MaxFaults /\ avail' \in 0 .. MaxFaults + 1
  BY <1>1, BoundFacts
<1>6. TypeOK'
  BY <1>1, <1>3, <1>4, <1>5 DEF TypeOK, Everything
<1>7. Announcements'
  BY <1>1, <1>3 DEF IInv, Announcements, Told
<1>8. Connections'
  BY <1>1, BoundFacts DEF IInv, Connections
<1>9. Positions' /\ Pass' /\ OnlineMeansSubscribed'
  BY <1>1 DEF IInv, Positions, Pass, OnlineMeansSubscribed
<1> QED
  BY <1>6, <1>7, <1>8, <1>9 DEF IInv

\* A new connection has a new number, so no pass and no announcement is its own.
LEMMA ReconnectStep ==
  ASSUME IInv, Reconnect
  PROVE  IInv'
<1>1. /\ UNCHANGED <<phase, mode, value, critical, states, hand, conf, disc, birth, subs,
                     avail, seen, kept, behind, faults, births>>
      /\ up = FALSE /\ up' = TRUE /\ upEvent' = TRUE /\ epoch' = epoch + 1
      /\ phase # "start"
      /\ TypeOK /\ faults \in 0 .. MaxFaults /\ epoch \in 0 .. MaxFaults + 1
  BY DEF IInv, TypeOK, Reconnect, containers, broker, bounds
<1>2. epoch <= faults
  BY <1>1 DEF IInv, Connections
<1>3. epoch' \in 0 .. MaxFaults + 1
  BY <1>1, <1>2, BoundFacts
<1>4. TypeOK'
  BY <1>1, <1>3 DEF TypeOK
<1>5. \A msg \in Message : Told(msg) => Told(msg)'
  BY <1>1, MessageFacts, BoundFacts DEF Told
<1>6. /\ \A i \in DOMAIN critical : critical[i] \in Message
      /\ \A i \in DOMAIN states : states[i] \in Message
      /\ \A i \in DOMAIN hand : hand[i] \in Message
  BY <1>1, LenProperties, ElementOfSeq DEF TypeOK
<1>7. Announcements'
  <2>1. avail = 0 /\ avail' <= epoch'
    BY <1>1, BoundFacts DEF IInv, Announcements
  <2> QED
    BY <1>1, <1>5, <1>6, <2>1 DEF IInv, Announcements
<1>8. Connections'
  BY <1>1, <1>2 DEF Connections
<1>9. Pass' /\ OnlineMeansSubscribed'
  <2>1. conf.pass \in 0 .. MaxFaults + 1 /\ conf.pass <= epoch
    BY <1>1, PassFacts DEF IInv, TypeOK, Pass
  <2>2. avail = 0
    BY <1>1 DEF IInv, Announcements
  <2> QED
    BY <1>1, <2>1, <2>2, BoundFacts DEF Pass, OnlineMeansSubscribed
<1>10. Positions'
  BY <1>1 DEF IInv, Positions
<1> QED
  BY <1>4, <1>7, <1>8, <1>9, <1>10 DEF IInv

LEMMA DriverPublishesStep ==
  ASSUME IInv, NEW d \in Module, DriverPublishes(d)
  PROVE  IInv'
<1> DEFINE msg == DriverState(d, value[d] + 1)
<1>1. /\ UNCHANGED <<phase, mode, hand, up, upEvent, epoch, conf, disc, birth, subs, avail,
                     seen, kept, faults, births>>
      /\ value[d] < MaxValue /\ value' = [value EXCEPT ![d] = value[d] + 1]
      /\ Put(msg) /\ TypeOK
  BY DEF IInv, DriverPublishes, client, broker, bounds
<1>2. value[d] + 1 \in 0 .. MaxValue
  BY <1>1, BoundFacts DEF TypeOK
<1>3. msg \in Message /\ msg.kind = "state" /\ msg.pass = 0
  BY <1>1, <1>2, DriverStateFacts
<1>4. epoch \in 0 .. MaxFaults + 1
  BY <1>1 DEF TypeOK
<1> HIDE DEF msg
<1>5. Told(msg)
  BY <1>3, <1>4, BoundFacts DEF Told
<1>6. value' \in [Module -> 0 .. MaxValue]
  BY <1>1, <1>2 DEF TypeOK
<1>7. TypeOK'
  BY <1>1, <1>3, <1>6, PutFacts DEF TypeOK, Everything
<1>8. Announcements'
  BY <1>1, <1>3, <1>5, PutKeeps
<1>9. Positions' /\ Connections' /\ Pass' /\ OnlineMeansSubscribed'
  BY <1>1 DEF IInv, Positions, Connections, Pass, OnlineMeansSubscribed
<1> QED
  BY <1>7, <1>8, <1>9 DEF IInv

LEMMA ReadsModuleStep ==
  ASSUME IInv, NEW t \in Task, ReadsModule(t)
  PROVE  IInv'
<1> DEFINE d == Devices[disc[t].at]
<1>1. /\ UNCHANGED <<phase, mode, value, hand, up, upEvent, epoch, conf, birth, subs, avail,
                     seen, kept, births>>
      /\ disc[t].step = "read" /\ TypeOK
      /\ disc \in [Task -> Discovery] /\ value \in [Module -> 0 .. MaxValue]
      /\ faults \in 0 .. MaxFaults /\ epoch \in 0 .. MaxFaults + 1
  BY DEF IInv, TypeOK, ReadsModule, client, broker
<1>2. disc[t].at \in 1 .. Len(Devices)
  BY <1>1, DiscoveryFacts, TopicFacts DEF IInv, Positions
<1>3. d \in Module /\ value[d] \in 0 .. MaxValue /\ 0 \in 0 .. MaxValue
  BY <1>1, <1>2, TopicFacts, BoundFacts
<1>4. /\ Config(d) \in Message /\ Config(d).kind = "config" /\ Config(d).pass = 0
  BY <1>3, ConfigFacts
<1>5. Told(Config(d))
  BY <1>1, <1>4, BoundFacts DEF Told
<1>6. PICK v \in 0 .. MaxValue : disc' = [disc EXCEPT ![t] = Sleeping(disc[t].at, v)]
  BY <1>3 DEF ReadsModule
<1>7. /\ disc' \in [Task -> Discovery]
      /\ \A s \in Task : disc'[s].step # "off" => disc'[s].at # 0
  <2>1. Sleeping(disc[t].at, v) \in Discovery /\ Sleeping(disc[t].at, v).at # 0
    BY <1>2, DiscoveryFacts, TopicFacts
  <2>2. \A s \in Task : disc[s].step # "off" => disc[s].at # 0
    BY DEF IInv, Positions
  <2> QED
    BY <1>1, <1>6, <2>1, <2>2
<1>8. CASE Put(Config(d)) /\ UNCHANGED faults
  <2>1. TypeOK'
    BY <1>1, <1>4, <1>7, <1>8, PutFacts DEF TypeOK, Everything
  <2>2. Announcements'
    BY <1>1, <1>4, <1>5, <1>8, PutKeeps
  <2>3. Positions' /\ Connections' /\ Pass' /\ OnlineMeansSubscribed'
    BY <1>1, <1>7, <1>8 DEF IInv, Positions, Connections, Pass, OnlineMeansSubscribed
  <2> QED
    BY <2>1, <2>2, <2>3 DEF IInv
<1>9. CASE faults < MaxFaults /\ faults' = faults + 1 /\ UNCHANGED <<critical, states, behind>>
  <2>1. faults' \in 0 .. MaxFaults
    BY <1>1, <1>9, BoundFacts
  <2>2. TypeOK'
    BY <1>1, <1>7, <1>9, <2>1 DEF TypeOK
  <2>3. Announcements'
    BY <1>1, <1>9 DEF IInv, Announcements, Told
  <2>4. Connections'
    BY <1>1, <1>9, BoundFacts DEF IInv, Connections
  <2>5. Positions' /\ Pass' /\ OnlineMeansSubscribed'
    BY <1>1, <1>7, <1>9 DEF IInv, Positions, Pass, OnlineMeansSubscribed
  <2> QED
    BY <2>2, <2>3, <2>4, <2>5 DEF IInv
<1> QED
  BY <1>8, <1>9 DEF ReadsModule, containers

LEMMA PutsModuleStep ==
  ASSUME IInv, NEW t \in Task, PutsModule(t)
  PROVE  IInv'
<1> DEFINE msg == Snapshot(Devices[disc[t].at], disc[t].snap)
<1> DEFINE next == IF disc[t].at < Len(Devices) THEN AtModule(disc[t].at + 1) ELSE NotRunning
<1>1. /\ UNCHANGED <<phase, mode, value, hand, up, upEvent, epoch, conf, birth, subs, avail,
                     seen, kept, faults, births>>
      /\ disc[t].step = "sleep" /\ TypeOK /\ Put(msg)
      /\ disc \in [Task -> Discovery] /\ epoch \in 0 .. MaxFaults + 1
      /\ disc' = [disc EXCEPT ![t] = next]
  BY DEF IInv, TypeOK, PutsModule, client, broker, bounds
<1>2. disc[t].at \in 1 .. Len(Devices) /\ disc[t].snap \in 0 .. MaxValue
  BY <1>1, DiscoveryFacts, TopicFacts DEF IInv, Positions
<1>3. msg \in Message /\ msg.pass = 0
  BY <1>2, TopicFacts, SnapshotFacts
<1>4. next \in Discovery /\ (next.step # "off" => next.at # 0)
  <2>1. CASE disc[t].at < Len(Devices)
    <3>1. disc[t].at + 1 \in 1 .. Len(Devices)
      BY <1>2, <2>1, TopicFacts
    <3>2. AtModule(disc[t].at + 1) \in Discovery /\ AtModule(disc[t].at + 1).at # 0
      BY <3>1, DiscoveryFacts
    <3> QED
      BY <2>1, <3>2
  <2>2. CASE ~(disc[t].at < Len(Devices))
    BY <2>2, DiscoveryFacts
  <2> QED
    BY <2>1, <2>2
<1> HIDE DEF msg, next
<1>5. Told(msg)
  <2>1. msg.pass <= epoch
    BY <1>1, <1>3, BoundFacts
  <2>2. msg.kind = "state"
    BY <1>2, TopicFacts, SnapshotFacts DEF msg
  <2> QED
    BY <2>1, <2>2 DEF Told
<1>6. /\ disc' \in [Task -> Discovery]
      /\ \A s \in Task : disc'[s].step # "off" => disc'[s].at # 0
  <2>1. \A s \in Task : disc[s].step # "off" => disc[s].at # 0
    BY DEF IInv, Positions
  <2> QED
    BY <1>1, <1>4, <2>1
<1>7. TypeOK'
  BY <1>1, <1>3, <1>6, PutFacts DEF TypeOK, Everything
<1>8. Announcements'
  BY <1>1, <1>3, <1>5, PutKeeps
<1>9. Positions' /\ Connections' /\ Pass' /\ OnlineMeansSubscribed'
  BY <1>1, <1>6 DEF IInv, Positions, Connections, Pass, OnlineMeansSubscribed
<1> QED
  BY <1>7, <1>8, <1>9 DEF IInv

\* Nothing has been announced, or subscribed in part, before the first connection.
LEMMA ConnectFirstStep ==
  ASSUME IInv, ConnectFirst
  PROVE  IInv'
<1>1. /\ UNCHANGED <<mode, value, critical, states, hand, disc, birth, subs, avail, seen, kept,
                     behind, faults, births>>
      /\ phase = "start" /\ phase' = "first" /\ up' = TRUE /\ upEvent' = FALSE
      /\ epoch = 0 /\ epoch' = 1 /\ conf' = Passing("subscribe", 1, 1)
      /\ TypeOK /\ faults \in 0 .. MaxFaults
  BY DEF IInv, TypeOK, Connections, ConnectFirst, Begins, containers, broker, bounds
<1>2. epoch' \in 0 .. MaxFaults + 1 /\ 1 \in 0 .. MaxFaults + 1 /\ 1 \in 0 .. Len(Topics)
  BY <1>1, BoundFacts, TopicFacts
<1>3. /\ conf' \in Configuration /\ conf'.step = "subscribe" /\ conf'.topic = 1
      /\ conf'.pass = 1
  BY <1>1, <1>2, PassFacts
<1>4. TypeOK'
  BY <1>1, <1>2, <1>3 DEF TypeOK
<1>5. \A msg \in Message : Told(msg) => Told(msg)'
  BY <1>1, MessageFacts, BoundFacts DEF Told
<1>6. /\ \A i \in DOMAIN critical : critical[i] \in Message
      /\ \A i \in DOMAIN states : states[i] \in Message
      /\ \A i \in DOMAIN hand : hand[i] \in Message
  BY <1>1, LenProperties, ElementOfSeq DEF TypeOK
<1>7. avail \in 0 .. MaxFaults + 1 /\ avail <= 0
  BY <1>1 DEF IInv, TypeOK, Announcements
<1>8. Announcements'
  BY <1>1, <1>5, <1>6, <1>7, BoundFacts DEF IInv, Announcements
<1>9. Connections' /\ Pass' /\ OnlineMeansSubscribed'
  BY <1>1, <1>3, <1>7, BoundFacts DEF Connections, Pass, OnlineMeansSubscribed
<1>10. Positions'
  BY <1>1, <1>3 DEF IInv, Positions
<1> QED
  BY <1>4, <1>8, <1>9, <1>10 DEF IInv

LEMMA ConnectFailsStep ==
  ASSUME IInv, ConnectFails
  PROVE  IInv'
<1>1. /\ UNCHANGED <<mode, value, critical, states, hand, up, upEvent, epoch, conf, disc, birth,
                     subs, avail, seen, kept, behind, births>>
      /\ phase' = "failed" /\ faults < MaxFaults /\ faults' = faults + 1
      /\ TypeOK /\ faults \in 0 .. MaxFaults
  BY DEF IInv, TypeOK, ConnectFails, containers, client, broker, bounds
<1>2. faults' \in 0 .. MaxFaults
  BY <1>1, BoundFacts
<1>3. TypeOK'
  BY <1>1, <1>2 DEF TypeOK
<1>4. Announcements'
  BY <1>1 DEF IInv, Announcements, Told
<1>5. Connections'
  BY <1>1, BoundFacts DEF IInv, Connections, TypeOK
<1>6. Positions' /\ Pass' /\ OnlineMeansSubscribed'
  BY <1>1 DEF IInv, Positions, Pass, OnlineMeansSubscribed
<1> QED
  BY <1>3, <1>4, <1>5, <1>6 DEF IInv

LEMMA WakesStep ==
  ASSUME IInv, Wakes
  PROVE  IInv'
<1>1. /\ UNCHANGED <<phase, mode, value, critical, states, hand, up, epoch, disc, birth, subs,
                     avail, seen, kept, behind, faults, births>>
      /\ upEvent' = FALSE /\ conf' = Passing("subscribe", 1, epoch)
      /\ TypeOK /\ epoch \in 0 .. MaxFaults + 1
  BY DEF IInv, TypeOK, Wakes, ClearUp, Begins, containers, broker, bounds
<1>2. 1 \in 0 .. Len(Topics)
  BY TopicFacts
<1>3. /\ conf' \in Configuration /\ conf'.step = "subscribe" /\ conf'.topic = 1
      /\ conf'.pass = epoch
  BY <1>1, <1>2, PassFacts
<1>4. TypeOK'
  BY <1>1, <1>3 DEF TypeOK
<1>5. Announcements' /\ Connections' /\ OnlineMeansSubscribed'
  BY <1>1 DEF IInv, Announcements, Told, Connections, OnlineMeansSubscribed
<1>6. Positions' /\ Pass'
  BY <1>1, <1>3, BoundFacts DEF IInv, Positions, Pass
<1> QED
  BY <1>4, <1>5, <1>6 DEF IInv

\* A pass that stays on its connection has subscribed everything when it has
\* been through the topics.
LEMMA SubscribeStep ==
  ASSUME IInv, Subscribe
  PROVE  IInv'
<1> DEFINE topic == conf.topic
<1>1. /\ UNCHANGED <<phase, mode, value, critical, states, hand, up, upEvent, epoch, disc, birth,
                     avail, seen, kept, behind, faults, births>>
      /\ conf.step = "subscribe" /\ up = TRUE
      /\ subs' = subs \cup {Topics[topic]}
      /\ conf' = IF topic < Len(Topics) THEN Passing("subscribe", topic + 1, conf.pass)
                 ELSE Passing("online", 0, conf.pass)
      /\ TypeOK /\ conf \in Configuration /\ subs \subseteq Everything
  BY DEF IInv, TypeOK, Subscribe, containers, client, bounds, Everything
<1>2. topic \in 1 .. Len(Topics) /\ conf.pass \in 0 .. MaxFaults + 1
  BY <1>1, PassFacts, TopicFacts DEF IInv, Positions
<1>3. subs' \subseteq Everything /\ subs \subseteq subs' /\ Topics[topic] \in subs'
  BY <1>1, <1>2, TopicFacts
<1>4. /\ conf' \in Configuration /\ conf'.pass = conf.pass
      /\ topic < Len(Topics) => conf'.step = "subscribe" /\ conf'.topic = topic + 1
      /\ ~(topic < Len(Topics)) => conf'.step = "online"
  <2>1. CASE topic < Len(Topics)
    <3>1. topic + 1 \in 0 .. Len(Topics)
      BY <1>2, <2>1, TopicFacts
    <3> QED
      BY <1>1, <1>2, <2>1, <3>1, PassFacts
  <2>2. CASE ~(topic < Len(Topics))
    <3>1. 0 \in 0 .. Len(Topics)
      BY TopicFacts
    <3> QED
      BY <1>1, <1>2, <2>2, <3>1, PassFacts
  <2> QED
    BY <2>1, <2>2
<1>5. TypeOK'
  BY <1>1, <1>3, <1>4 DEF TypeOK, Everything
<1>6. subs = Everything => subs' = Everything
  BY <1>3
<1>7. Announcements' /\ Connections'
  BY <1>1, <1>6 DEF IInv, Announcements, Told, Connections
<1>8. OnlineMeansSubscribed'
  BY <1>1, <1>6 DEF IInv, OnlineMeansSubscribed, Everything
<1>9. Positions'
  BY <1>1, <1>2, <1>4, TopicFacts DEF IInv, Positions
<1>10. Pass'
  <2>1. SUFFICES ASSUME conf.pass = epoch
                 PROVE  Pass'
    BY <1>1, <1>4 DEF IInv, Pass
  <2>2. \A i \in 1 .. topic : Topics[i] \in subs'
    <3>1. \A i \in 1 .. topic - 1 : Topics[i] \in subs
      BY <1>1, <2>1 DEF IInv, Pass
    <3>2. \A i \in 1 .. topic : i \in 1 .. topic - 1 \/ i = topic
      BY <1>2, TopicFacts
    <3> QED
      BY <1>3, <3>1, <3>2
  <2>3. CASE topic < Len(Topics)
    <3>1. 1 .. conf'.topic - 1 = 1 .. topic
      BY <1>2, <1>4, <2>3, TopicFacts
    <3> QED
      BY <1>1, <1>4, <2>2, <2>3, <3>1 DEF IInv, Pass
  <2>4. CASE ~(topic < Len(Topics))
    <3>1. topic = Len(Topics)
      BY <1>2, <2>4, TopicFacts
    <3>2. subs' = Everything
      BY <1>3, <2>2, <3>1, TopicFacts
    <3> QED
      BY <1>1, <1>4, <2>4, <3>2 DEF IInv, Pass
  <2> QED
    BY <2>3, <2>4
<1> QED
  BY <1>5, <1>7, <1>8, <1>9, <1>10 DEF IInv

LEMMA AnnounceStep ==
  ASSUME IInv, Announce
  PROVE  IInv'
<1>1. /\ UNCHANGED <<phase, mode, value, hand, up, upEvent, epoch, birth, subs, avail, seen,
                     kept, faults, births>>
      /\ conf.step = "online" /\ Put(Online) /\ conf' = Passing("discover", 0, conf.pass)
      /\ disc' = [disc EXCEPT ![Configure] = AtModule(1)]
      /\ TypeOK /\ conf \in Configuration /\ disc \in [Task -> Discovery]
  BY DEF IInv, TypeOK, Announce, client, broker, bounds
<1>2. Online \in Message /\ Online.kind = "online" /\ Online.pass = conf.pass
  BY <1>1, OnlineFacts
<1>3. Told(Online)
  BY <1>1, <1>2 DEF IInv, Pass, Told
<1>4. /\ conf' \in Configuration /\ conf'.step = "discover" /\ conf'.pass = conf.pass
  <2>1. 0 \in 0 .. Len(Topics) /\ conf.pass \in 0 .. MaxFaults + 1
    BY <1>1, TopicFacts, PassFacts
  <2> QED
    BY <1>1, <2>1, PassFacts
<1>5. /\ disc' \in [Task -> Discovery]
      /\ \A s \in Task : disc'[s].step # "off" => disc'[s].at # 0
  <2>1. AtModule(1) \in Discovery /\ AtModule(1).at # 0
    BY TopicFacts, DiscoveryFacts
  <2>2. \A s \in Task : disc[s].step # "off" => disc[s].at # 0
    BY DEF IInv, Positions
  <2> QED
    BY <1>1, <2>1, <2>2
<1>6. TypeOK'
  BY <1>1, <1>2, <1>4, <1>5, PutFacts DEF TypeOK, Everything
<1>7. Announcements'
  BY <1>1, <1>2, <1>3, PutKeeps
<1>8. Connections' /\ OnlineMeansSubscribed'
  BY <1>1 DEF IInv, Connections, OnlineMeansSubscribed
<1>9. Positions' /\ Pass'
  BY <1>1, <1>4, <1>5 DEF IInv, Positions, Pass
<1> QED
  BY <1>6, <1>7, <1>8, <1>9 DEF IInv

LEMMA ConfiguredStep ==
  ASSUME IInv, Configured
  PROVE  IInv'
<1>1. /\ UNCHANGED <<mode, value, critical, states, hand, up, upEvent, epoch, disc, birth, subs,
                     avail, seen, kept, behind, faults, births>>
      /\ conf' = Resting /\ phase' = "on"
      /\ TypeOK /\ epoch \in 0 .. MaxFaults + 1
  BY DEF IInv, TypeOK, Configured, LeaveUp, containers, broker, bounds
<1>2. conf' \in Configuration /\ conf'.step = "rest" /\ conf'.pass = 0
  BY <1>1, PassFacts
<1>3. TypeOK'
  BY <1>1, <1>2 DEF TypeOK
<1>4. Announcements' /\ Connections' /\ OnlineMeansSubscribed'
  BY <1>1 DEF IInv, Announcements, Told, Connections, OnlineMeansSubscribed
<1>5. Positions' /\ Pass'
  BY <1>1, <1>2, BoundFacts DEF IInv, Positions, Pass
<1> QED
  BY <1>3, <1>4, <1>5 DEF IInv

LEMMA HomeAssistantRestartsStep ==
  ASSUME IInv, HomeAssistantRestarts
  PROVE  IInv'
<1>1. /\ UNCHANGED <<phase, mode, value, critical, states, hand, up, upEvent, epoch, conf, disc,
                     subs, avail, kept, behind, faults>>
      /\ births < MaxBirths /\ births' = births + 1
      /\ seen' \in {kept, [d \in Module |-> 0]} /\ birth' = (birth \/ None \in subs)
      /\ TypeOK /\ births \in 0 .. MaxBirths
  BY DEF IInv, TypeOK, HomeAssistantRestarts, containers, client
<1>2. births' \in 0 .. MaxBirths /\ seen' \in [Module -> 0 .. MaxValue]
  BY <1>1, BoundFacts DEF TypeOK
<1>3. birth' \in BOOLEAN
  BY <1>1
<1>4. TypeOK'
  BY <1>1, <1>2, <1>3 DEF TypeOK
<1>5. Announcements' /\ Connections' /\ OnlineMeansSubscribed' /\ Positions' /\ Pass'
  BY <1>1 DEF IInv, Announcements, Told, Connections, OnlineMeansSubscribed, Positions, Pass
<1> QED
  BY <1>4, <1>5 DEF IInv

LEMMA RefreshesStep ==
  ASSUME IInv, NEW t \in Refresher, Refreshes(t)
  PROVE  IInv'
<1>1. /\ UNCHANGED <<phase, mode, value, critical, states, hand, up, upEvent, epoch, conf, subs,
                     avail, seen, kept, faults, births>>
      /\ birth' = FALSE
      /\ disc' \in {[disc EXCEPT ![t] = AtModule(1)], disc}
      /\ behind' \in {behind, behind \cup Module}
      /\ TypeOK /\ disc \in [Task -> Discovery] /\ t \in Task
  BY DEF IInv, TypeOK, Refreshes, containers, client, broker, bounds, Task
<1>2. /\ disc' \in [Task -> Discovery]
      /\ \A s \in Task : disc'[s].step # "off" => disc'[s].at # 0
  <2>1. AtModule(1) \in Discovery /\ AtModule(1).at # 0
    BY TopicFacts, DiscoveryFacts
  <2>2. \A s \in Task : disc[s].step # "off" => disc[s].at # 0
    BY DEF IInv, Positions
  <2> QED
    BY <1>1, <2>1, <2>2
<1>3. behind' \subseteq Everything
  BY <1>1 DEF TypeOK, Everything
<1>4. TypeOK'
  BY <1>1, <1>2, <1>3 DEF TypeOK, Everything
<1>5. Announcements' /\ Connections' /\ OnlineMeansSubscribed' /\ Pass'
  BY <1>1 DEF IInv, Announcements, Told, Connections, OnlineMeansSubscribed, Pass
<1>6. Positions'
  BY <1>1, <1>2 DEF IInv, Positions
<1> QED
  BY <1>4, <1>5, <1>6 DEF IInv

LEMMA StutterStep ==
  ASSUME IInv, UNCHANGED vars
  PROVE  IInv'
BY DEF IInv, vars, TypeOK, Positions, Connections, Announcements, Told, Pass,
       OnlineMeansSubscribed

-----------------------------------------------------------------------------
(* The theorems.                                                           *)

\* The invariant is inductive: one case for each action.
THEOREM Inductive == IInv /\ [Next]_vars => IInv'
<1> SUFFICES ASSUME IInv, [Next]_vars
             PROVE  IInv'
  OBVIOUS
<1>1. CASE Take \/ Deliver \/ PublishFails
  BY <1>1, TakeStep, DeliverStep, PublishFailsStep
<1>2. CASE Break \/ Reconnect \/ ConnectFirst \/ ConnectFails
  BY <1>2, BreakStep, ReconnectStep, ConnectFirstStep, ConnectFailsStep
<1>3. CASE Wakes \/ Subscribe \/ Announce \/ Configured
  BY <1>3, WakesStep, SubscribeStep, AnnounceStep, ConfiguredStep
<1>4. CASE HomeAssistantRestarts
  BY <1>4, HomeAssistantRestartsStep
<1>5. CASE \E d \in Module : DriverPublishes(d)
  BY <1>5, DriverPublishesStep
<1>6. CASE \E t \in Task : Discovers(t)
  BY <1>6, ReadsModuleStep, PutsModuleStep DEF Discovers
<1>7. CASE \E t \in Refresher : Refreshes(t)
  BY <1>7, RefreshesStep
<1>8. CASE UNCHANGED vars
  BY <1>8, StutterStep
<1> QED
  BY <1>1, <1>2, <1>3, <1>4, <1>5, <1>6, <1>7, <1>8 DEF Next

\* The state of the queue, the tasks and the connection is always well typed,
\* and neither container of the queue outgrows its limit.
THEOREM TypeCorrect == Spec => []TypeOK
<1>1. IInv => TypeOK
  BY DEF IInv
<1> QED
  BY <1>1, Initial, Inductive, PTL DEF Spec

\* A device announced by a pass of the connection that is up has all its
\* subscriptions on it, however connections break and whatever is in the queue.
THEOREM OnlineMeansSubscribedHolds == Spec => []OnlineMeansSubscribed
<1>1. IInv => OnlineMeansSubscribed
  BY DEF IInv
<1> QED
  BY <1>1, Initial, Inductive, PTL DEF Spec

-----------------------------------------------------------------------------
(* Freshness: what is in the queue is in the order of the readings.        *)

\* Which states there are: the driver's own, and snapshots of a discovery.
Sound(x) ==
  /\ x.driver => x.kind = "state" /\ ~x.late /\ x.qos = mode.qos /\ x.retain = mode.retain
  /\ x.kind = "state" => /\ x.module \in Module /\ x.value <= value[x.module]
                         /\ x.driver \/ (x.qos = 0 /\ ~x.retain)

\* What waits is not older than what has arrived.
Ahead(y) ==
  y.kind = "state" =>
    /\ y.driver => kept[y.module] <= y.value
    /\ (OneQueue /\ ~y.late) => seen[y.module] <= y.value

\* What leaves first is not newer.
Before(x, y) ==
  (/\ x.kind = "state" /\ y.kind = "state" /\ x.module = y.module
   /\ (x.driver /\ y.driver) \/ (OneQueue /\ ~y.late)) => x.value <= y.value

Rightful(x) == Sound(x) /\ Ahead(x)

Contents ==
  /\ \A i \in DOMAIN critical : Rightful(critical[i])
  /\ \A i \in DOMAIN states : Rightful(states[i])
  /\ \A i \in DOMAIN hand : Rightful(hand[i])

\* Nothing is shown, kept or read of a reading that has not been.
Readings ==
  /\ \A d \in Module : kept[d] <= value[d] /\ seen[d] <= value[d]
  /\ \A t \in Task : disc[t].step = "sleep" => disc[t].snap <= value[Devices[disc[t].at]]

\* A state is critical when the drivers' states are retained, and no two states
\* that wait in the other container have the same key.
Placed ==
  /\ \A i \in DOMAIN critical : critical[i].kind = "state" => mode.retain /\ critical[i].driver
  /\ \A i \in DOMAIN states : states[i].kind = "state" /\ ~states[i].retain
  /\ \A i, j \in DOMAIN states : i # j => Key(states[i]) # Key(states[j])

Sorted ==
  /\ \A i, j \in DOMAIN critical : i < j => Before(critical[i], critical[j])
  /\ \A i \in DOMAIN hand : /\ \A j \in DOMAIN critical : Before(hand[i], critical[j])
                            /\ \A j \in DOMAIN states : Before(hand[i], states[j])

FreshInv == Contents /\ Readings /\ Placed /\ Sorted

LEMMA TailOrder ==
  ASSUME NEW S, NEW q \in Seq(S), q # <<>>
  PROVE  /\ DOMAIN Tail(q) \subseteq Nat
         /\ \A i \in DOMAIN Tail(q) :
               i + 1 \in DOMAIN q /\ 1 < i + 1 /\ Tail(q)[i] = q[i + 1]
<1>1. /\ Len(q) \in Nat /\ DOMAIN q = 1 .. Len(q)
      /\ Tail(q) \in Seq(S) /\ Len(Tail(q)) = Len(q) - 1
      /\ \A i \in 1 .. Len(Tail(q)) : Tail(q)[i] = q[i + 1]
  BY HeadTailProperties, LenProperties, EmptySeq
<1>2. DOMAIN Tail(q) = 1 .. Len(q) - 1
  BY <1>1, LenProperties
<1> QED
  BY <1>1, <1>2

LEMMA AppendOrder ==
  ASSUME NEW S, NEW q \in Seq(S), NEW x \in S
  PROVE  \A i, j \in DOMAIN Append(q, x) : i # j =>
            \/ \E k \in DOMAIN q : Append(q, x)[i] = q[k] /\ Append(q, x)[j] = x
            \/ \E l \in DOMAIN q : ~(i < j) /\ Append(q, x)[i] = x /\ Append(q, x)[j] = q[l]
            \/ \E k, l \in DOMAIN q : /\ k # l /\ (i < j => k < l)
                                      /\ Append(q, x)[i] = q[k] /\ Append(q, x)[j] = q[l]
<1>1. /\ Append(q, x) \in Seq(S) /\ Len(q) \in Nat /\ DOMAIN q = 1 .. Len(q)
      /\ Len(Append(q, x)) = Len(q) + 1
      /\ \A i \in 1 .. Len(q) : Append(q, x)[i] = q[i]
      /\ Append(q, x)[Len(q) + 1] = x
  BY AppendProperties, LenProperties
<1>2. DOMAIN Append(q, x) = 1 .. Len(q) + 1
  BY <1>1, LenProperties
<1> SUFFICES ASSUME NEW i \in 1 .. Len(q) + 1, NEW j \in 1 .. Len(q) + 1, i # j
             PROVE  \/ \E k \in DOMAIN q : Append(q, x)[i] = q[k] /\ Append(q, x)[j] = x
                    \/ \E l \in DOMAIN q : ~(i < j) /\ Append(q, x)[i] = x /\ Append(q, x)[j] = q[l]
                    \/ \E k, l \in DOMAIN q : /\ k # l /\ (i < j => k < l)
                                              /\ Append(q, x)[i] = q[k] /\ Append(q, x)[j] = q[l]
  BY <1>2
<1>3. CASE j = Len(q) + 1
  <2>1. i \in DOMAIN q
    BY <1>1, <1>3
  <2> QED
    BY <1>1, <1>3, <2>1
<1>4. CASE i = Len(q) + 1
  <2>1. j \in DOMAIN q /\ ~(i < j)
    BY <1>1, <1>4
  <2> QED
    BY <1>1, <1>4, <2>1
<1>5. CASE i # Len(q) + 1 /\ j # Len(q) + 1
  <2>1. i \in DOMAIN q /\ j \in DOMAIN q
    BY <1>1, <1>5
  <2> QED
    BY <1>1, <2>1
<1> QED
  BY <1>3, <1>4, <1>5

\* A critical message goes to the end; a state replaces the only one of its key.
LEMMA PutOrder ==
  ASSUME TypeOK, NEW msg \in Message, Put(msg)
  PROVE  /\ IsCritical(msg) => states' = states
         /\ ~IsCritical(msg) => critical' = critical /\ msg.kind = "state" /\ ~msg.retain
         /\ \A i, j \in DOMAIN critical' : i < j => \E k \in DOMAIN critical :
               /\ critical'[i] = critical[k]
               /\ \/ critical'[j] = msg
                  \/ \E l \in DOMAIN critical : k < l /\ critical'[j] = critical[l]
         /\ (\A i, j \in DOMAIN states : i # j => Key(states[i]) # Key(states[j])) =>
               \A i, j \in DOMAIN states' : i # j => Key(states'[i]) # Key(states'[j])
<1>1. /\ critical \in Seq(Message) /\ states \in Seq(Message)
      /\ Len(critical) \in Nat /\ Len(states) \in Nat
      /\ DOMAIN critical = 1 .. Len(critical)
  BY LenProperties DEF TypeOK
<1>2. CASE IsCritical(msg)
  <2> DEFINE rest == IF Len(critical) >= CriticalLimit THEN Tail(critical) ELSE critical
  <2>1. critical' = Append(rest, msg) /\ states' = states
    BY <1>2 DEF Put, PutCritical
  <2>2. /\ rest \in Seq(Message)
        /\ \A i \in DOMAIN rest : \E j \in DOMAIN critical : rest[i] = critical[j]
        /\ \A i, j \in DOMAIN rest : i # j => \E k, l \in DOMAIN critical :
              k # l /\ (i < j => k < l) /\ rest[i] = critical[k] /\ rest[j] = critical[l]
    <3>1. CASE Len(critical) >= CriticalLimit
      <4>1. critical # <<>> /\ rest = Tail(critical)
        BY <3>1, BoundFacts, EmptySeq
      <4>2. /\ Tail(critical) \in Seq(Message)
            /\ \A i \in DOMAIN Tail(critical) :
                  \E j \in DOMAIN critical : Tail(critical)[i] = critical[j]
        BY <1>1, <4>1, TailFacts
      <4>3. ASSUME NEW i \in DOMAIN Tail(critical), NEW j \in DOMAIN Tail(critical), i # j
            PROVE  \E k, l \in DOMAIN critical :
                     /\ k # l /\ (i < j => k < l)
                     /\ Tail(critical)[i] = critical[k] /\ Tail(critical)[j] = critical[l]
        <5>1. /\ i \in Nat /\ i + 1 \in DOMAIN critical /\ Tail(critical)[i] = critical[i + 1]
              /\ j \in Nat /\ j + 1 \in DOMAIN critical /\ Tail(critical)[j] = critical[j + 1]
          BY <1>1, <4>1, <4>3, TailOrder
        <5>2. i + 1 # j + 1 /\ (i < j => i + 1 < j + 1)
          BY <4>3, <5>1
        <5> QED
          BY <5>1, <5>2
      <4> HIDE DEF rest
      <4> QED
        BY <4>1, <4>2, <4>3
    <3>2. CASE ~(Len(critical) >= CriticalLimit)
      BY <1>1, <3>2
    <3> QED
      BY <3>1, <3>2
  <2> HIDE DEF rest
  <2>3. ASSUME NEW i \in DOMAIN critical', NEW j \in DOMAIN critical', i < j
        PROVE  \E k \in DOMAIN critical :
                 /\ critical'[i] = critical[k]
                 /\ \/ critical'[j] = msg
                    \/ \E l \in DOMAIN critical : k < l /\ critical'[j] = critical[l]
    <3>1. i # j
      <4>1. critical' \in Seq(Message)
        BY <2>1, <2>2, AppendFacts
      <4>2. DOMAIN critical' = 1 .. Len(critical')
        BY <4>1, LenProperties
      <4> QED
        BY <2>3, <4>2
    <3>2. \/ \E k \in DOMAIN rest : critical'[i] = rest[k] /\ critical'[j] = msg
          \/ \E k, l \in DOMAIN rest : /\ k # l /\ k < l
                                       /\ critical'[i] = rest[k] /\ critical'[j] = rest[l]
      BY <2>1, <2>2, <2>3, <3>1, AppendOrder
    <3> QED
      BY <2>2, <3>2
  <2> QED
    BY <1>2, <2>1, <2>3
<1>3. CASE ~IsCritical(msg)
  <2>1. PutState(msg) /\ critical' = critical /\ msg.kind = "state" /\ ~msg.retain
    BY <1>3 DEF Put, PutState, IsCritical
  <2>2. ASSUME NEW i \in DOMAIN critical', NEW j \in DOMAIN critical', i < j
        PROVE  \E k \in DOMAIN critical :
                 /\ critical'[i] = critical[k]
                 /\ \/ critical'[j] = msg
                    \/ \E l \in DOMAIN critical : k < l /\ critical'[j] = critical[l]
    BY <2>1, <2>2
  <2>3. ASSUME \A i, j \in DOMAIN states : i # j => Key(states[i]) # Key(states[j]),
               NEW i \in DOMAIN states', NEW j \in DOMAIN states', i # j
        PROVE  Key(states'[i]) # Key(states'[j])
    <3>1. CASE \E n \in DOMAIN states : Key(states[n]) = Key(msg)
      <4>1. states' = Coalesced(msg)
        BY <2>1, <3>1 DEF PutState
      <4>2. DOMAIN states' = DOMAIN states
        BY <4>1 DEF Coalesced
      <4>3. \A n \in DOMAIN states : Key(states'[n]) = Key(states[n])
        BY <4>1 DEF Coalesced
      <4> QED
        BY <2>3, <4>2, <4>3
    <3>2. CASE ~ \E n \in DOMAIN states : Key(states[n]) = Key(msg)
      <4> DEFINE rest == IF Len(states) >= StateLimit THEN Tail(states) ELSE states
      <4>1. states' = Append(rest, msg)
        BY <2>1, <3>2 DEF PutState
      <4>2. /\ rest \in Seq(Message)
            /\ \A a \in DOMAIN rest : \E b \in DOMAIN states : rest[a] = states[b]
            /\ \A a, b \in DOMAIN rest : a # b => \E k, l \in DOMAIN states :
                  k # l /\ rest[a] = states[k] /\ rest[b] = states[l]
        <5>1. CASE Len(states) >= StateLimit
          <6>1. states # <<>> /\ rest = Tail(states)
            BY <5>1, BoundFacts, EmptySeq
          <6>2. \A a \in DOMAIN rest :
                  a \in Nat /\ a + 1 \in DOMAIN states /\ rest[a] = states[a + 1]
            BY <1>1, <6>1, TailOrder
          <6>3. \A a, b \in DOMAIN rest : a # b => a + 1 # b + 1
            BY <6>2
          <6> QED
            BY <1>1, <6>1, <6>2, <6>3, TailFacts
        <5>2. CASE ~(Len(states) >= StateLimit)
          BY <1>1, <5>2
        <5> QED
          BY <5>1, <5>2
      <4> HIDE DEF rest
      <4>3. \/ \E k \in DOMAIN rest : states'[i] = rest[k] /\ states'[j] = msg
            \/ \E l \in DOMAIN rest : states'[i] = msg /\ states'[j] = rest[l]
            \/ \E k, l \in DOMAIN rest : k # l /\ states'[i] = rest[k] /\ states'[j] = rest[l]
        BY <2>3, <4>1, <4>2, AppendOrder
      <4> QED
        BY <2>3, <3>2, <4>2, <4>3
    <3> QED
      BY <3>1, <3>2
  <2> QED
    BY <1>3, <2>1, <2>2, <2>3
<1> QED
  BY <1>2, <1>3

LEMMA FreshFacts ==
  ASSUME IInv, FreshInv
  PROVE  /\ critical \in Seq(Message) /\ states \in Seq(Message) /\ hand \in Seq(Message)
         /\ \A i \in DOMAIN critical : critical[i] \in Message
         /\ \A i \in DOMAIN states : states[i] \in Message
         /\ \A i \in DOMAIN hand : hand[i] \in Message /\ hand[i] = hand[1]
         /\ mode.qos \in {0, 1} /\ mode.retain \in BOOLEAN /\ MaxValue \in Nat
         /\ value \in [Module -> 0 .. MaxValue] /\ seen \in [Module -> 0 .. MaxValue]
         /\ kept \in [Module -> 0 .. MaxValue] /\ disc \in [Task -> Discovery]
<1>1. TypeOK
  BY DEF IInv
<1>2. critical \in Seq(Message) /\ states \in Seq(Message) /\ hand \in Seq(Message)
  BY <1>1 DEF TypeOK
<1>3. /\ \A i \in DOMAIN critical : critical[i] \in Message
      /\ \A i \in DOMAIN states : states[i] \in Message
      /\ \A i \in DOMAIN hand : hand[i] \in Message
  BY <1>2, LenProperties, ElementOfSeq
<1>4. \A i \in DOMAIN hand : i = 1
  <2>1. DOMAIN hand = 1 .. Len(hand) /\ Len(hand) <= 1 /\ Len(hand) \in Nat
    BY <1>1, <1>2, LenProperties DEF TypeOK
  <2> QED
    BY <2>1
<1> QED
  BY <1>1, <1>2, <1>3, <1>4, ModeAssumption, BoundFacts DEF TypeOK

\* Two states of one module that wait in the second container are in order.
LEMMA StatesInOrder ==
  ASSUME IInv, FreshInv, NEW i \in DOMAIN states, NEW j \in DOMAIN states, i # j
  PROVE  Before(states[i], states[j])
<1> SUFFICES ASSUME states[i].module = states[j].module,
                    (states[i].driver /\ states[j].driver) \/ OneQueue
             PROVE  FALSE
  BY DEF Before
<1>1. /\ states[i] \in Message /\ states[j] \in Message /\ mode.retain \in BOOLEAN
      /\ Rightful(states[i]) /\ Rightful(states[j])
      /\ states[i].kind = "state" /\ states[j].kind = "state"
      /\ Key(states[i]) # Key(states[j])
  BY FreshFacts DEF FreshInv, Contents, Placed
<1>2. /\ states[i].retain \in BOOLEAN /\ states[j].retain \in BOOLEAN
      /\ states[i].driver \in BOOLEAN /\ states[j].driver \in BOOLEAN
  BY <1>1 DEF Message
<1>3. states[i].qos = states[j].qos
  BY <1>1, <1>2 DEF Rightful, Sound, OneQueue
<1>4. states[i].retain = states[j].retain
  BY <1>1, <1>2 DEF Rightful, Sound, OneQueue
<1> QED
  BY <1>1, <1>3, <1>4 DEF Key

\* What is put is in order behind everything that waits or is in hand, if it
\* carries the reading of this moment or is known to be late.
LEMMA PutFresh ==
  ASSUME IInv, FreshInv, NEW msg \in Message, Put(msg),
         UNCHANGED <<mode, hand, seen, kept>>,
         value' \in [Module -> 0 .. MaxValue], \A d \in Module : value[d] <= value'[d],
         msg.driver => /\ msg.kind = "state" /\ ~msg.late
                       /\ msg.qos = mode.qos /\ msg.retain = mode.retain,
         msg.kind = "state" => /\ msg.module \in Module /\ msg.value <= value'[msg.module]
                               /\ ~msg.late => msg.value = value'[msg.module]
                               /\ msg.driver \/ (msg.qos = 0 /\ ~msg.retain),
         \A t \in Task : disc'[t].step = "sleep" => disc'[t].snap <= value'[Devices[disc'[t].at]]
  PROVE  FreshInv'
<1>1. TypeOK /\ Contents /\ Readings /\ Placed /\ Sorted
  BY DEF IInv, FreshInv
<1>2. \A x \in Message : x.value \in Nat /\ x.driver \in BOOLEAN /\ x.late \in BOOLEAN
  BY FreshFacts DEF Message
<1>3. \A d \in Module : /\ value[d] \in Nat /\ value'[d] \in Nat /\ seen[d] \in Nat
                        /\ kept[d] \in Nat /\ seen[d] <= value[d] /\ kept[d] <= value[d]
                        /\ value[d] <= value'[d]
  BY <1>1, FreshFacts DEF Readings
<1>4. OneQueue' = OneQueue
  BY DEF OneQueue
<1>5. ASSUME NEW x \in Message, Rightful(x)
      PROVE  Rightful(x)' /\ Before(x, msg)
  <2>1. Rightful(x)'
    <3>1. Sound(x)'
      <4>1. x.kind = "state" => x.value <= value'[x.module]
        BY <1>2, <1>3, <1>5 DEF Rightful, Sound
      <4> QED
        BY <1>5, <4>1 DEF Rightful, Sound
    <3>2. Ahead(x)'
      BY <1>4, <1>5 DEF Rightful, Ahead
    <3> QED
      BY <3>1, <3>2 DEF Rightful
  <2>2. Before(x, msg)
    <3> SUFFICES ASSUME x.kind = "state", msg.kind = "state", x.module = msg.module, ~msg.late
                 PROVE  x.value <= msg.value
      BY DEF Before
    <3>1. x.value <= value[x.module] /\ x.module \in Module
      BY <1>5 DEF Rightful, Sound
    <3> QED
      BY <1>2, <1>3, <3>1
  <2> QED
    BY <2>1, <2>2
<1>6. Rightful(msg)'
  <2>1. Sound(msg)'
    BY DEF Sound
  <2>2. Ahead(msg)'
    <3> SUFFICES ASSUME msg.kind = "state", ~msg.late
                 PROVE  kept[msg.module] <= msg.value /\ seen[msg.module] <= msg.value
      BY DEF Ahead
    <3> QED
      BY <1>3
  <2> QED
    BY <2>1, <2>2 DEF Rightful
<1>7. \A x, y : Before(x, y)' <=> Before(x, y)
  BY <1>4 DEF Before
<1>8. /\ \A i \in DOMAIN critical : critical[i] \in Message /\ Rightful(critical[i])
      /\ \A i \in DOMAIN states : states[i] \in Message /\ Rightful(states[i])
      /\ \A i \in DOMAIN hand : hand[i] \in Message /\ Rightful(hand[i])
  BY <1>1, FreshFacts DEF Contents
<1>9. /\ \A i \in DOMAIN critical' :
            critical'[i] = msg \/ \E j \in DOMAIN critical : critical'[i] = critical[j]
      /\ \A i \in DOMAIN states' :
            states'[i] = msg \/ \E j \in DOMAIN states : states'[i] = states[j]
  BY <1>1, PutFacts
<1>10. Contents'
  <2>1. \A i \in DOMAIN critical' : Rightful(critical[i])'
    BY <1>5, <1>6, <1>8, <1>9
  <2>2. \A i \in DOMAIN states' : Rightful(states[i])'
    BY <1>5, <1>6, <1>8, <1>9
  <2>3. \A i \in DOMAIN hand' : Rightful(hand[i])'
    BY <1>5, <1>8
  <2> QED
    BY <2>1, <2>2, <2>3 DEF Contents
<1>11. Readings'
  <2>1. \A d \in Module : kept[d] <= value'[d] /\ seen[d] <= value'[d]
    BY <1>3
  <2> QED
    BY <2>1 DEF Readings
<1>12. Placed'
  <2>1. CASE IsCritical(msg)
    <3>1. msg.kind = "state" => mode.retain /\ msg.driver
      BY <2>1 DEF IsCritical
    <3>2. states' = states
      BY <1>1, <2>1, PutOrder
    <3> QED
      BY <1>1, <1>9, <3>1, <3>2 DEF Placed, Key
  <2>2. CASE ~IsCritical(msg)
    <3>1. critical' = critical /\ msg.kind = "state" /\ ~msg.retain
      BY <1>1, <2>2, PutOrder
    <3>2. \A i, j \in DOMAIN states' : i # j => Key(states'[i]) # Key(states'[j])
      BY <1>1, PutOrder DEF Placed
    <3>3. \A i \in DOMAIN states' : states'[i].kind = "state" /\ ~states'[i].retain
      BY <1>1, <1>9, <3>1 DEF Placed
    <3> QED
      BY <1>1, <3>1, <3>2, <3>3 DEF Placed, Key
  <2> QED
    BY <2>1, <2>2
<1>13. Sorted'
  <2>1. ASSUME NEW i \in DOMAIN critical', NEW j \in DOMAIN critical', i < j
        PROVE  Before(critical'[i], critical'[j])
    <3>1. PICK k \in DOMAIN critical :
            /\ critical'[i] = critical[k]
            /\ \/ critical'[j] = msg
               \/ \E l \in DOMAIN critical : k < l /\ critical'[j] = critical[l]
      BY <1>1, <2>1, PutOrder
    <3>2. CASE critical'[j] = msg
      BY <1>5, <1>8, <3>1, <3>2
    <3>3. CASE \E l \in DOMAIN critical : k < l /\ critical'[j] = critical[l]
      BY <1>1, <3>1, <3>3 DEF Sorted
    <3> QED
      BY <3>1, <3>2, <3>3
  <2>2. ASSUME NEW i \in DOMAIN hand, NEW j \in DOMAIN critical'
        PROVE  Before(hand[i], critical'[j])
    BY <1>1, <1>5, <1>8, <1>9 DEF Sorted
  <2>3. ASSUME NEW i \in DOMAIN hand, NEW j \in DOMAIN states'
        PROVE  Before(hand[i], states'[j])
    BY <1>1, <1>5, <1>8, <1>9 DEF Sorted
  <2>4. \A i, j \in DOMAIN critical' : i < j => Before(critical[i], critical[j])'
    BY <1>7, <2>1
  <2>5. \A i \in DOMAIN hand' : /\ \A j \in DOMAIN critical' : Before(hand[i], critical[j])'
                                /\ \A j \in DOMAIN states' : Before(hand[i], states[j])'
    BY <1>7, <2>2, <2>3
  <2> QED
    BY <2>4, <2>5 DEF Sorted
<1> QED
  BY <1>10, <1>11, <1>12, <1>13 DEF FreshInv

\* The oldest of a container leaves it: nothing behind it is older.
LEMMA TakeFresh ==
  ASSUME IInv, FreshInv, Take
  PROVE  FreshInv'
<1>1. /\ UNCHANGED <<mode, value, disc, seen, kept>> /\ hand = <<>>
      /\ Contents /\ Readings /\ Placed /\ Sorted
      /\ critical \in Seq(Message) /\ states \in Seq(Message)
  BY FreshFacts DEF FreshInv, Take, broker
<1>2. OneQueue' = OneQueue
  BY <1>1 DEF OneQueue
<1>3. \A x : Rightful(x)' <=> Rightful(x)
  BY <1>1, <1>2 DEF Rightful, Sound, Ahead
<1>4. \A x, y : Before(x, y)' <=> Before(x, y)
  BY <1>2 DEF Before
<1>5. Readings'
  BY <1>1 DEF Readings
<1>6. CASE TakeCritical
  <2>1. /\ critical # <<>> /\ hand' = <<Head(critical)>>
        /\ critical' = Tail(critical) /\ states' = states
    BY <1>6 DEF TakeCritical
  <2>2. /\ Head(critical) = critical[1] /\ 1 \in DOMAIN critical
        /\ \A i \in DOMAIN critical' : /\ i \in Nat /\ i + 1 \in DOMAIN critical /\ 1 < i + 1
                                       /\ critical'[i] = critical[i + 1]
    BY <1>1, <2>1, TailFacts, TailOrder
  <2>3. \A i \in DOMAIN hand' : hand'[i] = critical[1]
    BY <2>1, <2>2
  <2>4. Contents'
    <3>1. \A i \in DOMAIN critical' : Rightful(critical'[i])
      BY <1>1, <2>2 DEF Contents
    <3>2. \A i \in DOMAIN hand' : Rightful(hand'[i])
      BY <1>1, <2>2, <2>3 DEF Contents
    <3>3. \A i \in DOMAIN states' : Rightful(states'[i])
      BY <1>1, <2>1 DEF Contents
    <3> QED
      BY <1>3, <3>1, <3>2, <3>3 DEF Contents
  <2>5. Placed'
    BY <1>1, <2>1, <2>2 DEF Placed, Key
  <2>6. Sorted'
    <3>1. ASSUME NEW i \in DOMAIN critical', NEW j \in DOMAIN critical', i < j
          PROVE  Before(critical'[i], critical'[j])
      <4>1. i + 1 < j + 1
        BY <2>2, <3>1
      <4> QED
        BY <1>1, <2>2, <4>1 DEF Sorted
    <3>2. \A j \in DOMAIN critical' : Before(critical[1], critical'[j])
      BY <1>1, <2>2 DEF Sorted
    <3>3. ASSUME NEW j \in DOMAIN states
          PROVE  Before(critical[1], states[j])
      <4> SUFFICES ASSUME critical[1].kind = "state", states[j].driver \/ OneQueue
                   PROVE  FALSE
        BY DEF Before
      <4>1. mode.retain /\ Sound(states[j]) /\ ~states[j].retain
        BY <1>1, <2>2 DEF Placed, Contents, Rightful
      <4> QED
        BY <4>1 DEF Sound, OneQueue
    <3>4. \A i, j \in DOMAIN critical' : i < j => Before(critical[i], critical[j])'
      BY <1>4, <3>1
    <3>5. \A i \in DOMAIN hand' : /\ \A j \in DOMAIN critical' : Before(hand[i], critical[j])'
                                  /\ \A j \in DOMAIN states' : Before(hand[i], states[j])'
      BY <1>4, <2>1, <2>3, <3>2, <3>3
    <3> QED
      BY <3>4, <3>5 DEF Sorted
  <2> QED
    BY <1>5, <2>4, <2>5, <2>6 DEF FreshInv
<1>7. CASE TakeState
  <2>1. critical = <<>> /\ states # <<>> /\ hand' = <<Head(states)>>
        /\ states' = Tail(states) /\ critical' = critical
    BY <1>7 DEF TakeState
  <2>2. /\ Head(states) = states[1] /\ 1 \in DOMAIN states
        /\ \A i \in DOMAIN states' : /\ i \in Nat /\ i + 1 \in DOMAIN states /\ 1 < i + 1
                                     /\ states'[i] = states[i + 1]
    BY <1>1, <2>1, TailFacts, TailOrder
  <2>3. \A i \in DOMAIN hand' : hand'[i] = states[1]
    BY <2>1, <2>2
  <2>4. Contents'
    <3>1. \A i \in DOMAIN states' : Rightful(states'[i])
      BY <1>1, <2>2 DEF Contents
    <3>2. \A i \in DOMAIN hand' : Rightful(hand'[i])
      BY <1>1, <2>2, <2>3 DEF Contents
    <3>3. \A i \in DOMAIN critical' : Rightful(critical'[i])
      BY <1>1, <2>1 DEF Contents
    <3> QED
      BY <1>3, <3>1, <3>2, <3>3 DEF Contents
  <2>5. Placed'
    <3>1. ASSUME NEW i \in DOMAIN states', NEW j \in DOMAIN states', i # j
          PROVE  Key(states'[i]) # Key(states'[j])
      <4>1. i + 1 # j + 1
        BY <2>2, <3>1
      <4> QED
        BY <1>1, <2>2, <4>1 DEF Placed
    <3>2. \A i \in DOMAIN states' : states'[i].kind = "state" /\ ~states'[i].retain
      BY <1>1, <2>2 DEF Placed
    <3> QED
      BY <1>1, <2>1, <3>1, <3>2 DEF Placed, Key
  <2>6. Sorted'
    <3>1. \A j \in DOMAIN states' : Before(states[1], states'[j])
      <4>1. \A j \in DOMAIN states : 1 < j => Before(states[1], states[j])
        <5>1. DOMAIN states \subseteq Int
          BY <1>1, LenProperties
        <5> QED
          BY <2>2, <5>1, StatesInOrder
      <4> QED
        BY <2>2, <4>1
    <3>2. DOMAIN critical' = {}
      BY <2>1
    <3>3. \A i \in DOMAIN hand' : \A j \in DOMAIN states' : Before(hand[i], states[j])'
      BY <1>4, <2>3, <3>1
    <3> QED
      BY <3>2, <3>3 DEF Sorted
  <2> QED
    BY <1>5, <2>4, <2>5, <2>6 DEF FreshInv
<1> QED
  BY <1>6, <1>7 DEF Take

\* The queue stays, and what is in hand stays or is gone.
LEMMA FewerFresh ==
  ASSUME IInv, FreshInv, UNCHANGED <<mode, value, critical, states>>,
         hand' = hand \/ hand' = <<>>,
         \A i \in DOMAIN critical : Ahead(critical[i])',
         \A i \in DOMAIN states : Ahead(states[i])',
         \A i \in DOMAIN hand' : Ahead(hand[i])',
         Readings'
  PROVE  FreshInv'
<1>1. Contents /\ Placed /\ Sorted
  BY DEF FreshInv
<1>2. \A x : (Sound(x)' <=> Sound(x)) /\ (Rightful(x) => Sound(x))
  BY DEF Sound, Rightful
<1>3. \A x, y : Before(x, y)' <=> Before(x, y)
  BY DEF Before, OneQueue
<1>4. DOMAIN hand' \subseteq DOMAIN hand /\ \A i \in DOMAIN hand' : hand'[i] = hand[i]
  BY SMT
<1>5. Contents'
  <2>1. /\ \A i \in DOMAIN critical : Sound(critical[i])
        /\ \A i \in DOMAIN states : Sound(states[i])
        /\ \A i \in DOMAIN hand : Sound(hand[i])
    BY <1>1, <1>2 DEF Contents
  <2>2. /\ \A i \in DOMAIN critical' : Sound(critical[i])'
        /\ \A i \in DOMAIN states' : Sound(states[i])'
        /\ \A i \in DOMAIN hand' : Sound(hand[i])'
    BY <1>2, <1>4, <2>1
  <2> QED
    BY <2>2 DEF Contents, Rightful
<1>6. Placed'
  BY <1>1 DEF Placed, Key
<1>7. Sorted'
  <2>1. \A i, j \in DOMAIN critical' : i < j => Before(critical[i], critical[j])'
    BY <1>1, <1>3 DEF Sorted
  <2>2. \A i \in DOMAIN hand' : /\ \A j \in DOMAIN critical' : Before(hand[i], critical[j])'
                                /\ \A j \in DOMAIN states' : Before(hand[i], states[j])'
    BY <1>1, <1>3, <1>4 DEF Sorted
  <2> QED
    BY <2>1, <2>2 DEF Sorted
<1> QED
  BY <1>5, <1>6, <1>7 DEF FreshInv

\* What arrives is not newer than what waits behind it.
LEMMA ReceiveFresh ==
  ASSUME IInv, FreshInv, UNCHANGED <<mode, value, critical, states, disc>>,
         hand # <<>>, hand' = hand \/ hand' = <<>>, Receive(hand[1])
  PROVE  FreshInv'
<1>0. hand[1] \in Message
  BY HandFacts
<1> PICK x \in Message : x = hand[1]
  BY <1>0
<1>1. /\ x \in Message /\ 1 \in DOMAIN hand /\ \A i \in DOMAIN hand : hand[i] = x
      /\ Contents /\ Readings /\ Sorted
  BY FreshFacts, TailFacts DEF FreshInv
<1>2. /\ seen' = IF x.kind = "state" THEN [seen EXCEPT ![x.module] = x.value] ELSE seen
      /\ kept' = IF x.driver THEN [kept EXCEPT ![x.module] = x.value] ELSE kept
  BY DEF Receive
<1>3. Rightful(x)
  BY <1>1 DEF Contents
<1>4. \A y \in Message : y.value \in Nat /\ y.driver \in BOOLEAN /\ y.late \in BOOLEAN
  BY FreshFacts DEF Message
<1>5. ASSUME NEW y \in Message, Rightful(y), Before(x, y)
      PROVE  Ahead(y)'
  <2> SUFFICES ASSUME y.kind = "state"
               PROVE  /\ y.driver => kept'[y.module] <= y.value
                      /\ (OneQueue /\ ~y.late) => seen'[y.module] <= y.value
    BY DEF Ahead, OneQueue
  <2>1. y.module \in Module
    BY <1>5 DEF Rightful, Sound
  <2>2. ASSUME y.driver PROVE kept'[y.module] <= y.value
    <3>1. kept[y.module] <= y.value
      BY <1>5, <2>2 DEF Rightful, Ahead
    <3>2. CASE x.driver /\ x.module = y.module
      <4>1. x.kind = "state"
        BY <1>3, <3>2 DEF Rightful, Sound
      <4>2. x.value <= y.value
        BY <1>5, <2>2, <3>2, <4>1 DEF Before
      <4>3. kept'[y.module] = x.value
        BY <1>2, <2>1, <3>2, FreshFacts
      <4> QED
        BY <4>2, <4>3
    <3>3. CASE ~(x.driver /\ x.module = y.module)
      <4>1. kept'[y.module] = kept[y.module]
        BY <1>2, <2>1, <3>3, FreshFacts
      <4> QED
        BY <3>1, <4>1
    <3> QED
      BY <3>2, <3>3
  <2>3. ASSUME OneQueue, ~y.late PROVE seen'[y.module] <= y.value
    <3>1. seen[y.module] <= y.value
      BY <1>5, <2>3 DEF Rightful, Ahead
    <3>2. CASE x.kind = "state" /\ x.module = y.module
      <4>1. x.value <= y.value
        BY <1>5, <2>3, <3>2 DEF Before
      <4>2. seen'[y.module] = x.value
        BY <1>2, <2>1, <3>2, FreshFacts
      <4> QED
        BY <4>1, <4>2
    <3>3. CASE ~(x.kind = "state" /\ x.module = y.module)
      <4>1. seen'[y.module] = seen[y.module]
        BY <1>2, <2>1, <3>3, FreshFacts
      <4> QED
        BY <3>1, <4>1
    <3> QED
      BY <3>2, <3>3
  <2> QED
    BY <2>2, <2>3
<1>6. Before(x, x)
  BY <1>1, <1>4 DEF Before
<1>7. /\ \A i \in DOMAIN critical : Ahead(critical[i])'
      /\ \A i \in DOMAIN states : Ahead(states[i])'
      /\ \A i \in DOMAIN hand' : Ahead(hand[i])'
  <2>1. /\ \A i \in DOMAIN critical : /\ critical[i] \in Message /\ Rightful(critical[i])
                                      /\ Before(x, critical[i])
        /\ \A i \in DOMAIN states : /\ states[i] \in Message /\ Rightful(states[i])
                                    /\ Before(x, states[i])
    BY <1>1, FreshFacts DEF Contents, Sorted
  <2>2. /\ \A i \in DOMAIN critical' : Ahead(critical[i])'
        /\ \A i \in DOMAIN states' : Ahead(states[i])'
    BY <1>5, <2>1
  <2>3. \A i \in DOMAIN hand' : hand'[i] = x
    BY <1>1
  <2>4. Ahead(x)'
    BY <1>1, <1>3, <1>5, <1>6
  <2>5. \A i \in DOMAIN hand' : Ahead(hand[i])'
    BY <2>3, <2>4
  <2> QED
    BY <2>2, <2>5
<1>8. Readings'
  <2>1. ASSUME NEW d \in Module PROVE kept'[d] <= value[d] /\ seen'[d] <= value[d]
    <3>1. kept[d] <= value[d] /\ seen[d] <= value[d]
      BY <1>1 DEF Readings
    <3>2. x.kind = "state" => x.module \in Module /\ x.value <= value[x.module]
      BY <1>3 DEF Rightful, Sound
    <3>3. x.driver => x.kind = "state"
      BY <1>3 DEF Rightful, Sound
    <3>4. kept'[d] = kept[d] \/ (x.kind = "state" /\ x.module = d /\ kept'[d] = x.value)
      BY <1>2, <3>3, FreshFacts
    <3>5. seen'[d] = seen[d] \/ (x.kind = "state" /\ x.module = d /\ seen'[d] = x.value)
      BY <1>2, FreshFacts
    <3> QED
      BY <3>1, <3>2, <3>4, <3>5
  <2> QED
    BY <1>1, <2>1 DEF Readings
<1> QED
  BY <1>7, <1>8, FewerFresh

\* Nothing that was shown or waits changes; a task may go on to the next module.
LEMMA QuietFresh ==
  ASSUME IInv, FreshInv, UNCHANGED <<mode, value, critical, states, seen, kept>>,
         hand' = hand \/ hand' = <<>>,
         \A t \in Task : disc'[t].step = "sleep" => disc'[t].snap <= value[Devices[disc'[t].at]]
  PROVE  FreshInv'
<1>1. Contents /\ Readings
  BY DEF FreshInv
<1>2. \A x : Rightful(x) => Ahead(x)'
  BY DEF Rightful, Ahead, OneQueue
<1>3. /\ \A i \in DOMAIN critical : Ahead(critical[i])'
      /\ \A i \in DOMAIN states : Ahead(states[i])'
  BY <1>1, <1>2 DEF Contents
<1>4. \A i \in DOMAIN hand' : Ahead(hand[i])'
  <2>1. \A i \in DOMAIN hand' : i \in DOMAIN hand /\ hand'[i] = hand[i]
    BY SMT
  <2> QED
    BY <1>1, <1>2, <2>1 DEF Contents
<1>5. Readings'
  BY <1>1 DEF Readings
<1> QED
  BY <1>3, <1>4, <1>5, FewerFresh

\* Where a task of the discovery stands once it has moved.
LEMMA MovesFacts ==
  ASSUME IInv, FreshInv, NEW t \in Task, NEW r \in Discovery,
         disc' = [disc EXCEPT ![t] = r],
         r.step = "sleep" => r.snap <= value[Devices[r.at]]
  PROVE  \A s \in Task : disc'[s].step = "sleep" => disc'[s].snap <= value[Devices[disc'[s].at]]
<1>1. \A s \in Task : disc[s].step = "sleep" => disc[s].snap <= value[Devices[disc[s].at]]
  BY DEF FreshInv, Readings
<1>2. \A s \in Task : disc'[s] = IF s = t THEN r ELSE disc[s]
  BY FreshFacts
<1> QED
  BY <1>1, <1>2

LEMMA FreshBegins == Init => FreshInv
<1> SUFFICES ASSUME Init PROVE FreshInv
  OBVIOUS
<1>1. DOMAIN critical = {} /\ DOMAIN states = {} /\ DOMAIN hand = {}
  BY EmptySeq DEF Init
<1>2. \A t \in Task : disc[t].step = "off"
  BY DiscoveryFacts DEF Init
<1>3. Readings
  BY <1>2 DEF Init, Readings
<1> QED
  BY <1>1, <1>3 DEF FreshInv, Contents, Placed, Sorted

LEMMA DriverFresh ==
  ASSUME IInv, FreshInv, NEW d \in Module, DriverPublishes(d)
  PROVE  FreshInv'
<1>1. /\ UNCHANGED <<mode, hand, seen, kept, disc>> /\ TypeOK
      /\ value[d] < MaxValue /\ value' = [value EXCEPT ![d] = value[d] + 1]
      /\ Put(DriverState(d, value[d] + 1))
  BY DEF IInv, DriverPublishes, broker
<1>2. value \in [Module -> 0 .. MaxValue] /\ value[d] \in 0 .. MaxValue /\ MaxValue \in Nat
  BY FreshFacts
<1>3. value[d] + 1 \in 0 .. MaxValue
  BY <1>1, <1>2
<1>4. /\ value' \in [Module -> 0 .. MaxValue] /\ value'[d] = value[d] + 1
      /\ \A e \in Module : value[e] <= value'[e]
  <2>1. \A e \in Module : value'[e] = (IF e = d THEN value[d] + 1 ELSE value[e])
                          /\ value[e] \in 0 .. MaxValue
    BY <1>1, <1>2
  <2> QED
    BY <1>1, <1>2, <1>3, <2>1
<1>5. PICK msg \in Message : msg = DriverState(d, value[d] + 1)
  BY <1>1, <1>3, DriverStateFacts
<1>6. /\ msg.kind = "state" /\ msg.module = d /\ msg.value = value[d] + 1 /\ ~msg.late
      /\ msg.driver /\ msg.qos = mode.qos /\ msg.retain = mode.retain
  BY <1>5 DEF DriverState
<1>7. \A t \in Task : disc'[t].step = "sleep" => disc'[t].snap <= value'[Devices[disc'[t].at]]
  <2>1. ASSUME NEW t \in Task, disc[t].step = "sleep"
        PROVE  disc[t].snap <= value'[Devices[disc[t].at]]
    <3>1. disc[t].at \in 1 .. Len(Devices) /\ disc[t].snap \in 0 .. MaxValue
      BY <2>1, FreshFacts, DiscoveryFacts, TopicFacts DEF IInv, Positions
    <3>2. Devices[disc[t].at] \in Module
      BY <3>1, TopicFacts
    <3>3. disc[t].snap <= value[Devices[disc[t].at]]
      BY <2>1 DEF FreshInv, Readings
    <3>4. value[Devices[disc[t].at]] <= value'[Devices[disc[t].at]]
      BY <1>4, <3>2
    <3>5. value[Devices[disc[t].at]] \in Nat /\ value'[Devices[disc[t].at]] \in Nat
      BY <1>2, <1>4, <3>2
    <3> QED
      BY <3>1, <3>3, <3>4, <3>5
  <2> QED
    BY <1>1, <2>1
<1>8. Put(msg)
  BY <1>1, <1>5
<1>9. msg.value = value'[msg.module] /\ msg.value <= value'[msg.module]
  BY <1>2, <1>4, <1>6
<1> QED
  BY <1>1, <1>4, <1>6, <1>7, <1>8, <1>9, PutFresh

LEMMA ReadsFresh ==
  ASSUME IInv, FreshInv, NEW t \in Task, ReadsModule(t)
  PROVE  FreshInv'
<1> DEFINE d == Devices[disc[t].at]
<1>1. UNCHANGED <<mode, value, hand, seen, kept>> /\ disc[t].step = "read"
  BY DEF ReadsModule, broker
<1>2. disc[t].at \in 1 .. Len(Devices)
  BY <1>1, FreshFacts, DiscoveryFacts, TopicFacts DEF IInv, Positions
<1>3. d \in Module /\ value[d] \in 0 .. MaxValue /\ 0 \in 0 .. MaxValue
  BY <1>2, FreshFacts, TopicFacts
<1>4. PICK v \in 0 .. MaxValue : /\ disc' = [disc EXCEPT ![t] = Sleeping(disc[t].at, v)]
                                 /\ v <= value[d]
                                 /\ Put(Config(d)) \/ UNCHANGED <<critical, states>>
  BY <1>3 DEF ReadsModule, containers
<1>5. \A s \in Task : disc'[s].step = "sleep" => disc'[s].snap <= value[Devices[disc'[s].at]]
  <2>1. PICK r \in Discovery : r = Sleeping(disc[t].at, v)
    BY <1>2, DiscoveryFacts
  <2>2. r.snap = v /\ r.at = disc[t].at
    BY <2>1 DEF Sleeping
  <2> QED
    BY <1>4, <2>1, <2>2, MovesFacts
<1>6. CASE Put(Config(d))
  <2>1. PICK msg \in Message : msg = Config(d)
    BY <1>3, ConfigFacts
  <2>2. msg.kind = "config" /\ ~msg.driver
    BY <2>1 DEF Config
  <2>3. Put(msg)
    BY <1>6, <2>1
  <2>4. value' \in [Module -> 0 .. MaxValue] /\ \A e \in Module : value[e] <= value'[e]
    BY <1>1, FreshFacts
  <2> QED
    BY <1>1, <1>5, <2>2, <2>3, <2>4, PutFresh
<1>7. CASE UNCHANGED <<critical, states>>
  BY <1>1, <1>5, <1>7, QuietFresh
<1> QED
  BY <1>4, <1>6, <1>7

LEMMA PutsFresh ==
  ASSUME IInv, FreshInv, NEW t \in Task, PutsModule(t)
  PROVE  FreshInv'
<1> DEFINE next == IF disc[t].at < Len(Devices) THEN AtModule(disc[t].at + 1) ELSE NotRunning
<1>1. /\ UNCHANGED <<mode, value, hand, seen, kept>> /\ disc[t].step = "sleep"
      /\ Put(Snapshot(Devices[disc[t].at], disc[t].snap))
      /\ disc' = [disc EXCEPT ![t] = next]
  BY DEF PutsModule, broker
<1>2. disc[t].at \in 1 .. Len(Devices) /\ disc[t].snap \in 0 .. MaxValue
  BY <1>1, FreshFacts, DiscoveryFacts, TopicFacts DEF IInv, Positions
<1>3. Devices[disc[t].at] \in Module
  BY <1>2, TopicFacts
<1>4. disc[t].snap <= value[Devices[disc[t].at]]
  BY <1>1 DEF FreshInv, Readings
<1>5. PICK msg \in Message : msg = Snapshot(Devices[disc[t].at], disc[t].snap)
  BY <1>2, <1>3, SnapshotFacts
<1>6. /\ msg.kind = "state" /\ msg.module \in Module /\ msg.value <= value[msg.module]
      /\ ~msg.late => msg.value = value[msg.module]
      /\ ~msg.driver /\ msg.qos = 0 /\ ~msg.retain
  BY <1>3, <1>4, <1>5 DEF Snapshot
<1>7. next \in Discovery /\ next.step # "sleep"
  <2>1. CASE disc[t].at < Len(Devices)
    <3>1. disc[t].at + 1 \in 1 .. Len(Devices)
      BY <1>2, <2>1, TopicFacts
    <3>2. AtModule(disc[t].at + 1) \in Discovery
      BY <3>1, DiscoveryFacts
    <3> QED
      BY <2>1, <3>2 DEF AtModule
  <2>2. CASE ~(disc[t].at < Len(Devices))
    BY <2>2, DiscoveryFacts
  <2> QED
    BY <2>1, <2>2
<1> HIDE DEF next
<1>8. \A s \in Task : disc'[s].step = "sleep" => disc'[s].snap <= value[Devices[disc'[s].at]]
  <2>1. PICK r \in Discovery : r = next
    BY <1>7
  <2> QED
    BY <1>1, <1>7, <2>1, MovesFacts
<1>9. value' \in [Module -> 0 .. MaxValue] /\ \A e \in Module : value[e] <= value'[e]
  BY <1>1, FreshFacts
<1>10. Put(msg)
  BY <1>1, <1>5
<1> QED
  BY <1>1, <1>6, <1>8, <1>9, <1>10, PutFresh

LEMMA AnnounceFresh ==
  ASSUME IInv, FreshInv, Announce
  PROVE  FreshInv'
<1>1. /\ UNCHANGED <<mode, value, hand, seen, kept>> /\ Put(Online)
      /\ disc' = [disc EXCEPT ![Configure] = AtModule(1)] /\ Configure \in Task
  BY DEF Announce, broker, Task
<1>2. PICK msg \in Message : msg = Online
  BY OnlineFacts DEF IInv
<1>3. msg.kind = "online" /\ ~msg.driver
  BY <1>2 DEF Online
<1>4. \A s \in Task : disc'[s].step = "sleep" => disc'[s].snap <= value[Devices[disc'[s].at]]
  <2>1. AtModule(1) \in Discovery /\ AtModule(1).step = "read"
    BY TopicFacts, DiscoveryFacts DEF AtModule
  <2> QED
    BY <1>1, <2>1, MovesFacts
<1>5. value' \in [Module -> 0 .. MaxValue] /\ \A e \in Module : value[e] <= value'[e]
  BY <1>1, FreshFacts
<1>6. Put(msg)
  BY <1>1, <1>2
<1> QED
  BY <1>1, <1>3, <1>4, <1>5, <1>6, PutFresh

LEMMA RefreshesFresh ==
  ASSUME IInv, FreshInv, NEW t \in Refresher, Refreshes(t)
  PROVE  FreshInv'
<1>1. /\ UNCHANGED <<mode, value, critical, states, hand, seen, kept>> /\ t \in Task
      /\ disc' = [disc EXCEPT ![t] = AtModule(1)] \/ disc' = disc
  BY DEF Refreshes, containers, broker, Task
<1>2. \A s \in Task : disc'[s].step = "sleep" => disc'[s].snap <= value[Devices[disc'[s].at]]
  <2>1. AtModule(1) \in Discovery /\ AtModule(1).step = "read"
    BY TopicFacts, DiscoveryFacts DEF AtModule
  <2>2. CASE disc' = [disc EXCEPT ![t] = AtModule(1)]
    BY <1>1, <2>1, <2>2, MovesFacts
  <2>3. CASE disc' = disc
    BY <2>3 DEF FreshInv, Readings
  <2> QED
    BY <1>1, <2>2, <2>3
<1> QED
  BY <1>1, <1>2, QuietFresh

\* Home Assistant shows what the broker kept, or nothing.
LEMMA RestartsFresh ==
  ASSUME IInv, FreshInv, HomeAssistantRestarts
  PROVE  FreshInv'
<1>1. /\ UNCHANGED <<mode, value, critical, states, hand, disc, kept>>
      /\ seen' = IF mode.retain THEN kept ELSE [d \in Module |-> 0]
      /\ Contents /\ Readings
  BY DEF FreshInv, HomeAssistantRestarts, containers
<1>2. ASSUME NEW x \in Message, Rightful(x)
      PROVE  Ahead(x)'
  <2> SUFFICES ASSUME x.kind = "state"
               PROVE  /\ x.driver => kept[x.module] <= x.value
                      /\ (OneQueue /\ ~x.late) => seen'[x.module] <= x.value
    BY <1>1 DEF Ahead, OneQueue
  <2>1. x.driver => kept[x.module] <= x.value
    BY <1>2 DEF Rightful, Ahead
  <2>2. OneQueue => seen'[x.module] = 0
    BY <1>1, <1>2 DEF OneQueue, Rightful, Sound
  <2>3. x.value \in Nat
    BY FreshFacts DEF Message
  <2> QED
    BY <2>1, <2>2, <2>3
<1>3. /\ \A i \in DOMAIN critical : Ahead(critical[i])'
      /\ \A i \in DOMAIN states : Ahead(states[i])'
      /\ \A i \in DOMAIN hand' : Ahead(hand[i])'
  <2>1. /\ \A i \in DOMAIN critical' : critical[i] \in Message /\ Rightful(critical[i])
        /\ \A i \in DOMAIN states' : states[i] \in Message /\ Rightful(states[i])
        /\ \A i \in DOMAIN hand' : hand[i] \in Message /\ Rightful(hand[i])
    BY <1>1, FreshFacts DEF Contents
  <2>2. /\ \A i \in DOMAIN critical' : Ahead(critical[i])'
        /\ \A i \in DOMAIN states' : Ahead(states[i])'
        /\ \A i \in DOMAIN hand' : Ahead(hand[i])'
    BY <1>1, <1>2, <2>1
  <2> QED
    BY <1>1, <2>2
<1>4. Readings'
  <2>1. \A d \in Module : kept[d] <= value[d] /\ seen'[d] <= value[d]
    BY <1>1, FreshFacts DEF Readings
  <2> QED
    BY <1>1, <2>1 DEF Readings
<1> QED
  BY <1>1, <1>3, <1>4, FewerFresh

\* What the broker and Home Assistant are told is never older than what they had,
\* but for the snapshots that were late when they were put.
LEMMA ShowsFresh ==
  ASSUME IInv, FreshInv, NEW i \in DOMAIN hand
  PROVE  /\ (hand[i].kind = "state" /\ hand[i].driver) => hand[i].value >= kept[hand[i].module]
         /\ (Older(hand[i]) /\ OneQueue) => hand[i].late
<1>1. hand[i] \in Message /\ Rightful(hand[i])
  BY FreshFacts DEF FreshInv, Contents
<1>2. \A d \in Module : kept[d] \in Nat /\ seen[d] \in Nat
  BY FreshFacts
<1>3. hand[i].value \in Nat /\ hand[i].late \in BOOLEAN
  BY <1>1, FreshFacts DEF Message
<1>4. hand[i].kind = "state" => hand[i].module \in Module
  BY <1>1 DEF Rightful, Sound
<1> QED
  BY <1>1, <1>2, <1>3, <1>4 DEF Rightful, Ahead, Older

THEOREM FreshInductive == IInv /\ FreshInv /\ [Next]_vars => FreshInv'
<1> SUFFICES ASSUME IInv, FreshInv, [Next]_vars
             PROVE  FreshInv'
  OBVIOUS
<1>1. \A t \in Task : disc[t].step = "sleep" => disc[t].snap <= value[Devices[disc[t].at]]
  BY DEF FreshInv, Readings
<1>2. CASE Take
  BY <1>2, TakeFresh
<1>3. CASE Deliver
  BY <1>3, ReceiveFresh DEF Deliver, containers
<1>4. CASE Break
  <2>1. UNCHANGED <<mode, value, critical, states, disc>>
    BY <1>4 DEF Break, containers
  <2>2. CASE Unsent \/ Lost
    BY <1>1, <2>1, <2>2, QuietFresh DEF Unsent, Lost
  <2>3. CASE Unacked
    BY <2>1, <2>3, ReceiveFresh DEF Unacked
  <2> QED
    BY <1>4, <2>2, <2>3 DEF Break
<1>5. CASE PublishFails \/ Reconnect \/ ConnectFirst \/ ConnectFails \/ Wakes \/ Subscribe
           \/ Configured \/ UNCHANGED vars
  <2>1. /\ UNCHANGED <<mode, value, critical, states, seen, kept, disc>>
        /\ hand' = hand \/ hand' = <<>>
    BY <1>5 DEF PublishFails, Reconnect, ConnectFirst, ConnectFails, Wakes, Subscribe,
                Configured, vars, containers, client, broker
  <2> QED
    BY <1>1, <2>1, QuietFresh
<1>6. CASE HomeAssistantRestarts
  BY <1>6, RestartsFresh
<1>7. CASE \E d \in Module : DriverPublishes(d)
  BY <1>7, DriverFresh
<1>8. CASE Announce \/ (\E t \in Task : Discovers(t)) \/ (\E t \in Refresher : Refreshes(t))
  BY <1>8, AnnounceFresh, ReadsFresh, PutsFresh, RefreshesFresh DEF Discovers
<1> QED
  BY <1>2, <1>3, <1>4, <1>5, <1>6, <1>7, <1>8 DEF Next

\* No message takes a module back in time at the broker or in Home Assistant, but
\* for a snapshot of a discovery that was out of date when it was put: for every
\* number of modules, both limits, any setting of QoS and retain, and whatever
\* breaks, fails, is dropped, is sent twice or restarts.
THEOREM FreshHolds == Spec => Fresh
<1>1. Init => IInv /\ FreshInv
  BY Initial, FreshBegins
<1>2. (IInv /\ FreshInv) /\ [Next]_vars => (IInv /\ FreshInv)'
  BY Inductive, FreshInductive
<1>3. (IInv /\ FreshInv) /\ [Next]_vars =>
        [\A msg \in {hand[i] : i \in DOMAIN hand} :
           (hand' = <<>> /\ seen' # seen) =>
              /\ (msg.kind = "state" /\ msg.driver) => msg.value >= kept[msg.module]
              /\ (Older(msg) /\ OneQueue) => msg.late]_vars
  BY ShowsFresh
<1> QED
  BY <1>1, <1>2, <1>3, PTL DEF Spec, Fresh

-----------------------------------------------------------------------------
(***************************************************************************)
(* The client below (MqttLink).  An acknowledgement is that of the call    *)
(* that awaits it, and the ring hands the messages of the broker on in     *)
(* their order, for any number of calls, messages, repeats and breaks, and *)
(* for a ring of any size.                                                 *)
(***************************************************************************)

Slots == 0 .. RingSize - 1
Rings == [slot : [Slots -> Nat], read : Slots, write : Slots, discards : Nat]

\* Counting around the ring.
Round(x) == x % RingSize

\* How many messages a ring holds, where the i-th of them is, and all of them.
HeldIn(q) == Round(q.write + RingSize - q.read)
Place(q, i) == Round(q.read + i - 1)
Messages(q) == [i \in 1 .. HeldIn(q) |-> q.slot[Place(q, i)]]

LEMMA SizeFacts == RingSize \in Nat /\ RingSize >= 2
BY RingAssumption

LEMMA RoundFacts ==
  ASSUME NEW x \in Nat, x < RingSize + RingSize
  PROVE  Round(x) = IF x < RingSize THEN x ELSE x - RingSize
<1>1. RingSize \in Nat /\ RingSize >= 2
  BY SizeFacts
<1>2. x % RingSize = IF x < RingSize THEN x ELSE x - RingSize
  <2>1. CASE x < RingSize
    BY <1>1, <2>1
  <2>2. CASE x >= RingSize
    <3>1. x - RingSize \in 0 .. RingSize - 1 /\ x = RingSize * 1 + (x - RingSize)
      BY <1>1, <2>2
    <3> QED
      BY <1>1, <2>2, <3>1
  <2> QED
    BY <1>1, <2>1, <2>2
<1> QED
  BY <1>2 DEF Round

LEMMA NextPlace ==
  ASSUME NEW x \in Slots
  PROVE  /\ Round(x + 1) = IF x + 1 < RingSize THEN x + 1 ELSE 0
         /\ Round(x + 1) \in Slots
<1>1. /\ x + 1 \in Nat /\ x + 1 < RingSize + RingSize
      /\ x \in Nat /\ x + 1 <= RingSize
  BY SizeFacts DEF Slots
<1>2. Round(x + 1) = IF x + 1 < RingSize THEN x + 1 ELSE x + 1 - RingSize
  BY <1>1, RoundFacts, SizeFacts
<1> QED
  BY <1>1, <1>2, SizeFacts DEF Slots

LEMMA HeldFacts ==
  ASSUME NEW q \in Rings
  PROVE  /\ HeldIn(q) = IF q.write >= q.read THEN q.write - q.read
                        ELSE q.write + RingSize - q.read
         /\ HeldIn(q) \in Nat /\ HeldIn(q) < RingSize
<1>1. /\ q.read \in Nat /\ q.read < RingSize
      /\ q.write \in Nat /\ q.write < RingSize
  BY SizeFacts DEF Rings, Slots
<1>2. /\ q.write + RingSize - q.read \in Nat
      /\ q.write + RingSize - q.read < RingSize + RingSize
  BY <1>1, SizeFacts
<1>3. HeldIn(q) = IF q.write + RingSize - q.read < RingSize
                  THEN q.write + RingSize - q.read
                  ELSE q.write + RingSize - q.read - RingSize
  <2> DEFINE y == q.write + RingSize - q.read
  <2>1. y \in Nat /\ y < RingSize + RingSize /\ HeldIn(q) = Round(y)
    BY <1>2 DEF HeldIn
  <2> HIDE DEF y
  <2>2. Round(y) = IF y < RingSize THEN y ELSE y - RingSize
    BY <2>1, RoundFacts
  <2> QED
    BY <1>1, <2>1, <2>2, SizeFacts DEF y
<1> QED
  BY <1>1, <1>3, SizeFacts

LEMMA PlaceFacts ==
  ASSUME NEW q \in Rings, NEW i \in 1 .. RingSize
  PROVE  /\ Place(q, i) = IF q.read + i - 1 < RingSize THEN q.read + i - 1
                          ELSE q.read + i - 1 - RingSize
         /\ Place(q, i) \in Slots
<1>1. q.read \in Nat /\ q.read < RingSize
  BY SizeFacts DEF Rings, Slots
<1>2. q.read + i - 1 \in Nat /\ q.read + i - 1 < RingSize + RingSize
  BY <1>1, SizeFacts
<1>3. Place(q, i) = IF q.read + i - 1 < RingSize THEN q.read + i - 1
                    ELSE q.read + i - 1 - RingSize
  <2> DEFINE y == q.read + i - 1
  <2>1. y \in Nat /\ y < RingSize + RingSize /\ Place(q, i) = Round(y)
    BY <1>2 DEF Place
  <2> HIDE DEF y
  <2>2. Round(y) = IF y < RingSize THEN y ELSE y - RingSize
    BY <2>1, RoundFacts
  <2> QED
    BY <1>1, <2>1, <2>2, SizeFacts DEF y
<1> QED
  BY <1>1, <1>3, SizeFacts DEF Slots

LEMMA MessagesFacts ==
  ASSUME NEW q \in Rings
  PROVE  /\ Messages(q) \in Seq(Nat)
         /\ Len(Messages(q)) = HeldIn(q) /\ DOMAIN Messages(q) = 1 .. HeldIn(q)
         /\ \A i \in 1 .. HeldIn(q) : Messages(q)[i] = q.slot[Place(q, i)]
<1>1. HeldIn(q) \in Nat /\ HeldIn(q) < RingSize
  BY HeldFacts
<1>2. \A i \in 1 .. HeldIn(q) : Place(q, i) \in Slots
  BY <1>1, PlaceFacts, SizeFacts
<1>3. q.slot \in [Slots -> Nat]
  BY DEF Rings
<1>4. Messages(q) \in [1 .. HeldIn(q) -> Nat]
  BY <1>2, <1>3 DEF Messages
<1> QED
  BY <1>1, <1>4, SeqDef, LenProperties DEF Messages

\* MsgQueue.put
LEMMA PutInRingFacts ==
  ASSUME NEW q \in Rings, NEW n \in Nat
  PROVE  /\ PutInRing(q, n) \in Rings
         /\ LET all == Append(Messages(q), n) IN
              Messages(PutInRing(q, n)) = IF Len(all) = RingSize THEN Tail(all) ELSE all
         /\ PutInRing(q, n).discards - q.discards
              = Len(Messages(q)) + 1 - Len(Messages(PutInRing(q, n)))
<1> DEFINE p == PutInRing(q, n)
           next == Round(q.write + 1)
           all == Append(Messages(q), n)
<1>1. /\ q.slot \in [Slots -> Nat] /\ q.read \in Slots /\ q.write \in Slots
      /\ q.discards \in Nat
  BY DEF Rings
<1>2. /\ next = IF q.write + 1 < RingSize THEN q.write + 1 ELSE 0
      /\ next \in Slots
  BY <1>1, NextPlace
<1>3. /\ Round(q.read + 1) = IF q.read + 1 < RingSize THEN q.read + 1 ELSE 0
      /\ Round(q.read + 1) \in Slots
  BY <1>1, NextPlace
<1>4. /\ p.slot = [q.slot EXCEPT ![q.write] = n] /\ p.write = next
      /\ p.read = IF next = q.read THEN Round(q.read + 1) ELSE q.read
      /\ p.discards = IF next = q.read THEN q.discards + 1 ELSE q.discards
  BY DEF PutInRing, Round
<1>5. p \in Rings
  <2>1. p.slot \in [Slots -> Nat]
    BY <1>1, <1>4
  <2>2. p.write \in Slots /\ p.read \in Slots /\ p.discards \in Nat
    BY <1>1, <1>2, <1>3, <1>4
  <2>3. p = [slot |-> p.slot, write |-> p.write, read |-> p.read, discards |-> p.discards]
    BY DEF PutInRing
  <2> HIDE DEF p
  <2> QED
    BY <2>1, <2>2, <2>3 DEF Rings
<1> HIDE DEF p, next
<1>6. /\ Messages(q) \in Seq(Nat) /\ Len(Messages(q)) = HeldIn(q)
      /\ DOMAIN Messages(q) = 1 .. HeldIn(q)
      /\ \A i \in 1 .. HeldIn(q) : Messages(q)[i] = q.slot[Place(q, i)]
  BY MessagesFacts
<1>7. /\ Messages(p) \in Seq(Nat) /\ Len(Messages(p)) = HeldIn(p)
      /\ DOMAIN Messages(p) = 1 .. HeldIn(p)
      /\ \A i \in 1 .. HeldIn(p) : Messages(p)[i] = p.slot[Place(p, i)]
  BY <1>5, MessagesFacts
<1>8. /\ all \in Seq(Nat) /\ Len(all) = HeldIn(q) + 1 /\ DOMAIN all = 1 .. HeldIn(q) + 1
      /\ \A i \in 1 .. HeldIn(q) : all[i] = Messages(q)[i]
      /\ all[HeldIn(q) + 1] = n
  BY <1>6, AppendProperties, LenProperties
<1> HIDE DEF all
<1>9. /\ HeldIn(q) \in Nat /\ HeldIn(q) < RingSize
      /\ HeldIn(q) = IF q.write >= q.read THEN q.write - q.read
                     ELSE q.write + RingSize - q.read
      /\ HeldIn(p) \in Nat /\ HeldIn(p) < RingSize
      /\ HeldIn(p) = IF p.write >= p.read THEN p.write - p.read
                     ELSE p.write + RingSize - p.read
  BY <1>5, HeldFacts
<1>10. /\ q.write \in Nat /\ q.write < RingSize /\ q.read \in Nat /\ q.read < RingSize
       /\ RingSize \in Nat /\ RingSize >= 2
  BY <1>1, SizeFacts DEF Slots
<1>11. ASSUME NEW i \in 1 .. HeldIn(q) + 1
       PROVE  p.slot[Place(q, i)] = all[i]
  <2>1. /\ Place(q, i) \in Slots
        /\ Place(q, i) = IF q.read + i - 1 < RingSize THEN q.read + i - 1
                         ELSE q.read + i - 1 - RingSize
    <3>1. i \in 1 .. RingSize
      BY <1>9, <1>10
    <3> QED
      BY <3>1, PlaceFacts
  <2>2. CASE i \in 1 .. HeldIn(q)
    <3>1. Place(q, i) # q.write
      BY <1>9, <1>10, <2>1, <2>2
    <3> QED
      BY <1>1, <1>4, <1>6, <1>8, <2>1, <2>2, <3>1
  <2>3. CASE i = HeldIn(q) + 1
    <3>1. Place(q, i) = q.write
      BY <1>9, <1>10, <2>1, <2>3
    <3> QED
      BY <1>1, <1>4, <1>8, <2>3, <3>1
  <2> QED
    BY <1>9, <2>2, <2>3
<1>12. CASE next # q.read
  <2>1. HeldIn(p) = HeldIn(q) + 1
    BY <1>2, <1>4, <1>9, <1>10, <1>12
  <2>2. \A i \in 1 .. HeldIn(p) : Place(p, i) = Place(q, i)
    BY <1>4, <1>12 DEF Place
  <2>3. HeldIn(q) + 1 # RingSize
    BY <1>9, <2>1
  <2>4. \A i \in 1 .. HeldIn(p) : Messages(p)[i] = all[i]
    BY <1>7, <1>11, <2>1, <2>2
  <2>5. Messages(p) = all
    BY <1>7, <1>8, <1>9, <2>1, <2>4, SeqEqual
  <2>6. p.discards = q.discards
    BY <1>4, <1>12
  <2> QED
    BY <1>1, <1>5, <1>6, <1>7, <1>8, <1>9, <2>1, <2>3, <2>5, <2>6 DEF p, all
<1>13. CASE next = q.read
  <2>1. HeldIn(q) + 1 = RingSize /\ HeldIn(p) = HeldIn(q)
    BY <1>2, <1>3, <1>4, <1>9, <1>10, <1>13
  <2>2. ASSUME NEW i \in 1 .. HeldIn(p)
        PROVE  Place(p, i) = Place(q, i + 1)
    <3>1. i \in 1 .. RingSize /\ i + 1 \in 1 .. RingSize
      BY <1>9, <1>10, <2>1
    <3>2. /\ Place(p, i) = IF p.read + i - 1 < RingSize THEN p.read + i - 1
                           ELSE p.read + i - 1 - RingSize
          /\ Place(q, i + 1) = IF q.read + (i + 1) - 1 < RingSize THEN q.read + (i + 1) - 1
                               ELSE q.read + (i + 1) - 1 - RingSize
      BY <1>5, <3>1, PlaceFacts
    <3> QED
      BY <1>3, <1>4, <1>9, <1>10, <1>13, <2>1, <3>1, <3>2
  <2>3. \A i \in 1 .. HeldIn(p) : Messages(p)[i] = all[i + 1]
    BY <1>7, <1>9, <1>11, <2>1, <2>2
  <2>4. /\ Tail(all) \in Seq(Nat) /\ Len(Tail(all)) = HeldIn(q)
        /\ \A i \in 1 .. HeldIn(q) : Tail(all)[i] = all[i + 1]
    BY <1>8, <1>9, HeadTailProperties, EmptySeq
  <2>5. Messages(p) = Tail(all)
    BY <1>7, <2>1, <2>3, <2>4, SeqEqual
  <2>6. p.discards = q.discards + 1
    BY <1>4, <1>13
  <2> QED
    BY <1>1, <1>5, <1>6, <1>7, <1>8, <1>9, <2>1, <2>5, <2>6 DEF p, all
<1> QED
  BY <1>12, <1>13

\* MsgQueue.__anext__
LEMMA TakeFromRingFacts ==
  ASSUME NEW q \in Rings, q.read # q.write
  PROVE  LET p == [q EXCEPT !.read = (q.read + 1) % RingSize] IN
           /\ p \in Rings
           /\ HeldIn(q) >= 1 /\ Messages(q)[1] = q.slot[q.read]
           /\ HeldIn(p) = HeldIn(q) - 1
           /\ \A i \in 1 .. HeldIn(p) : Messages(p)[i] = Messages(q)[i + 1]
<1> DEFINE p == [q EXCEPT !.read = (q.read + 1) % RingSize]
<1>1. /\ q.slot \in [Slots -> Nat] /\ q.read \in Slots /\ q.write \in Slots
      /\ q.discards \in Nat
  BY DEF Rings
<1>2. /\ Round(q.read + 1) = IF q.read + 1 < RingSize THEN q.read + 1 ELSE 0
      /\ Round(q.read + 1) \in Slots
  BY <1>1, NextPlace
<1>3. p = [q EXCEPT !.read = Round(q.read + 1)]
  BY DEF Round
<1> HIDE DEF p
<1>4. /\ p \in Rings /\ p.slot = q.slot /\ p.write = q.write
      /\ p.read = Round(q.read + 1)
  BY <1>2, <1>3 DEF Rings
<1>5. /\ HeldIn(q) \in Nat /\ HeldIn(q) < RingSize
      /\ HeldIn(q) = IF q.write >= q.read THEN q.write - q.read
                     ELSE q.write + RingSize - q.read
      /\ HeldIn(p) \in Nat /\ HeldIn(p) < RingSize
      /\ HeldIn(p) = IF p.write >= p.read THEN p.write - p.read
                     ELSE p.write + RingSize - p.read
  BY <1>4, HeldFacts
<1>6. /\ q.write \in Nat /\ q.write < RingSize /\ q.read \in Nat /\ q.read < RingSize
      /\ RingSize \in Nat /\ RingSize >= 2
  BY <1>1, SizeFacts DEF Slots
<1>7. HeldIn(q) >= 1 /\ HeldIn(p) = HeldIn(q) - 1
  BY <1>2, <1>4, <1>5, <1>6
<1>8. ASSUME NEW i \in 1 .. HeldIn(p)
      PROVE  Place(p, i) = Place(q, i + 1)
  <2>1. i \in 1 .. RingSize /\ i + 1 \in 1 .. RingSize
    BY <1>5, <1>6, <1>7
  <2>2. /\ Place(p, i) = IF p.read + i - 1 < RingSize THEN p.read + i - 1
                         ELSE p.read + i - 1 - RingSize
        /\ Place(q, i + 1) = IF q.read + (i + 1) - 1 < RingSize THEN q.read + (i + 1) - 1
                             ELSE q.read + (i + 1) - 1 - RingSize
    BY <1>4, <2>1, PlaceFacts
  <2> QED
    BY <1>2, <1>4, <1>5, <1>6, <1>7, <2>1, <2>2
<1>9. \A i \in 1 .. HeldIn(p) : Messages(p)[i] = Messages(q)[i + 1]
  <2> TAKE i \in 1 .. HeldIn(p)
  <2>1. i + 1 \in 1 .. HeldIn(q)
    BY <1>5, <1>7
  <2> QED
    BY <1>4, <1>8, <2>1, MessagesFacts
<1>10. Messages(q)[1] = q.slot[q.read]
  <2>1. 1 \in 1 .. RingSize /\ 1 \in 1 .. HeldIn(q)
    BY <1>5, <1>6, <1>7
  <2>2. Place(q, 1) = q.read
    BY <1>6, <2>1, PlaceFacts
  <2> QED
    BY <2>1, <2>2, MessagesFacts
<1> QED
  BY <1>4, <1>7, <1>9, <1>10 DEF p

-----------------------------------------------------------------------------
(* Calls and packets.                                                      *)

Stages == {"idle", "entering", "locked", "waiting"}
CallRecords == [at : Stages, pid : 0 .. newPid - 1, repeats : 0 .. MaxRepubs]

\* Only the types.
Linked ==
  /\ connected \in BOOLEAN /\ silent \in BOOLEAN /\ subscribed \in BOOLEAN
  /\ newPid \in Nat \ {0} /\ pids \subseteq 1 .. newPid - 1
  /\ call \in [Caller -> CallRecords] /\ made \in [Caller -> Nat]
  /\ received \in Nat /\ issued \in Nat /\ taken \in Nat
  /\ out \in Seq(Packet) /\ inn \in Seq(Packet) /\ ring \in Rings

\* A call that has an identifier, and what it waits for.
Active(c) == call[c].at \in {"locked", "waiting"}
Achieved(c) ==
  IF c = Worker THEN received >= made[Worker] ELSE connected => subscribed

\* An identifier that nobody waits for any more is that of a call that has achieved what it
\* is about.
Calling ==
  /\ received <= made[Worker]
  /\ \A c \in Caller :
       /\ call[c].at = "waiting" => Awaits(c)
       /\ (Active(c) /\ Awaits(c)) => (call[c].pid \in pids \/ Achieved(c))
  /\ (Active(Worker) /\ Active(Subscriber)) => call[Worker].pid # call[Subscriber].pid

OfCall(p, c) == Active(c) /\ p.pid = call[c].pid

\* The messages of a line, each at least d after the one before.
Ordered(s, d) ==
  \A i, j \in DOMAIN s :
    (i < j /\ s[i].kind = "publish" /\ s[j].kind = "publish") => s[i].what + d <= s[j].what

\* A packet on its way to the broker.
Leaving(p) ==
  /\ p.pid < newPid
  /\ p.kind = "publish" => received <= p.what /\ p.what <= made[Worker]
  /\ \A c \in Caller :
       (p.kind # "ack" /\ OfCall(p, c)) =>
         IF c = Worker THEN p.kind = "publish" /\ p.what = made[Worker]
         ELSE p.kind = "subscribe"

\* A packet of the broker: an acknowledgement comes after what it acknowledges, and a message
\* after all that are in the ring.
Arriving(p) ==
  /\ p.pid < newPid
  /\ p.kind = "ack" => \A c \in Caller : OfCall(p, c) => Achieved(c)
  /\ p.kind = "publish" =>
       /\ taken < p.what /\ p.what <= issued
       /\ \A i \in DOMAIN Messages(ring) : Messages(ring)[i] < p.what

Outgoing == Ordered(out, 0) /\ \A i \in DOMAIN out : Leaving(out[i])
Incoming == Ordered(inn, 1) /\ \A i \in DOMAIN inn : Arriving(inn[i])

\* What the ring holds comes from the broker, oldest first, after what was taken.
Ringed ==
  /\ taken <= issued
  /\ \A i \in DOMAIN Messages(ring) :
       /\ Messages(ring)[i] <= issued
       /\ (IF i = 1 THEN taken ELSE Messages(ring)[i - 1]) < Messages(ring)[i]

LinkInv == Linked /\ Ringed /\ Calling /\ Outgoing /\ Incoming

LEMMA HeldIsMessages == Held = Messages(ring) /\ Held' = Messages(ring')
BY DEF Held, Messages, HeldIn, Place, Round

LEMMA CallerFacts ==
  /\ Worker \in Caller /\ Subscriber \in Caller /\ Worker # Subscriber
  /\ \A c \in Caller : c = Worker \/ c = Subscriber
  /\ MaxRepubs \in Nat
BY CallersAssumption, RingAssumption DEF Caller

LEMMA OrderedFacts ==
  ASSUME NEW s \in Seq(Packet), NEW d \in Nat, Ordered(s, d)
  PROVE  /\ s # <<>> =>
              /\ Ordered(Tail(s), d)
              /\ Head(s).kind = "publish" =>
                   \A i \in DOMAIN Tail(s) :
                     Tail(s)[i].kind = "publish" => Head(s).what + d <= Tail(s)[i].what
         /\ \A x \in Packet :
              (x.kind = "publish" =>
                 \A i \in DOMAIN s : s[i].kind = "publish" => s[i].what + d <= x.what)
              => Ordered(Append(s, x), d)
<1>1. Len(s) \in Nat /\ DOMAIN s = 1 .. Len(s)
  BY LenProperties
<1>2. ASSUME s # <<>>
      PROVE  /\ Ordered(Tail(s), d)
             /\ Head(s).kind = "publish" =>
                  \A i \in DOMAIN Tail(s) :
                    Tail(s)[i].kind = "publish" => Head(s).what + d <= Tail(s)[i].what
  <2>1. /\ Len(s) >= 1 /\ Head(s) = s[1] /\ DOMAIN Tail(s) = 1 .. Len(s) - 1
        /\ \A i \in 1 .. Len(s) - 1 : Tail(s)[i] = s[i + 1]
    <3>1. /\ Len(s) >= 1 /\ Head(s) = s[1] /\ Tail(s) \in Seq(Packet)
          /\ Len(Tail(s)) = Len(s) - 1
          /\ \A i \in 1 .. Len(Tail(s)) : Tail(s)[i] = s[i + 1]
      BY <1>1, <1>2, HeadTailProperties, EmptySeq
    <3> QED
      BY <3>1, LenProperties
  <2>2. \A i \in 1 .. Len(s) - 1 : i + 1 \in 1 .. Len(s) /\ 1 < i + 1
    BY <1>1
  <2>3. 1 \in 1 .. Len(s)
    BY <1>1, <2>1
  <2>4. Ordered(Tail(s), d)
    <3> SUFFICES ASSUME NEW i \in 1 .. Len(s) - 1, NEW j \in 1 .. Len(s) - 1, i < j,
                        Tail(s)[i].kind = "publish", Tail(s)[j].kind = "publish"
                 PROVE  Tail(s)[i].what + d <= Tail(s)[j].what
      BY <2>1 DEF Ordered
    <3>1. i + 1 < j + 1
      BY <1>1
    <3> QED
      BY <1>1, <2>1, <2>2, <3>1 DEF Ordered
  <2> QED
    BY <1>1, <2>1, <2>2, <2>3, <2>4 DEF Ordered
<1>3. ASSUME NEW x \in Packet,
             x.kind = "publish" =>
               \A i \in DOMAIN s : s[i].kind = "publish" => s[i].what + d <= x.what
      PROVE  Ordered(Append(s, x), d)
  <2>1. /\ DOMAIN Append(s, x) = 1 .. Len(s) + 1
        /\ \A i \in 1 .. Len(s) : Append(s, x)[i] = s[i]
        /\ Append(s, x)[Len(s) + 1] = x
    <3>1. /\ Append(s, x) \in Seq(Packet) /\ Len(Append(s, x)) = Len(s) + 1
          /\ \A i \in 1 .. Len(s) : Append(s, x)[i] = s[i]
          /\ Append(s, x)[Len(s) + 1] = x
      BY AppendProperties
    <3> QED
      BY <1>1, <3>1, LenProperties
  <2> DEFINE a == Append(s, x)
  <2> HIDE DEF a
  <2>2. ASSUME NEW i \in 1 .. Len(s) + 1, NEW j \in 1 .. Len(s) + 1, i < j,
               a[i].kind = "publish", a[j].kind = "publish"
        PROVE  a[i].what + d <= a[j].what
    <3>1. i \in 1 .. Len(s)
      BY <1>1, <2>2
    <3>2. CASE j \in 1 .. Len(s)
      BY <1>1, <2>1, <2>2, <3>1, <3>2 DEF Ordered, a
    <3>3. CASE j = Len(s) + 1
      BY <1>1, <1>3, <2>1, <2>2, <3>1, <3>3 DEF a
    <3> QED
      BY <1>1, <3>2, <3>3
  <2> QED
    BY <2>1, <2>2 DEF Ordered, a
<1> QED
  BY <1>2, <1>3

LEMMA StandsFacts ==
  ASSUME Linked, NEW c \in Caller, NEW at \in Stages, Stands(c, at), newPid' = newPid
  PROVE  /\ call' \in [Caller -> CallRecords']
         /\ call'[c].at = at /\ call'[c].pid = call[c].pid
         /\ call'[c].repeats = call[c].repeats
         /\ \A d \in Caller \ {c} : call'[d] = call[d]
<1>1. call \in [Caller -> CallRecords] /\ CallRecords' = CallRecords
  BY DEF Linked, CallRecords
<1>2. [call[c] EXCEPT !.at = at] \in CallRecords
  BY <1>1 DEF CallRecords
<1>3. call' = [call EXCEPT ![c] = [call[c] EXCEPT !.at = at]]
  BY DEF Stands
<1> QED
  BY <1>1, <1>2, <1>3 DEF CallRecords

\* Calls that go on, fail or end, on a connection that stays or goes.
LEMMA CalmerKeeps ==
  ASSUME LinkInv, Linked',
         UNCHANGED <<newPid, received, issued, ring, taken>>,
         made'[Worker] >= made[Worker],
         out' \in {out, << >>}, inn' \in {inn, << >>},
         \A c \in Caller :
           /\ call'[c].at = "waiting" => call[c].at = "waiting"
           /\ Active(c)' =>
                /\ Active(c) /\ call'[c].pid = call[c].pid /\ made'[c] = made[c]
                /\ call[c].pid \in pids => call[c].pid \in pids'
                /\ (connected => subscribed) => (connected' => subscribed')
  PROVE  LinkInv'
<1>1. /\ received \in Nat /\ received' = received /\ newPid' = newPid
      /\ made[Worker] \in Nat /\ made'[Worker] \in Nat
  BY CallerFacts DEF LinkInv, Linked
<1>2. \A c \in Caller : Active(c)' => (Achieved(c) => Achieved(c)')
  BY <1>1, CallerFacts DEF Achieved
<1>3. Ringed'
  BY DEF LinkInv, Ringed
<1>4. Calling'
  <2>1. \A c \in Caller : Awaits(c)' = Awaits(c)
    BY DEF Awaits
  <2>2. received' <= made'[Worker]
    BY <1>1 DEF LinkInv, Calling
  <2>3. ASSUME NEW c \in Caller
        PROVE  /\ call'[c].at = "waiting" => Awaits(c)
               /\ (Active(c)' /\ Awaits(c)) => (call'[c].pid \in pids' \/ Achieved(c)')
    BY <1>2 DEF LinkInv, Calling
  <2>4. (Active(Worker)' /\ Active(Subscriber)') => call'[Worker].pid # call'[Subscriber].pid
    BY CallerFacts DEF LinkInv, Calling
  <2> QED
    BY <2>1, <2>2, <2>3, <2>4 DEF Calling
<1>5. Outgoing'
  <2>1. ASSUME NEW i \in DOMAIN out' PROVE Leaving(out[i])'
    <3>1. out' = out /\ Leaving(out[i]) /\ out[i].what \in Nat
      <4>1. out' = out
        BY <2>1
      <4>2. out[i] \in Packet
        BY <2>1, <4>1, ElementOfSeq, LenProperties DEF LinkInv, Linked
      <4> QED
        BY <2>1, <4>1, <4>2 DEF LinkInv, Outgoing, Packet
    <3>2. out[i].kind = "publish" => received' <= out[i].what /\ out[i].what <= made'[Worker]
      BY <1>1, <3>1 DEF Leaving
    <3>3. \A c \in Caller : OfCall(out[i], c)' => OfCall(out[i], c) /\ made'[c] = made[c]
      BY <3>1 DEF OfCall
    <3>4. \A c \in Caller : (out[i].kind # "ack" /\ OfCall(out[i], c)') =>
            IF c = Worker THEN out[i].kind = "publish" /\ out[i].what = made'[Worker]
            ELSE out[i].kind = "subscribe"
      BY <3>1, <3>3 DEF Leaving
    <3> QED
      BY <1>1, <3>1, <3>2, <3>4 DEF Leaving, OfCall
  <2>2. Ordered(out', 0)
    BY DEF LinkInv, Outgoing, Ordered
  <2> QED
    BY <2>1, <2>2 DEF Outgoing, Ordered
<1>6. Incoming'
  <2>1. ASSUME NEW i \in DOMAIN inn' PROVE Arriving(inn[i])'
    <3>1. inn' = inn /\ Arriving(inn[i])
      BY <2>1 DEF LinkInv, Incoming
    <3>2. \A c \in Caller : OfCall(inn[i], c)' => OfCall(inn[i], c) /\ Active(c)'
      BY <3>1 DEF OfCall
    <3> QED
      BY <1>1, <1>2, <3>1, <3>2 DEF Arriving, OfCall
  <2>2. Ordered(inn', 1)
    BY DEF LinkInv, Incoming, Ordered
  <2> QED
    BY <2>1, <2>2 DEF Incoming, Ordered
<1> QED
  BY <1>3, <1>4, <1>5, <1>6 DEF LinkInv

\* A call begins, returns, gives up or begins again.
LEMMA CallKeeps ==
  ASSUME LinkInv, NEW c \in Caller, Calls(c) \/ Returns(c) \/ GivesUp(c) \/ Notices(c)
  PROVE  LinkInv'
<1>1. \E at \in {"idle", "entering"} : Stands(c, at)
  BY DEF Calls, Returns, GivesUp, Notices
<1>2. /\ UNCHANGED <<newPid, received, issued, ring, taken, pids, silent>>
      /\ out' \in {out, << >>} /\ inn' \in {inn, << >>}
  BY DEF Calls, Returns, GivesUp, Notices, Reconnects
<1>2a. \/ connected' = connected /\ subscribed' = subscribed
       \/ connected' = FALSE /\ subscribed' = FALSE
  BY DEF Calls, Returns, GivesUp, Notices, Reconnects
<1>2b. connected' \in BOOLEAN /\ subscribed' \in BOOLEAN
  BY <1>2a DEF LinkInv, Linked
<1>2c. (connected => subscribed) => (connected' => subscribed')
  BY <1>2a
<1>3. /\ made' \in [Caller -> Nat] /\ made'[Worker] >= made[Worker]
      /\ \A d \in Caller \ {c} : made'[d] = made[d]
  <2>1. made \in [Caller -> Nat]
    BY DEF LinkInv, Linked
  <2>2. CASE made' = made
    BY <2>1, <2>2, CallerFacts
  <2>3. CASE Calls(c)
    <3>1. made' = [made EXCEPT ![c] = made[c] + 1]
      BY <2>3 DEF Calls
    <3>2. \A d \in Caller : made'[d] = IF d = c THEN made[d] + 1 ELSE made[d]
      BY <2>1, <3>1
    <3> QED
      BY <2>1, <3>1, <3>2, CallerFacts
  <2> QED
    BY <2>2, <2>3 DEF Returns, GivesUp, Notices
<1>4. /\ call' \in [Caller -> CallRecords'] /\ call'[c].at \in {"idle", "entering"}
      /\ \A d \in Caller \ {c} : call'[d] = call[d]
  BY <1>1, <1>2, StandsFacts DEF LinkInv, Stages
<1>5. Linked'
  <2>1. << >> \in Seq(Packet)
    BY EmptySeq
  <2> QED
    BY <1>2, <1>2b, <1>3, <1>4, <2>1 DEF LinkInv, Linked
<1>6. \A d \in Caller :
        /\ call'[d].at = "waiting" => call[d].at = "waiting"
        /\ Active(d)' =>
             /\ Active(d) /\ call'[d].pid = call[d].pid /\ made'[d] = made[d]
             /\ call[d].pid \in pids => call[d].pid \in pids'
             /\ (connected => subscribed) => (connected' => subscribed')
  BY <1>2, <1>2c, <1>3, <1>4 DEF Active
<1> QED
  BY <1>2, <1>3, <1>5, <1>6, CalmerKeeps

LEMMA RepublishesKeeps ==
  ASSUME LinkInv, Republishes
  PROVE  LinkInv'
<1> DEFINE r == [at |-> "locked", pid |-> call[Worker].pid,
                repeats |-> call[Worker].repeats + 1]
<1>1. /\ UNCHANGED <<connected, silent, pids, newPid, made, out, inn, subscribed, received,
                     issued, ring, taken>>
      /\ call[Worker].at = "waiting" /\ call[Worker].repeats < MaxRepubs
  BY DEF Republishes, Overdue
<1>1a. call' = [call EXCEPT ![Worker] = r]
  BY DEF Republishes
<1>2. call \in [Caller -> CallRecords] /\ CallRecords' = CallRecords
  BY <1>1 DEF LinkInv, Linked, CallRecords
<1>3. call[Worker] \in CallRecords /\ call[Worker].repeats + 1 \in 0 .. MaxRepubs
  BY <1>1, <1>2, CallerFacts DEF CallRecords
<1>3a. r \in CallRecords
  BY <1>3 DEF CallRecords, Stages
<1>3b. r.at = "locked"
  BY <1>3 DEF CallRecords
<1>3c. r.pid = call[Worker].pid
  BY <1>3 DEF CallRecords
<1> HIDE DEF r
<1>4. /\ call' \in [Caller -> CallRecords'] /\ call'[Worker].at = "locked"
      /\ call'[Worker].pid = call[Worker].pid
      /\ \A d \in Caller \ {Worker} : call'[d] = call[d]
  BY <1>1a, <1>2, <1>3a, <1>3b, <1>3c, CallerFacts
<1>5. Linked'
  BY <1>1, <1>4 DEF LinkInv, Linked
<1>6. \A d \in Caller :
        /\ call'[d].at = "waiting" => call[d].at = "waiting"
        /\ Active(d)' =>
             /\ Active(d) /\ call'[d].pid = call[d].pid /\ made'[d] = made[d]
             /\ call[d].pid \in pids => call[d].pid \in pids'
             /\ (connected => subscribed) => (connected' => subscribed')
  BY <1>1, <1>4 DEF Active
<1>7. made'[Worker] >= made[Worker]
  BY <1>1, CallerFacts DEF LinkInv, Linked
<1> QED
  BY <1>1, <1>5, <1>6, <1>7, CalmerKeeps

LEMMA ConnectionKeeps ==
  ASSUME LinkInv, Connects \/ Breaks \/ FallsSilent \/ KeepAlive \/ UNCHANGED linkVars
  PROVE  LinkInv'
<1>1. /\ UNCHANGED <<newPid, received, issued, ring, taken, call, made>>
      /\ out' \in {out, << >>} /\ inn' \in {inn, << >>}
  BY DEF Connects, Breaks, FallsSilent, KeepAlive, Reconnects, linkVars
<1>1a. \/ connected' = connected /\ subscribed' = subscribed
       \/ connected' = FALSE /\ subscribed' = FALSE
       \/ connected' = TRUE /\ subscribed' = subscribed /\ Connects
  BY DEF Connects, Breaks, FallsSilent, KeepAlive, Reconnects, linkVars
<1>1b. silent' \in {silent, TRUE, FALSE} /\ (pids' = pids \/ (pids' = {} /\ Connects))
  BY DEF Connects, Breaks, FallsSilent, KeepAlive, Reconnects, linkVars
<1>1c. connected' \in BOOLEAN /\ subscribed' \in BOOLEAN /\ silent' \in BOOLEAN
  BY <1>1a, <1>1b DEF LinkInv, Linked
<1>1d. Connects => \A c \in Caller : ~Active(c)
  BY DEF Connects, Active
<1>1e. \/ \A c \in Caller : ~Active(c)
       \/ (connected => subscribed) => (connected' => subscribed')
  BY <1>1a, <1>1d
<1>2. Linked'
  <2>1. << >> \in Seq(Packet) /\ CallRecords' = CallRecords
    BY <1>1, EmptySeq DEF CallRecords
  <2> QED
    BY <1>1, <1>1b, <1>1c, <2>1 DEF LinkInv, Linked
<1>3. \A d \in Caller :
        /\ call'[d].at = "waiting" => call[d].at = "waiting"
        /\ Active(d)' =>
             /\ Active(d) /\ call'[d].pid = call[d].pid /\ made'[d] = made[d]
             /\ call[d].pid \in pids => call[d].pid \in pids'
             /\ (connected => subscribed) => (connected' => subscribed')
  BY <1>1, <1>1b, <1>1d, <1>1e DEF Active
<1>4. made'[Worker] >= made[Worker]
  BY <1>1, CallerFacts DEF LinkInv, Linked
<1> QED
  BY <1>1, <1>2, <1>3, <1>4, CalmerKeeps

\* The call has a new identifier, which no packet carries.
LEMMA EntersKeeps ==
  ASSUME LinkInv, NEW c \in Caller, Enters(c)
  PROVE  LinkInv'
<1>1. /\ newPid' = newPid + 1 /\ newPid \in Nat \ {0}
      /\ pids' = IF Awaits(c) THEN pids \cup {newPid} ELSE pids
      /\ call' = [call EXCEPT ![c] = [at |-> "locked", pid |-> newPid, repeats |-> 0]]
      /\ UNCHANGED <<connected, silent, made, out, inn, subscribed, received, issued, ring,
                     taken>>
  BY DEF Enters, LinkInv, Linked
<1>2. call \in [Caller -> CallRecords] /\ \A d \in Caller : call[d].pid \in 0 .. newPid - 1
  BY DEF LinkInv, Linked, CallRecords
<1>3. CallRecords' = [at : Stages, pid : 0 .. newPid, repeats : 0 .. MaxRepubs]
  <2>1. newPid' - 1 = newPid
    BY <1>1
  <2> QED
    BY <2>1 DEF CallRecords
<1>4. /\ call'[c].at = "locked" /\ call'[c].pid = newPid
      /\ \A d \in Caller \ {c} : call'[d] = call[d]
  BY <1>1, <1>2
<1>5. call' \in [Caller -> CallRecords']
  <2>1. [at |-> "locked", pid |-> newPid, repeats |-> 0] \in CallRecords'
    BY <1>1, <1>3, CallerFacts DEF Stages
  <2>2. \A d \in Caller : call[d] \in CallRecords'
    BY <1>1, <1>2, <1>3 DEF CallRecords
  <2> QED
    BY <1>1, <1>2, <2>1, <2>2
<1>6. Linked'
  BY <1>1, <1>5 DEF LinkInv, Linked
<1>7. Ringed'
  BY <1>1 DEF LinkInv, Ringed
<1>8. \A d \in Caller : Achieved(d)' = Achieved(d)
  BY <1>1 DEF Achieved
<1>9. Calling'
  <2>1. ASSUME NEW d \in Caller
        PROVE  /\ call'[d].at = "waiting" => Awaits(d)
               /\ (Active(d)' /\ Awaits(d)) => (call'[d].pid \in pids' \/ Achieved(d)')
    BY <1>1, <1>4, <1>8 DEF LinkInv, Calling, Active
  <2>2. call'[Worker].pid # call'[Subscriber].pid
          \/ (Active(Worker) /\ Active(Subscriber)
               /\ call'[Worker] = call[Worker] /\ call'[Subscriber] = call[Subscriber])
    BY <1>1, <1>2, <1>4, CallerFacts
  <2>3. received' <= made'[Worker]
    BY <1>1 DEF LinkInv, Calling
  <2>4. \A d \in Caller : Awaits(d)' = Awaits(d)
    BY DEF Awaits
  <2> QED
    BY <2>1, <2>2, <2>3, <2>4 DEF LinkInv, Calling
<1>10. \A p \in Packet, d \in Caller :
         (p.pid < newPid /\ OfCall(p, d)') => OfCall(p, d)
  BY <1>1, <1>4 DEF OfCall, Active, Packet
<1>11. Outgoing'
  <2>1. ASSUME NEW i \in DOMAIN out' PROVE Leaving(out[i])'
    <3>1. out[i] \in Packet /\ Leaving(out[i])
      BY <1>1, ElementOfSeq, LenProperties DEF LinkInv, Linked, Outgoing
    <3>2. out[i].pid < newPid'
      BY <1>1, <3>1 DEF Leaving, Packet
    <3> QED
      BY <1>1, <1>10, <3>1, <3>2 DEF Leaving, OfCall
  <2> QED
    BY <1>1, <2>1 DEF LinkInv, Outgoing, Ordered
<1>12. Incoming'
  <2>1. ASSUME NEW i \in DOMAIN inn' PROVE Arriving(inn[i])'
    <3>1. inn[i] \in Packet /\ Arriving(inn[i])
      BY <1>1, ElementOfSeq, LenProperties DEF LinkInv, Linked, Incoming
    <3>2. inn[i].pid < newPid'
      BY <1>1, <3>1 DEF Arriving, Packet
    <3> QED
      BY <1>1, <1>8, <1>10, <3>1, <3>2 DEF Arriving, OfCall
  <2> QED
    BY <1>1, <2>1 DEF LinkInv, Incoming, Ordered
<1> QED
  BY <1>6, <1>7, <1>9, <1>11, <1>12 DEF LinkInv

\* The lines between the client and the broker.
LEMMA LineFacts ==
  /\ \A x : x \in Packet => x.pid \in Nat /\ x.what \in Nat
  /\ \A i \in DOMAIN out : Linked => out[i] \in Packet
  /\ \A i \in DOMAIN inn : Linked => inn[i] \in Packet
BY ElementOfSeq, LenProperties DEF Packet, Linked

LEMMA WritesKeeps ==
  ASSUME LinkInv, NEW c \in Caller, Writes(c)
  PROVE  LinkInv'
<1> DEFINE p == [kind |-> IF c = Worker THEN "publish" ELSE "subscribe",
                 pid |-> call[c].pid, what |-> made[c]]
           at == IF Awaits(c) THEN "waiting" ELSE "idle"
<1>1. /\ call[c].at = "locked" /\ out' = Append(out, p) /\ Stands(c, at) /\ at \in Stages
      /\ UNCHANGED <<connected, silent, pids, newPid, made, inn, subscribed, received, issued,
                     ring, taken>>
  BY DEF Writes, Stages
<1>2. /\ call[c].pid \in 0 .. newPid - 1 /\ newPid \in Nat \ {0} /\ made[c] \in Nat
      /\ out \in Seq(Packet) /\ received \in Nat /\ made[Worker] \in Nat
  BY CallerFacts DEF LinkInv, Linked, CallRecords
<1>3. /\ p \in Packet /\ p.pid = call[c].pid /\ p.what = made[c] /\ p.pid < newPid
      /\ p.kind = IF c = Worker THEN "publish" ELSE "subscribe"
  BY <1>2 DEF Packet
<1>4. at = "waiting" => Awaits(c)
  OBVIOUS
<1> HIDE DEF p, at
<1>5. /\ call' \in [Caller -> CallRecords'] /\ call'[c].at = at /\ call'[c].pid = call[c].pid
      /\ \A d \in Caller \ {c} : call'[d] = call[d]
  BY <1>1, StandsFacts DEF LinkInv
<1>6. Linked'
  <2>1. out' \in Seq(Packet)
    BY <1>1, <1>2, <1>3, AppendFacts
  <2> QED
    BY <1>1, <1>5, <2>1 DEF LinkInv, Linked
<1>7. Ringed'
  BY <1>1 DEF LinkInv, Ringed
<1>8. \A d \in Caller : /\ Achieved(d)' = Achieved(d) /\ Awaits(d)' = Awaits(d)
                        /\ Active(d)' => Active(d) /\ call'[d].pid = call[d].pid
  BY <1>1, <1>5 DEF Achieved, Active, Awaits
<1>9. Calling'
  <2>1. ASSUME NEW d \in Caller
        PROVE  /\ call'[d].at = "waiting" => Awaits(d)
               /\ (Active(d)' /\ Awaits(d)) => (call'[d].pid \in pids' \/ Achieved(d)')
    BY <1>1, <1>4, <1>5, <1>8 DEF LinkInv, Calling
  <2>2. (Active(Worker)' /\ Active(Subscriber)') => call'[Worker].pid # call'[Subscriber].pid
    BY <1>8, CallerFacts DEF LinkInv, Calling
  <2>3. received' <= made'[Worker]
    BY <1>1 DEF LinkInv, Calling
  <2> QED
    BY <1>8, <2>1, <2>2, <2>3 DEF Calling
<1>10. Outgoing'
  <2>1. Leaving(p)
    <3>1. received <= made[Worker] /\ made[Worker] <= made[Worker]
      BY <1>2 DEF LinkInv, Calling
    <3>2. \A d \in Caller : OfCall(p, d) => d = c
      BY <1>1, <1>3, CallerFacts DEF OfCall, Active, LinkInv, Calling
    <3> QED
      BY <1>3, <3>1, <3>2, CallerFacts DEF Leaving
  <2>2. \A x : Leaving(x) =>
          /\ x.pid < newPid'
          /\ x.kind = "publish" => received' <= x.what /\ x.what <= made'[Worker]
          /\ \A d \in Caller :
               (x.kind # "ack" /\ Active(d)' /\ x.pid = call'[d].pid) =>
                 IF d = Worker THEN x.kind = "publish" /\ x.what = made'[Worker]
                 ELSE x.kind = "subscribe"
    BY <1>1, <1>8 DEF Leaving, OfCall
  <2>3. \A i \in DOMAIN out' : out'[i] = p \/ \E j \in DOMAIN out : out'[i] = out[j]
    BY <1>1, <1>2, <1>3, AppendFacts
  <2>4. \A i \in DOMAIN out' : Leaving(out'[i])
    BY <2>1, <2>3 DEF LinkInv, Outgoing
  <2>5. Ordered(out', 0)
    <3>1. p.kind = "publish" =>
            \A i \in DOMAIN out : out[i].kind = "publish" => out[i].what + 0 <= p.what
      BY <1>3, CallerFacts, LineFacts DEF LinkInv, Outgoing, Leaving
    <3> QED
      BY <1>1, <1>2, <1>3, <3>1, OrderedFacts DEF LinkInv, Outgoing
  <2> QED
    BY <2>2, <2>4, <2>5 DEF Outgoing, Ordered, Leaving, OfCall
<1>11. Incoming'
  BY <1>1, <1>8 DEF LinkInv, Incoming, Arriving, Ordered, OfCall
<1> QED
  BY <1>6, <1>7, <1>9, <1>10, <1>11 DEF LinkInv

LEMMA BrokerSendsKeeps ==
  ASSUME LinkInv, BrokerSends
  PROVE  LinkInv'
<1> DEFINE p == [kind |-> "publish", pid |-> 0, what |-> issued + 1]
<1>1. /\ issued' = issued + 1 /\ inn' = Append(inn, p)
      /\ UNCHANGED <<connected, silent, pids, newPid, call, made, out, subscribed, received,
                     ring, taken>>
  BY DEF BrokerSends
<1>2. issued \in Nat /\ newPid \in Nat \ {0} /\ inn \in Seq(Packet) /\ taken \in Nat
  BY DEF LinkInv, Linked
<1>3. p \in Packet /\ p.kind = "publish" /\ p.pid < newPid /\ p.what = issued + 1
  BY <1>2 DEF Packet
<1> HIDE DEF p
<1>4. Linked'
  <2>1. inn' \in Seq(Packet) /\ CallRecords' = CallRecords
    BY <1>1, <1>2, <1>3, AppendFacts DEF CallRecords
  <2> QED
    BY <1>1, <1>2, <2>1 DEF LinkInv, Linked
<1>5. \A i \in DOMAIN Messages(ring) : Messages(ring)[i] \in Nat
  BY MessagesFacts, ElementOfSeq DEF LinkInv, Linked
<1>6. Ringed'
  BY <1>1, <1>2, <1>5 DEF LinkInv, Ringed
<1>7. \A d \in Caller : /\ Achieved(d)' = Achieved(d) /\ Awaits(d)' = Awaits(d)
                        /\ Active(d)' = Active(d)
  BY <1>1 DEF Achieved, Active, Awaits
<1>8. Calling'
  <2>1. ASSUME NEW d \in Caller
        PROVE  /\ call'[d].at = "waiting" => Awaits(d)
               /\ (Active(d)' /\ Awaits(d)) => (call'[d].pid \in pids' \/ Achieved(d)')
    BY <1>1, <1>7 DEF LinkInv, Calling
  <2>2. (Active(Worker)' /\ Active(Subscriber)') => call'[Worker].pid # call'[Subscriber].pid
    BY <1>1, <1>7, CallerFacts DEF LinkInv, Calling
  <2>3. received' <= made'[Worker]
    BY <1>1 DEF LinkInv, Calling
  <2> QED
    BY <1>7, <2>1, <2>2, <2>3 DEF Calling
<1>9. Outgoing'
  BY <1>1, <1>7 DEF LinkInv, Outgoing, Leaving, Ordered, OfCall
<1>10. Incoming'
  <2>1. \A i \in DOMAIN inn' : inn'[i] = p \/ \E j \in DOMAIN inn : inn'[i] = inn[j]
    BY <1>1, <1>2, <1>3, AppendFacts
  <2>2. \A x \in Packet : (Arriving(x) \/ x = p) =>
          /\ x.pid < newPid'
          /\ x.kind = "ack" =>
               \A d \in Caller : (Active(d)' /\ x.pid = call'[d].pid) => Achieved(d)'
          /\ x.kind = "publish" =>
               /\ taken' < x.what /\ x.what <= issued'
               /\ \A i \in DOMAIN Messages(ring') : Messages(ring')[i] < x.what
    <3> SUFFICES ASSUME NEW x \in Packet, Arriving(x) \/ x = p
                 PROVE  /\ x.pid < newPid'
                        /\ x.kind = "ack" =>
                             \A d \in Caller :
                               (Active(d)' /\ x.pid = call'[d].pid) => Achieved(d)'
                        /\ x.kind = "publish" =>
                             /\ taken' < x.what /\ x.what <= issued'
                             /\ \A i \in DOMAIN Messages(ring') : Messages(ring')[i] < x.what
      OBVIOUS
    <3>1. CASE Arriving(x)
      BY <1>1, <1>2, <1>7, <3>1, LineFacts DEF Arriving, OfCall
    <3>2. CASE x = p
      BY <1>1, <1>2, <1>3, <1>5, <3>2 DEF LinkInv, Ringed
    <3> QED
      BY <3>1, <3>2
  <2>3. \A i \in DOMAIN inn' : inn'[i] \in Packet /\ (Arriving(inn'[i]) \/ inn'[i] = p)
    BY <1>3, <2>1, LineFacts DEF LinkInv, Incoming
  <2>4. Ordered(inn', 1)
    <3>1. \A i \in DOMAIN inn : inn[i].kind = "publish" => inn[i].what + 1 <= p.what
      BY <1>2, <1>3, LineFacts DEF LinkInv, Incoming, Arriving
    <3> QED
      BY <1>1, <1>2, <1>3, <3>1, OrderedFacts DEF LinkInv, Incoming
  <2> QED
    BY <2>2, <2>3, <2>4 DEF Incoming, Ordered, Arriving, OfCall
<1> QED
  BY <1>4, <1>6, <1>8, <1>9, <1>10 DEF LinkInv


LEMMA TakesKeeps ==
  ASSUME LinkInv, Takes
  PROVE  LinkInv'
<1>1. /\ ring.read # ring.write /\ taken' = ring.slot[ring.read]
      /\ ring' = [ring EXCEPT !.read = (ring.read + 1) % RingSize]
      /\ UNCHANGED <<connected, silent, pids, newPid, call, made, out, inn, subscribed, received,
                     issued>>
  BY DEF Takes, KeepsConnection
<1>2. /\ ring \in Rings /\ taken \in Nat /\ issued \in Nat /\ newPid \in Nat \ {0}
  BY DEF LinkInv, Linked
<1>3. /\ ring' \in Rings /\ HeldIn(ring) >= 1 /\ Messages(ring)[1] = ring.slot[ring.read]
      /\ HeldIn(ring') = HeldIn(ring) - 1 /\ HeldIn(ring) \in Nat
      /\ \A i \in 1 .. HeldIn(ring') : Messages(ring')[i] = Messages(ring)[i + 1]
  BY <1>1, <1>2, TakeFromRingFacts, HeldFacts
<1>4. /\ DOMAIN Messages(ring) = 1 .. HeldIn(ring)
      /\ DOMAIN Messages(ring') = 1 .. HeldIn(ring) - 1
      /\ \A i \in 1 .. HeldIn(ring) : Messages(ring)[i] \in Nat
  <2>1. /\ DOMAIN Messages(ring) = 1 .. HeldIn(ring)
        /\ DOMAIN Messages(ring') = 1 .. HeldIn(ring')
        /\ Messages(ring) \in Seq(Nat)
    BY <1>2, <1>3, MessagesFacts
  <2> QED
    BY <1>3, <2>1, ElementOfSeq
<1>5. taken' = Messages(ring)[1] /\ 1 \in 1 .. HeldIn(ring)
  BY <1>1, <1>3
<1>6. \A i \in 1 .. HeldIn(ring) - 1 : i \in 1 .. HeldIn(ring) /\ i + 1 \in 1 .. HeldIn(ring)
  BY <1>3
<1>7. Linked'
  <2>1. taken' \in Nat /\ CallRecords' = CallRecords
    BY <1>1, <1>4, <1>5 DEF CallRecords
  <2> QED
    BY <1>1, <1>3, <2>1 DEF LinkInv, Linked
<1>8. Ringed'
  <2>1. taken' <= issued'
    BY <1>1, <1>4, <1>5 DEF LinkInv, Ringed
  <2>2. ASSUME NEW i \in 1 .. HeldIn(ring) - 1
        PROVE  /\ Messages(ring')[i] <= issued'
               /\ (IF i = 1 THEN taken' ELSE Messages(ring')[i - 1]) < Messages(ring')[i]
    <3>1. /\ Messages(ring')[i] = Messages(ring)[i + 1] /\ i + 1 # 1 /\ i + 1 - 1 = i
          /\ i # 1 => i - 1 \in 1 .. HeldIn(ring') /\ i - 1 + 1 = i
      BY <1>3
    <3>2. /\ Messages(ring)[i + 1] <= issued
          /\ Messages(ring)[i + 1 - 1] < Messages(ring)[i + 1]
      BY <1>4, <1>6, <3>1 DEF LinkInv, Ringed
    <3>3. i # 1 => Messages(ring')[i - 1] = Messages(ring)[i]
      BY <1>3, <3>1
    <3> QED
      BY <1>1, <1>5, <3>1, <3>2, <3>3
  <2> QED
    BY <1>4, <2>1, <2>2 DEF Ringed
<1>9. \A d \in Caller : /\ Achieved(d)' = Achieved(d) /\ Awaits(d)' = Awaits(d)
                        /\ Active(d)' = Active(d)
  BY <1>1 DEF Achieved, Active, Awaits
<1>10. Calling'
  <2>1. ASSUME NEW d \in Caller
        PROVE  /\ call'[d].at = "waiting" => Awaits(d)
               /\ (Active(d)' /\ Awaits(d)) => (call'[d].pid \in pids' \/ Achieved(d)')
    BY <1>1, <1>9 DEF LinkInv, Calling
  <2>2. (Active(Worker)' /\ Active(Subscriber)') => call'[Worker].pid # call'[Subscriber].pid
    BY <1>1, <1>9, CallerFacts DEF LinkInv, Calling
  <2>3. received' <= made'[Worker]
    BY <1>1 DEF LinkInv, Calling
  <2> QED
    BY <1>9, <2>1, <2>2, <2>3 DEF Calling
<1>11. Outgoing'
  BY <1>1, <1>9 DEF LinkInv, Outgoing, Leaving, Ordered, OfCall
<1>12. Incoming'
  <2>1. ASSUME NEW i \in DOMAIN inn'
        PROVE  /\ inn'[i].pid < newPid'
               /\ inn'[i].kind = "ack" =>
                    \A d \in Caller : OfCall(inn[i], d)' => Achieved(d)'
               /\ inn'[i].kind = "publish" =>
                    /\ taken' < inn'[i].what /\ inn'[i].what <= issued'
                    /\ \A j \in DOMAIN Messages(ring') : Messages(ring')[j] < inn'[i].what
    <3>1. inn'[i] = inn[i] /\ Arriving(inn[i]) /\ newPid' = newPid /\ issued' = issued
      BY <1>1 DEF LinkInv, Incoming
    <3>2. \A d \in Caller : OfCall(inn[i], d)' => OfCall(inn[i], d)
      BY <1>1, <1>9 DEF OfCall
    <3>3. inn[i].kind = "ack" => \A d \in Caller : OfCall(inn[i], d)' => Achieved(d)'
      BY <1>9, <3>1, <3>2 DEF Arriving
    <3>4. inn[i].kind = "publish" =>
            /\ taken' < inn[i].what /\ inn[i].what <= issued
            /\ \A j \in DOMAIN Messages(ring') : Messages(ring')[j] < inn[i].what
      BY <1>3, <1>4, <1>5, <1>6, <3>1 DEF Arriving
    <3> QED
      BY <3>1, <3>3, <3>4 DEF Arriving
  <2>2. Ordered(inn', 1)
    BY <1>1 DEF LinkInv, Incoming, Ordered
  <2> QED
    BY <2>1, <2>2 DEF Incoming, Ordered, Arriving, OfCall
<1> QED
  BY <1>7, <1>8, <1>10, <1>11, <1>12 DEF LinkInv

LEMMA BrokerReadsKeeps ==
  ASSUME LinkInv, BrokerReads
  PROVE  LinkInv' /\ received' >= received
<1> DEFINE p == Head(out)
           a == [p EXCEPT !.kind = "ack"]
<1>1. /\ out # << >> /\ out' = Tail(out)
      /\ received' = IF p.kind = "publish" THEN p.what ELSE received
      /\ subscribed' = (subscribed \/ p.kind = "subscribe")
      /\ inn' = inn \/ (inn' = Append(inn, a) /\ p.kind \in {"publish", "subscribe"})
      /\ UNCHANGED <<connected, silent, pids, newPid, call, made, issued, ring, taken>>
  BY DEF BrokerReads
<1>2. /\ out \in Seq(Packet) /\ inn \in Seq(Packet) /\ received \in Nat
      /\ newPid \in Nat \ {0} /\ made[Worker] \in Nat /\ subscribed \in BOOLEAN
  BY CallerFacts DEF LinkInv, Linked
<1>3. /\ p \in Packet /\ Leaving(p) /\ Tail(out) \in Seq(Packet)
      /\ \A i \in DOMAIN Tail(out) : \E j \in DOMAIN out : Tail(out)[i] = out[j]
  BY <1>1, <1>2, TailFacts DEF LinkInv, Outgoing
<1>4. /\ a \in Packet /\ a.kind = "ack" /\ a.pid = p.pid /\ p.pid \in Nat /\ p.what \in Nat
  BY <1>3 DEF Packet
<1>5. /\ Ordered(Tail(out), 0)
      /\ p.kind = "publish" =>
           \A i \in DOMAIN Tail(out) :
             Tail(out)[i].kind = "publish" => p.what + 0 <= Tail(out)[i].what
  BY <1>1, <1>2, OrderedFacts DEF LinkInv, Outgoing
<1> HIDE DEF p, a
<1>6. /\ received' \in Nat /\ received' >= received /\ received' <= made[Worker]
  BY <1>1, <1>2, <1>3, <1>4 DEF Leaving, LinkInv, Calling
<1>7. Linked'
  <2>1. /\ inn' \in Seq(Packet) /\ CallRecords' = CallRecords
    BY <1>1, <1>2, <1>4, AppendFacts DEF CallRecords
  <2>2. subscribed' \in BOOLEAN
    BY <1>1
  <2> QED
    BY <1>1, <1>3, <1>6, <2>1, <2>2 DEF LinkInv, Linked
<1>8. Ringed'
  BY <1>1 DEF LinkInv, Ringed
<1>9. \A d \in Caller : /\ Achieved(d) => Achieved(d)'
                        /\ Awaits(d)' = Awaits(d) /\ Active(d)' = Active(d)
  BY <1>1, <1>2, <1>6 DEF Achieved, Active, Awaits
<1>10. Calling'
  <2>1. ASSUME NEW d \in Caller
        PROVE  /\ call'[d].at = "waiting" => Awaits(d)
               /\ (Active(d)' /\ Awaits(d)) => (call'[d].pid \in pids' \/ Achieved(d)')
    BY <1>1, <1>9 DEF LinkInv, Calling
  <2>2. (Active(Worker)' /\ Active(Subscriber)') => call'[Worker].pid # call'[Subscriber].pid
    BY <1>1, <1>9, CallerFacts DEF LinkInv, Calling
  <2>3. received' <= made'[Worker]
    BY <1>1, <1>6
  <2> QED
    BY <1>9, <2>1, <2>2, <2>3 DEF Calling
<1>11. Outgoing'
  <2>1. ASSUME NEW i \in DOMAIN out' PROVE Leaving(out[i])'
    <3>1. PICK j \in DOMAIN out : out'[i] = out[j]
      BY <1>1, <1>3, <2>1
    <3>2. Leaving(out[j]) /\ out[j] \in Packet
      BY <1>2, LineFacts DEF LinkInv, Outgoing
    <3>3. out[j].kind = "publish" => received' <= out[j].what
      <4>1. CASE p.kind = "publish"
        <5>1. out[j].kind = "publish" => p.what + 0 <= out[j].what
          BY <1>1, <1>5, <2>1, <3>1, <4>1
        <5> QED
          BY <1>1, <1>4, <4>1, <5>1
      <4>2. CASE p.kind # "publish"
        BY <1>1, <3>2, <4>2 DEF Leaving
      <4> QED
        BY <4>1, <4>2
    <3>4. \A d \in Caller : OfCall(out[i], d)' => OfCall(out[j], d)
      BY <1>1, <1>9, <3>1 DEF OfCall
    <3>5. \A d \in Caller : (out[j].kind # "ack" /\ OfCall(out[i], d)') =>
            IF d = Worker THEN out[j].kind = "publish" /\ out[j].what = made'[Worker]
            ELSE out[j].kind = "subscribe"
      BY <1>1, <3>2, <3>4 DEF Leaving
    <3> QED
      BY <1>1, <3>1, <3>2, <3>3, <3>5 DEF Leaving, OfCall
  <2>2. Ordered(out', 0)
    BY <1>1, <1>5
  <2> QED
    BY <2>1, <2>2 DEF Outgoing, Ordered
<1>12. Incoming'
  <2>1. p.kind \in {"publish", "subscribe"} =>
          \A d \in Caller : OfCall(p, d) => Achieved(d)'
    <3> SUFFICES ASSUME p.kind \in {"publish", "subscribe"}, NEW d \in Caller, OfCall(p, d)
                 PROVE  Achieved(d)'
      OBVIOUS
    <3>1. IF d = Worker THEN p.kind = "publish" /\ p.what = made[Worker]
          ELSE p.kind = "subscribe"
      BY <1>3 DEF Leaving
    <3>2. CASE d = Worker
      <4>1. received' = made'[Worker] /\ made'[Worker] \in Nat
        BY <1>1, <1>2, <3>1, <3>2
      <4> QED
        BY <3>2, <4>1 DEF Achieved
    <3>3. CASE d # Worker
      <4>1. subscribed'
        BY <1>1, <3>1, <3>3
      <4> QED
        BY <3>3, <4>1 DEF Achieved
    <3> QED
      BY <3>2, <3>3
  <2>2. \A x \in Packet : Arriving(x) =>
          /\ x.pid < newPid'
          /\ x.kind = "ack" => \A d \in Caller : (Active(d)' /\ x.pid = call'[d].pid) => Achieved(d)'
          /\ x.kind = "publish" =>
               /\ taken' < x.what /\ x.what <= issued'
               /\ \A k \in DOMAIN Messages(ring') : Messages(ring')[k] < x.what
    BY <1>1, <1>9 DEF Arriving, OfCall
  <2>3. inn' = Append(inn, a) =>
          /\ a.pid < newPid'
          /\ \A d \in Caller : (Active(d)' /\ a.pid = call'[d].pid) => Achieved(d)'
    <3> SUFFICES ASSUME inn' = Append(inn, a)
                 PROVE  /\ a.pid < newPid'
                        /\ \A d \in Caller : (Active(d)' /\ a.pid = call'[d].pid) => Achieved(d)'
      OBVIOUS
    <3>1. p.kind \in {"publish", "subscribe"}
      <4>1. inn' # inn
        <5>1. Len(Append(inn, a)) = Len(inn) + 1 /\ Len(inn) \in Nat
          BY <1>2, <1>4, AppendFacts
        <5> QED
          BY <5>1
      <4> QED
        BY <1>1, <4>1
    <3>2. \A d \in Caller : (Active(d)' /\ a.pid = call'[d].pid) => OfCall(p, d)
      BY <1>1, <1>4, <1>9 DEF OfCall
    <3> QED
      BY <1>1, <1>3, <1>4, <2>1, <3>1, <3>2 DEF Leaving
  <2>4. ASSUME NEW i \in DOMAIN inn' PROVE Arriving(inn[i])'
    <3>1. CASE inn' = inn
      <4>1. inn'[i] \in Packet /\ Arriving(inn'[i])
        BY <2>4, <3>1, LineFacts DEF LinkInv, Incoming
      <4> QED
        BY <2>2, <4>1 DEF Arriving, OfCall
    <3>2. CASE inn' = Append(inn, a)
      <4>1. inn'[i] = a \/ \E j \in DOMAIN inn : inn'[i] = inn[j]
        BY <1>2, <1>4, <2>4, <3>2, AppendFacts
      <4>2. CASE inn'[i] = a
        BY <1>4, <2>3, <3>2, <4>2 DEF Arriving, OfCall
      <4>3. CASE \E j \in DOMAIN inn : inn'[i] = inn[j]
        <5>1. inn'[i] \in Packet /\ Arriving(inn'[i])
          BY <4>3, LineFacts DEF LinkInv, Incoming
        <5> QED
          BY <2>2, <5>1 DEF Arriving, OfCall
      <4> QED
        BY <4>1, <4>2, <4>3
    <3> QED
      BY <1>1, <3>1, <3>2
  <2>5. Ordered(inn', 1)
    <3>1. Ordered(Append(inn, a), 1)
      BY <1>2, <1>4, OrderedFacts DEF LinkInv, Incoming
    <3> QED
      BY <1>1, <3>1 DEF LinkInv, Incoming
  <2> QED
    BY <2>4, <2>5 DEF Incoming, Ordered
<1> QED
  BY <1>6, <1>7, <1>8, <1>10, <1>11, <1>12 DEF LinkInv

LEMMA HandlesPublish ==
  ASSUME LinkInv, Handles, Head(inn).kind = "publish"
  PROVE  LinkInv'
<1> DEFINE p == Head(inn)
           a == [p EXCEPT !.kind = "ack"]
           all == Append(Messages(ring), p.what)
<1>1. /\ inn # << >> /\ inn' = Tail(inn) /\ out' = Append(out, a)
      /\ ring' = PutInRing(ring, p.what)
      /\ UNCHANGED <<connected, subscribed, pids, silent, newPid, call, made, received, issued,
                     taken>>
  BY DEF Handles
<1>2. /\ out \in Seq(Packet) /\ inn \in Seq(Packet) /\ ring \in Rings
      /\ newPid \in Nat \ {0} /\ issued \in Nat /\ taken \in Nat
  BY DEF LinkInv, Linked
<1>3. /\ p \in Packet /\ Arriving(p) /\ Tail(inn) \in Seq(Packet) /\ p.kind = "publish"
      /\ \A i \in DOMAIN Tail(inn) : \E j \in DOMAIN inn : Tail(inn)[i] = inn[j]
  BY <1>1, <1>2, TailFacts DEF LinkInv, Incoming
<1>4. /\ a \in Packet /\ a.kind = "ack" /\ a.pid = p.pid /\ p.pid \in Nat /\ p.what \in Nat
  BY <1>3 DEF Packet
<1>5. /\ Ordered(Tail(inn), 1)
      /\ \A i \in DOMAIN Tail(inn) :
           Tail(inn)[i].kind = "publish" => p.what + 1 <= Tail(inn)[i].what
  BY <1>1, <1>2, <1>3, OrderedFacts DEF LinkInv, Incoming
<1>6. /\ ring' \in Rings
      /\ Messages(ring') = IF Len(all) = RingSize THEN Tail(all) ELSE all
  BY <1>1, <1>2, <1>4, PutInRingFacts
<1>7. /\ taken < p.what /\ p.what <= issued /\ p.pid < newPid
      /\ \A i \in DOMAIN Messages(ring) : Messages(ring)[i] < p.what
  BY <1>3 DEF Arriving
<1> HIDE DEF p, a
<1>8. /\ Messages(ring) \in Seq(Nat) /\ Len(Messages(ring)) \in Nat
      /\ DOMAIN Messages(ring) = 1 .. Len(Messages(ring))
      /\ \A i \in 1 .. Len(Messages(ring)) : Messages(ring)[i] \in Nat
  <2>1. Messages(ring) \in Seq(Nat)
    BY <1>2, MessagesFacts
  <2> QED
    BY <2>1, LenProperties, ElementOfSeq
<1>9. /\ all \in Seq(Nat) /\ Len(all) = Len(Messages(ring)) + 1
      /\ \A i \in 1 .. Len(Messages(ring)) : all[i] = Messages(ring)[i]
      /\ all[Len(Messages(ring)) + 1] = p.what
  BY <1>4, <1>8, AppendProperties
<1> HIDE DEF all
\* The messages with the new one: each after the one before, the first after what was taken.
<1>10. \A i \in 1 .. Len(all) :
         /\ all[i] \in Nat /\ all[i] <= issued /\ all[i] <= p.what
         /\ i # 1 => i - 1 \in 1 .. Len(all) /\ all[i - 1] < all[i]
         /\ i = 1 => taken < all[i]
  <2>1. ASSUME NEW i \in 1 .. Len(all)
        PROVE  /\ all[i] \in Nat /\ all[i] <= issued /\ all[i] <= p.what
               /\ i # 1 => i - 1 \in 1 .. Len(all) /\ all[i - 1] < all[i]
               /\ i = 1 => taken < all[i]
    <3>1. CASE i \in 1 .. Len(Messages(ring))
      <4>1. all[i] = Messages(ring)[i] /\ all[i] \in Nat /\ all[i] < p.what
        BY <1>7, <1>8, <1>9, <3>1
      <4>2. all[i] <= issued /\ (IF i = 1 THEN taken ELSE Messages(ring)[i - 1]) < all[i]
        BY <1>8, <3>1, <4>1 DEF LinkInv, Ringed
      <4>3. i # 1 => i - 1 \in 1 .. Len(Messages(ring)) /\ i - 1 \in 1 .. Len(all)
        BY <1>8, <1>9, <3>1
      <4>4. i # 1 => all[i - 1] = Messages(ring)[i - 1]
        BY <1>9, <4>3
      <4> QED
        BY <1>4, <4>1, <4>2, <4>3, <4>4
    <3>2. CASE i = Len(Messages(ring)) + 1
      <4>1. all[i] = p.what
        BY <1>9, <3>2
      <4>2. i # 1 => i - 1 \in 1 .. Len(Messages(ring)) /\ i - 1 \in 1 .. Len(all)
        BY <1>8, <1>9, <3>2
      <4>3. i # 1 => all[i - 1] = Messages(ring)[i - 1] /\ Messages(ring)[i - 1] < p.what
        BY <1>7, <1>8, <1>9, <4>2
      <4> QED
        BY <1>4, <1>7, <4>1, <4>2, <4>3
    <3> QED
      BY <1>8, <1>9, <2>1, <3>1, <3>2
  <2> QED
    BY <2>1
<1>11. Linked'
  <2>1. out' \in Seq(Packet) /\ CallRecords' = CallRecords
    BY <1>1, <1>2, <1>4, AppendFacts DEF CallRecords
  <2> QED
    BY <1>1, <1>3, <1>6, <2>1 DEF LinkInv, Linked
<1>12. /\ \A i \in DOMAIN Messages(ring') :
            /\ Messages(ring')[i] \in Nat /\ Messages(ring')[i] <= issued
            /\ Messages(ring')[i] <= p.what
            /\ (IF i = 1 THEN taken ELSE Messages(ring')[i - 1]) < Messages(ring')[i]
  <2>1. CASE Len(all) = RingSize
    <3>1. /\ Messages(ring') = Tail(all) /\ DOMAIN Tail(all) = 1 .. Len(all) - 1
          /\ \A i \in 1 .. Len(all) - 1 : Tail(all)[i] = all[i + 1]
      <4>1. all # << >> /\ Len(all) >= 1
        BY <1>8, <1>9, EmptySeq
      <4>2. /\ Tail(all) \in Seq(Nat) /\ Len(Tail(all)) = Len(all) - 1
            /\ \A i \in 1 .. Len(Tail(all)) : Tail(all)[i] = all[i + 1]
        BY <1>9, <4>1, HeadTailProperties
      <4> QED
        BY <1>6, <2>1, <4>2, LenProperties
    <3>2. ASSUME NEW i \in 1 .. Len(all) - 1
          PROVE  /\ Tail(all)[i] = all[i + 1] /\ i + 1 \in 1 .. Len(all) /\ i + 1 # 1
                 /\ i + 1 - 1 = i
                 /\ i # 1 => Tail(all)[i - 1] = all[i]
      <4>1. i # 1 => i - 1 \in 1 .. Len(all) - 1 /\ i - 1 + 1 = i
        BY <1>8, <1>9
      <4> QED
        BY <1>8, <1>9, <3>1, <4>1
    <3>3. ASSUME NEW i \in 1 .. Len(all) - 1
          PROVE  /\ Tail(all)[i] \in Nat /\ Tail(all)[i] <= issued /\ Tail(all)[i] <= p.what
                 /\ (IF i = 1 THEN taken ELSE Tail(all)[i - 1]) < Tail(all)[i]
      <4>1. /\ all[i + 1] \in Nat /\ all[i + 1] <= issued /\ all[i + 1] <= p.what
            /\ all[i + 1 - 1] < all[i + 1]
        BY <1>10, <3>2
      <4>2. i \in 1 .. Len(all) /\ all[i] \in Nat
        BY <1>8, <1>9, <1>10
      <4>3. i = 1 => taken < all[i + 1]
        <5>1. i = 1 => taken < all[i] /\ all[i] < all[i + 1]
          BY <1>10, <3>2, <4>1, <4>2
        <5> QED
          BY <1>2, <4>1, <4>2, <5>1
      <4> QED
        BY <3>2, <4>1, <4>3
    <3> QED
      BY <3>1, <3>3
  <2>2. CASE Len(all) # RingSize
    <3>1. Messages(ring') = all /\ DOMAIN all = 1 .. Len(all)
      BY <1>6, <1>9, <2>2, LenProperties
    <3> QED
      BY <1>10, <3>1
  <2> QED
    BY <2>1, <2>2
<1>13. Ringed'
  <2>1. taken' <= issued'
    BY <1>1 DEF LinkInv, Ringed
  <2> QED
    BY <1>1, <1>12, <2>1 DEF Ringed
<1>14. \A d \in Caller : /\ Achieved(d)' = Achieved(d) /\ Awaits(d)' = Awaits(d)
                         /\ Active(d)' = Active(d)
  BY <1>1 DEF Achieved, Active, Awaits
<1>15. Calling'
  <2>1. ASSUME NEW d \in Caller
        PROVE  /\ call'[d].at = "waiting" => Awaits(d)
               /\ (Active(d)' /\ Awaits(d)) => (call'[d].pid \in pids' \/ Achieved(d)')
    BY <1>1, <1>14 DEF LinkInv, Calling
  <2>2. (Active(Worker)' /\ Active(Subscriber)') => call'[Worker].pid # call'[Subscriber].pid
    BY <1>1, <1>14, CallerFacts DEF LinkInv, Calling
  <2>3. received' <= made'[Worker]
    BY <1>1 DEF LinkInv, Calling
  <2> QED
    BY <1>14, <2>1, <2>2, <2>3 DEF Calling
<1>16. Outgoing'
  <2>1. ASSUME NEW i \in DOMAIN out' PROVE Leaving(out[i])'
    <3>1. out'[i] = a \/ \E j \in DOMAIN out : out'[i] = out[j]
      BY <1>1, <1>2, <1>4, <2>1, AppendFacts
    <3>2. CASE out'[i] = a
      BY <1>1, <1>4, <1>7, <3>2 DEF Leaving
    <3>3. CASE \E j \in DOMAIN out : out'[i] = out[j]
      <4>1. Leaving(out'[i])
        BY <3>3 DEF LinkInv, Outgoing
      <4> QED
        BY <1>1, <1>14, <4>1 DEF Leaving, OfCall
    <3> QED
      BY <3>1, <3>2, <3>3
  <2>2. Ordered(out', 0)
    <3>1. a.kind # "publish"
      BY <1>4
    <3>2. Ordered(Append(out, a), 0)
      BY <1>2, <1>4, <3>1, OrderedFacts DEF LinkInv, Outgoing
    <3> QED
      BY <1>1, <3>2
  <2> QED
    BY <2>1, <2>2 DEF Outgoing, Ordered
<1>17. Incoming'
  <2>1. ASSUME NEW i \in DOMAIN inn' PROVE Arriving(inn[i])'
    <3>1. PICK j \in DOMAIN inn : inn'[i] = inn[j]
      BY <1>1, <1>3, <2>1
    <3>2. Arriving(inn'[i]) /\ inn'[i] \in Packet
      BY <3>1, LineFacts DEF LinkInv, Incoming
    <3>3. inn'[i].what \in Nat
      BY <3>2 DEF Packet
    <3>4. inn'[i].kind = "publish" => p.what < inn'[i].what
      <4>1. inn'[i].kind = "publish" => p.what + 1 <= inn'[i].what
        BY <1>1, <1>5, <2>1
      <4> QED
        BY <1>4, <3>3, <4>1
    <3>5. inn'[i].kind = "publish" =>
            \A k \in DOMAIN Messages(ring') : Messages(ring')[k] < inn'[i].what
      <4> DEFINE m == Messages(ring')
      <4>1. \A k \in DOMAIN m : m[k] \in Nat /\ m[k] <= p.what
        BY <1>12
      <4> HIDE DEF m
      <4>2. inn'[i].kind = "publish" => \A k \in DOMAIN m : m[k] < inn'[i].what
        BY <1>4, <3>3, <3>4, <4>1
      <4> QED
        BY <4>2 DEF m
    <3> QED
      BY <1>1, <1>14, <3>2, <3>5 DEF Arriving, OfCall
  <2>2. Ordered(inn', 1)
    BY <1>1, <1>5
  <2> QED
    BY <2>1, <2>2 DEF Incoming, Ordered
<1> QED
  BY <1>11, <1>13, <1>15, <1>16, <1>17 DEF LinkInv

LEMMA HandlesKeeps ==
  ASSUME LinkInv, Handles
  PROVE  LinkInv'
<1> DEFINE p == Head(inn)
<1>1. /\ inn # << >>
      /\ UNCHANGED <<silent, newPid, call, made, received, issued, taken>>
      /\ \/ p.kind = "publish"
         \/ /\ p.kind = "ack" /\ p.pid \in pids /\ pids' = pids \ {p.pid} /\ inn' = Tail(inn)
            /\ UNCHANGED <<connected, subscribed, out, ring>>
         \/ Reconnects /\ UNCHANGED <<pids, ring>>
  BY DEF Handles, Acknowledged
<1>2. inn \in Seq(Packet) /\ made[Worker] \in Nat
  BY CallerFacts DEF LinkInv, Linked
<1>3. /\ p \in Packet /\ Arriving(p) /\ Tail(inn) \in Seq(Packet)
      /\ \A i \in DOMAIN Tail(inn) : \E j \in DOMAIN inn : Tail(inn)[i] = inn[j]
      /\ Ordered(Tail(inn), 1)
  BY <1>1, <1>2, TailFacts, OrderedFacts DEF LinkInv, Incoming
<1> HIDE DEF p
<1>4. CallRecords' = CallRecords
  BY <1>1 DEF CallRecords
<1>5. CASE p.kind = "publish"
  BY <1>5, HandlesPublish DEF p
<1>6. CASE /\ p.kind = "ack" /\ p.pid \in pids /\ pids' = pids \ {p.pid} /\ inn' = Tail(inn)
           /\ UNCHANGED <<connected, subscribed, out, ring>>
  <2>1. Linked'
    BY <1>1, <1>3, <1>4, <1>6 DEF LinkInv, Linked
  <2>2. Ringed'
    BY <1>1, <1>6 DEF LinkInv, Ringed
  <2>3. \A d \in Caller : /\ Achieved(d)' = Achieved(d) /\ Awaits(d)' = Awaits(d)
                          /\ Active(d)' = Active(d)
    BY <1>1, <1>6 DEF Achieved, Active, Awaits
  <2>4. Calling'
    <3>1. ASSUME NEW d \in Caller
          PROVE  /\ call'[d].at = "waiting" => Awaits(d)
                 /\ (Active(d)' /\ Awaits(d)) => (call'[d].pid \in pids' \/ Achieved(d)')
      <4>1. Active(d) /\ call[d].pid = p.pid => Achieved(d)
        BY <1>3, <1>6 DEF Arriving, OfCall
      <4> QED
        BY <1>1, <1>6, <2>3, <4>1 DEF LinkInv, Calling
    <3>2. (Active(Worker)' /\ Active(Subscriber)') => call'[Worker].pid # call'[Subscriber].pid
      BY <1>1, <2>3, CallerFacts DEF LinkInv, Calling
    <3>3. received' <= made'[Worker]
      BY <1>1 DEF LinkInv, Calling
    <3> QED
      BY <2>3, <3>1, <3>2, <3>3 DEF Calling
  <2>5. Outgoing'
    BY <1>1, <1>6, <2>3 DEF LinkInv, Outgoing, Leaving, Ordered, OfCall
  <2>6. Incoming'
    <3>1. \A x : Arriving(x) =>
            /\ x.pid < newPid'
            /\ x.kind = "ack" =>
                 \A d \in Caller : (Active(d)' /\ x.pid = call'[d].pid) => Achieved(d)'
            /\ x.kind = "publish" =>
                 /\ taken' < x.what /\ x.what <= issued'
                 /\ \A k \in DOMAIN Messages(ring') : Messages(ring')[k] < x.what
      BY <1>1, <1>6, <2>3 DEF Arriving, OfCall
    <3>2. \A i \in DOMAIN inn' : Arriving(inn'[i])
      BY <1>3, <1>6 DEF LinkInv, Incoming
    <3> QED
      BY <1>3, <1>6, <3>1, <3>2 DEF Incoming, Ordered, Arriving, OfCall
  <2> QED
    BY <2>1, <2>2, <2>4, <2>5, <2>6 DEF LinkInv
<1>7. CASE Reconnects /\ UNCHANGED <<pids, ring>>
  <2>1. /\ connected' = FALSE /\ subscribed' = FALSE /\ out' = << >> /\ inn' = << >>
    BY <1>7 DEF Reconnects
  <2>2. Linked'
    <3>1. << >> \in Seq(Packet)
      BY EmptySeq
    <3> QED
      BY <1>1, <1>4, <1>7, <2>1, <3>1 DEF LinkInv, Linked
  <2>3. made'[Worker] >= made[Worker]
    BY <1>1, <1>2
  <2>4. \A d \in Caller :
          /\ call'[d].at = "waiting" => call[d].at = "waiting"
          /\ Active(d)' =>
               /\ Active(d) /\ call'[d].pid = call[d].pid /\ made'[d] = made[d]
               /\ call[d].pid \in pids => call[d].pid \in pids'
               /\ (connected => subscribed) => (connected' => subscribed')
    BY <1>1, <1>7, <2>1 DEF Active
  <2> QED
    BY <1>1, <1>7, <2>1, <2>2, <2>3, <2>4, CalmerKeeps
<1> QED
  BY <1>1, <1>5, <1>6, <1>7

LEMMA LinkBegins == LinkInit => LinkInv
<1> SUFFICES ASSUME LinkInit PROVE LinkInv
  OBVIOUS
<1>1. /\ connected = TRUE /\ silent = FALSE /\ pids = {} /\ newPid = 1
      /\ call = [c \in Caller |-> NoCall] /\ made = [c \in Caller |-> 0]
      /\ out = << >> /\ inn = << >> /\ subscribed = FALSE /\ received = 0 /\ issued = 0
      /\ taken = 0
  BY DEF LinkInit
<1>2. ring \in Rings /\ ring.read = 0 /\ ring.write = 0
  <2>1. 0 \in Slots
    BY SizeFacts DEF Slots
  <2> QED
    BY <2>1 DEF LinkInit, Rings, Slots
<1>3. HeldIn(ring) = 0
  BY <1>2, HeldFacts
<1>4. DOMAIN Messages(ring) = {}
  BY <1>2, <1>3, MessagesFacts
<1>5. DOMAIN out = {} /\ DOMAIN inn = {}
  BY <1>1
<1>6. Linked
  <2>1. NoCall \in CallRecords
    <3>1. 0 \in 0 .. newPid - 1
      BY <1>1
    <3> QED
      BY <3>1, CallerFacts DEF NoCall, CallRecords, Stages
  <2>2. << >> \in Seq(Packet)
    BY EmptySeq
  <2>3. call \in [Caller -> CallRecords] /\ made \in [Caller -> Nat]
    BY <1>1, <2>1
  <2>4. newPid \in Nat \ {0} /\ pids \subseteq 1 .. newPid - 1
    BY <1>1
  <2> QED
    BY <1>1, <1>2, <2>2, <2>3, <2>4 DEF Linked
<1>7. Calling
  BY <1>1, CallerFacts DEF Calling, Active, NoCall
<1> QED
  BY <1>1, <1>4, <1>5, <1>6, <1>7 DEF LinkInv, Ringed, Outgoing, Incoming, Ordered

LEMMA LinkKeeps ==
  ASSUME LinkInv, [LinkNext]_linkVars
  PROVE  LinkInv'
<1>1. CASE \E c \in Caller : \/ Calls(c) \/ Enters(c) \/ Writes(c) \/ Returns(c) \/ GivesUp(c)
                             \/ Notices(c)
  BY <1>1, CallKeeps, EntersKeeps, WritesKeeps
<1>2. CASE Republishes
  BY <1>2, RepublishesKeeps
<1>3. CASE Connects \/ Breaks \/ FallsSilent \/ KeepAlive \/ UNCHANGED linkVars
  BY <1>3, ConnectionKeeps
<1>4. CASE Handles
  BY <1>4, HandlesKeeps
<1>5. CASE Takes
  BY <1>5, TakesKeeps
<1>6. CASE BrokerReads
  BY <1>6, BrokerReadsKeeps
<1>7. CASE BrokerSends
  BY <1>7, BrokerSendsKeeps
<1> QED
  BY <1>1, <1>2, <1>3, <1>4, <1>5, <1>6, <1>7 DEF LinkNext

-----------------------------------------------------------------------------
(* What the link promises.                                                 *)

LEMMA LinkIsTyped == LinkInv => LinkTypeOK /\ RingIsTrue
<1> SUFFICES ASSUME LinkInv PROVE LinkTypeOK /\ RingIsTrue
  OBVIOUS
<1>1. LinkTypeOK
  BY DEF LinkInv, Linked, LinkTypeOK, CallRecords, Stages, Rings, Slots
<1>2. RingIsTrue
  BY HeldIsMessages DEF LinkInv, Ringed, RingIsTrue
<1> QED
  BY <1>1, <1>2

\* Who has changed the ring.
LEMMA RingSteps ==
  ASSUME [LinkNext]_linkVars
  PROVE  \/ ring' = ring /\ taken' = taken
         \/ Takes
         \/ Handles /\ Head(inn).kind = "publish" /\ taken' = taken
BY DEF LinkNext, linkVars, Calls, Enters, Writes, Returns, GivesUp, Notices, Republishes,
       Connects, Breaks, FallsSilent, KeepAlive, Handles, BrokerReads, BrokerSends

LEMMA TakesTheOldest ==
  ASSUME LinkInv, Takes
  PROVE  taken' > taken
<1>1. ring \in Rings /\ taken \in Nat /\ ring.read # ring.write /\ taken' = ring.slot[ring.read]
  BY DEF LinkInv, Linked, Takes
<1>2. HeldIn(ring) >= 1 /\ Messages(ring)[1] = taken' /\ HeldIn(ring) \in Nat
  BY <1>1, TakeFromRingFacts, HeldFacts
<1>3. 1 \in DOMAIN Messages(ring) /\ Messages(ring)[1] \in Nat
  <2>1. DOMAIN Messages(ring) = 1 .. HeldIn(ring) /\ Messages(ring) \in Seq(Nat)
    BY <1>1, MessagesFacts
  <2> QED
    BY <1>2, <2>1, ElementOfSeq, MessagesFacts, <1>1
<1>4. taken < Messages(ring)[1]
  BY <1>3 DEF LinkInv, Ringed
<1> QED
  BY <1>1, <1>2, <1>3, <1>4

LEMMA StepQueues ==
  ASSUME LinkInv, [LinkNext]_linkVars
  PROVE  Queues
<1>1. CASE ring' = ring
  BY <1>1 DEF Queues
<1>2. CASE Takes
  <2>1. taken' > taken /\ taken \in Nat
    BY <1>2, TakesTheOldest DEF LinkInv, Linked
  <2>2. taken' # taken
    BY <2>1
  <2> QED
    BY <2>2 DEF Queues
<1>3. CASE Handles /\ Head(inn).kind = "publish"
  <2>1. inn \in Seq(Packet) /\ inn # << >> /\ ring \in Rings
        /\ ring' = PutInRing(ring, Head(inn).what)
    BY <1>3 DEF LinkInv, Linked, Handles
  <2>2. Head(inn).what \in Nat
    BY <2>1, TailFacts, LineFacts
  <2>3. Held = Messages(ring) /\ Held' = Messages(ring')
    BY HeldIsMessages
  <2> QED
    BY <2>1, <2>2, <2>3, PutInRingFacts DEF Queues
<1> QED
  BY <1>1, <1>2, <1>3, RingSteps

\* A call that waited and is idle has returned.
LEMMA StepAcknowledges ==
  ASSUME LinkInv, [LinkNext]_linkVars
  PROVE  Acknowledges
<1> SUFFICES ASSUME NEW c \in Caller, call[c].at = "waiting", call'[c].at = "idle"
             PROVE  IF c = Worker THEN received >= made[c] ELSE connected => subscribed
  BY DEF Acknowledges
<1>1. call \in [Caller -> CallRecords] /\ c \in Caller
  BY DEF LinkInv, Linked
<1>2. Returns(c)
  <2>1. call'[c] # call[c]
    OBVIOUS
  <2>2. ASSUME NEW d \in Caller, NEW at \in {"entering", "waiting", "idle"}, Stands(d, at)
        PROVE  d = c /\ at = "idle"
    <3>1. call' = [call EXCEPT ![d] = [call[d] EXCEPT !.at = at]]
      BY <2>2 DEF Stands
    <3>2. d = c
      BY <1>1, <2>1, <3>1
    <3>3. call'[c] = [call[c] EXCEPT !.at = at]
      BY <1>1, <3>1, <3>2
    <3>4. call'[c].at = at
      BY <1>1, <3>3 DEF CallRecords
    <3> QED
      BY <3>2, <3>4
  <2>3. ASSUME NEW d \in Caller, NEW r, call' = [call EXCEPT ![d] = r], r.at = "locked"
        PROVE  FALSE
    BY <1>1, <2>1, <2>3
  <2>4. CASE \E d \in Caller : \/ Calls(d) \/ Enters(d) \/ Writes(d) \/ Returns(d) \/ GivesUp(d)
                               \/ Notices(d)
    <3> PICK d \in Caller : \/ Calls(d) \/ Enters(d) \/ Writes(d) \/ Returns(d) \/ GivesUp(d)
                            \/ Notices(d)
      BY <2>4
    <3>1. CASE Calls(d) \/ GivesUp(d) \/ Notices(d)
      BY <2>2, <3>1 DEF Calls, GivesUp, Notices
    <3>2. CASE Enters(d)
      BY <2>3, <3>2 DEF Enters
    <3>3. CASE Writes(d)
      <4>1. call[d].at = "locked" /\ \E at \in {"waiting", "idle"} : Stands(d, at)
        BY <3>3 DEF Writes
      <4> QED
        BY <2>2, <4>1
    <3>4. CASE Returns(d)
      BY <2>2, <3>4 DEF Returns
    <3> QED
      BY <3>1, <3>2, <3>3, <3>4
  <2>5. CASE Republishes
    <3> DEFINE r == [at |-> "locked", pid |-> call[Worker].pid,
                     repeats |-> call[Worker].repeats + 1]
    <3>1. call' = [call EXCEPT ![Worker] = r] /\ r.at = "locked"
      BY <2>5 DEF Republishes
    <3> QED
      BY <2>3, <3>1, CallerFacts
  <2> QED
    BY <2>1, <2>4, <2>5
       DEF LinkNext, linkVars, Connects, Breaks, FallsSilent, KeepAlive, Handles, Takes,
           BrokerReads, BrokerSends
<1>3. Awaits(c) /\ Active(c) /\ call[c].pid \notin pids
  BY <1>2 DEF Returns, LinkInv, Calling, Active
<1>4. Achieved(c)
  BY <1>3 DEF LinkInv, Calling
<1> QED
  BY <1>4 DEF Achieved

LEMMA StepInSequence ==
  ASSUME LinkInv, [LinkNext]_linkVars
  PROVE  InSequence
<1>1. received \in Nat /\ taken \in Nat
  BY DEF LinkInv, Linked
<1>2. received' >= received
  <2>1. CASE BrokerReads
    BY <2>1, BrokerReadsKeeps
  <2>2. CASE ~BrokerReads
    <3>1. received' = received
      BY <2>2 DEF LinkNext, linkVars, Calls, Enters, Writes, Returns, GivesUp, Notices,
                  Republishes, Connects, Breaks, FallsSilent, KeepAlive, Handles, Takes,
                  BrokerSends
    <3> QED
      BY <1>1, <3>1
  <2> QED
    BY <2>1, <2>2
<1>3. taken' >= taken
  <2>1. CASE Takes
    <3>1. taken' > taken /\ taken' \in Nat
      BY <2>1, TakesTheOldest, LinkKeeps DEF LinkInv, Linked
    <3> QED
      BY <1>1, <3>1
  <2>2. CASE ~Takes
    BY <1>1, <2>2, RingSteps
  <2> QED
    BY <2>1, <2>2
<1> QED
  BY <1>2, <1>3 DEF InSequence

\* As long as identifiers do not come round while they are in use (lib/mqtt_as.py): whatever
\* breaks, falls silent, comes late or is sent twice, a call that returns has achieved
\* what it is about, the broker is never taken back to an earlier message nor the listener shown
\* one again, and the ring drops its oldest only when it is full and counts it.
THEOREM LinkIsTrueThroughout == LinkSpec => LinkIsTrue
<1>1. LinkInit => LinkInv
  BY LinkBegins
<1>2. LinkInv /\ [LinkNext]_linkVars => LinkInv'
  BY LinkKeeps
<1>3. LinkInv /\ [LinkNext]_linkVars => Queues /\ Acknowledges /\ InSequence
  BY StepQueues, StepAcknowledges, StepInSequence
<1>4. LinkInv => LinkTypeOK /\ RingIsTrue
  BY LinkIsTyped
<1>5. LinkInv' => LinkTypeOK' /\ RingIsTrue'
  BY <1>4, PTL
<1>6. LinkInv /\ [LinkNext]_linkVars =>
        [LinkTypeOK' /\ RingIsTrue' /\ Queues /\ Acknowledges /\ InSequence]_linkVars
  BY <1>2, <1>3, <1>5
<1> QED
  BY <1>1, <1>2, <1>6, PTL DEF LinkSpec, LinkIsTrue

-----------------------------------------------------------------------------
(***************************************************************************)
(* Commands: outcomes are true and final, for any number of commands,      *)
(* registers and requests, as long as none of the three exposures of the   *)
(* module has happened.                                                    *)
(***************************************************************************)

Operation ==
  [id : 1 .. MaxCommands, command : Command, status : Unfinished \cup Final,
   answer : Register \cup {Absent}]

Reply   == Frame \cup {Garbled}
Request == [by : 0 .. Len(ops), frame : Frame]
Polling == [at : Polled \cup {Absent}, left : SUBSET Polled]

Recorded ==
  /\ ops \in Seq(Operation) /\ Len(ops) <= MaxCommands
  /\ table \in [1 .. MaxCommands -> 0 .. Len(ops)]
  /\ order \in Seq(1 .. MaxCommands) /\ Len(order) <= OperationLimit
  /\ queue \in Seq(1 .. Len(ops)) /\ Len(queue) <= QueueLimit
  /\ current \in 0 .. Len(ops)
  /\ executed \in Seq(1 .. Len(ops))
  /\ exposed \subseteq Exposure

Wired ==
  /\ task \in [1 .. MaxCommands -> {Absent, "wait", "wire", "done"}]
  /\ poll \in Polling
  /\ reading \in [Polled -> Register \cup {"zero"}]
  /\ line \in Seq(Request) /\ Len(line) <= MaxLine
  /\ rx \in Seq(Reply)

\* Commands are taken in the order of their submission, and only the driver that
\* answers later has tasks.
Turns ==
  /\ \A k \in DOMAIN queue : queue[k] > current
  /\ \A j, k \in DOMAIN queue : j < k => queue[j] < queue[k]
  /\ \A n \in 1 .. MaxCommands : task[n] # Absent => n <= current /\ Deferred(n)

\* _bus_busy is held by the poll loop or by one task.
OneOnTheBus ==
  /\ busy = (poll.at # Absent \/ \E n \in DOMAIN ops : task[n] = "wire")
  /\ \A m, n \in DOMAIN ops : (task[m] = "wire" /\ task[n] = "wire") => m = n
  /\ \A n \in DOMAIN ops : task[n] = "wire" => poll.at = Absent
  /\ poll.at = Absent => poll.left = {}

\* One operation at most is being processed, and what waits has no outcome.
Statuses ==
  /\ \A k \in DOMAIN queue : ops[queue[k]].status = "queued"
  /\ \A n \in DOMAIN ops :
       /\ ops[n].status = "processing" => n = current
       /\ (task[n] # Absent \/ n = current) => ops[n].status # "queued"

Entered ==
  \A n \in DOMAIN ops : ops[n].status \in Unfinished => table[ops[n].id] = n

\* The effects that have happened.
Effects ==
  /\ \A k \in DOMAIN executed :
       /\ executed[k] <= current
       /\ Deferred(executed[k]) => task[executed[k]] \in {"wire", "done"}
  /\ \A j, k \in DOMAIN executed :
       (j < k /\ Deferred(executed[j]) = Deferred(executed[k])) => executed[j] < executed[k]

\* A request that a slave still has comes before no effect of a later one.
OnTheLine(r) ==
  r.by # 0 =>
    /\ r.frame = FrameOf(r.by) /\ task[r.by] \in {"wire", "done"}
    /\ \A k \in DOMAIN executed : Deferred(executed[k]) => executed[k] < r.by

Happened(n) == \E k \in DOMAIN executed : executed[k] = n

\* Who has the bus has it alone: what a slave has and what has come back are of its
\* own request.
Belongs(by, frame) ==
  /\ \A k \in DOMAIN line : line[k] = [by |-> by, frame |-> frame]
  /\ \A k \in DOMAIN rx :
       \/ rx[k] = Garbled
       \/ rx[k] = frame /\ ((by # 0 /\ frame.kind = "write") => Happened(by))
  /\ rx # <<>> => line = <<>>

OwnBus ==
  /\ Len(line) <= 1
  /\ \A k \in DOMAIN line : OnTheLine(line[k])
  /\ \A n \in DOMAIN ops : task[n] = "wire" => Belongs(n, FrameOf(n))
  /\ poll.at # Absent => Belongs(0, PollFrame(poll.at))

TrueOutcome(n) ==
  ops[n].status = "complete" =>
    IF Deferred(n) /\ FrameOf(n).kind = "read"
    THEN ops[n].answer = FrameOf(n).reg
    ELSE Happened(n)

OwnReadings == \A r \in Polled : reading[r] \in {"zero", r}

Unexposed ==
  /\ Statuses /\ Entered /\ Effects /\ OwnBus /\ OwnReadings
  /\ \A n \in DOMAIN ops : TrueOutcome(n)

CommandInv == Recorded /\ Wired /\ Turns /\ OneOnTheBus /\ (exposed = {} => Unexposed)

LEMMA CommandFacts ==
  /\ MaxCommands \in Nat /\ MaxLine \in Nat
  /\ QueueLimit \in Nat /\ QueueLimit >= 1 /\ OperationLimit \in Nat /\ OperationLimit >= 1
  /\ Absent \notin Register /\ Absent \notin Polled /\ Polled \subseteq Register
  /\ \A c \in Command : c.frame \in Frame /\ c.module \in ModuleKind
  /\ \A f \in Frame : f.kind \in {"read", "write"} /\ f.reg \in Register /\ f # Garbled
  /\ Garbled.kind = Absent /\ Garbled.reg = Absent
  /\ \A f \in Reply : f.reg \in Register \cup {Absent}
  /\ \A r \in Polled : PollFrame(r) \in Frame /\ PollFrame(r).reg = r /\ PollFrame(r).kind = "read"
<1>1. /\ MaxCommands \in Nat /\ MaxLine \in Nat
      /\ QueueLimit \in Nat /\ QueueLimit >= 1 /\ OperationLimit \in Nat /\ OperationLimit >= 1
  BY QueueAssumption
<1>2. Absent \notin Register /\ Absent \notin Polled /\ Polled \subseteq Register
  BY CommandAssumption
<1>3. \A c \in Command : c.frame \in Frame /\ c.module \in ModuleKind
  BY CommandAssumption
<1>4. Garbled.kind = Absent /\ Garbled.reg = Absent
  BY DEF Garbled
<1>5. \A f \in Frame : f.kind \in {"read", "write"} /\ f.reg \in Register /\ f # Garbled
  BY DEF Frame, Garbled, Absent
<1>6. \A f \in Reply : f.reg \in Register \cup {Absent}
  BY <1>4, <1>5 DEF Reply
<1>7. ASSUME NEW r \in Polled
      PROVE  PollFrame(r) \in Frame /\ PollFrame(r).reg = r /\ PollFrame(r).kind = "read"
  <2>1. (CHOOSE v \in Value : TRUE) \in Value
    BY CommandAssumption
  <2> QED
    BY <1>2, <2>1 DEF PollFrame, Frame
<1> QED
  BY <1>1, <1>2, <1>3, <1>4, <1>5, <1>6, <1>7

\* What follows of the types.
LEMMA RecordedFacts ==
  ASSUME Recorded
  PROVE  /\ Len(ops) \in Nat /\ DOMAIN ops = 1 .. Len(ops) /\ DOMAIN ops \subseteq 1 .. MaxCommands
         /\ \A n \in DOMAIN ops :
              /\ n \in Nat /\ n # 0 /\ ops[n] \in Operation
              /\ ops[n].id \in 1 .. MaxCommands
              /\ ops[n].status \in {"queued", "processing", "complete", "failed"}
              /\ FrameOf(n) \in Frame /\ Deferred(n) \in BOOLEAN
         /\ DOMAIN queue \subseteq Nat /\ \A k \in DOMAIN queue : queue[k] \in DOMAIN ops
         /\ DOMAIN executed \subseteq Nat /\ \A k \in DOMAIN executed : executed[k] \in DOMAIN ops
         /\ current \in Nat /\ (current # 0 => current \in DOMAIN ops)
<1>1. /\ ops \in Seq(Operation) /\ Len(ops) <= MaxCommands /\ MaxCommands \in Nat
      /\ queue \in Seq(1 .. Len(ops)) /\ executed \in Seq(1 .. Len(ops))
      /\ current \in 0 .. Len(ops)
  BY CommandFacts DEF Recorded
<1>2. /\ Len(ops) \in Nat /\ DOMAIN ops = 1 .. Len(ops) /\ DOMAIN ops \subseteq 1 .. MaxCommands
  BY <1>1, LenProperties
<1>3. \A n \in DOMAIN ops : n \in Nat /\ n # 0 /\ ops[n] \in Operation
  BY <1>1, <1>2, ElementOfSeq
<1>4. \A r \in Operation :
        /\ r.id \in 1 .. MaxCommands /\ r.command \in Command
        /\ r.status \in {"queued", "processing", "complete", "failed"}
  BY DEF Operation, Unfinished, Final
<1>5. /\ DOMAIN queue \subseteq Nat /\ \A k \in DOMAIN queue : queue[k] \in DOMAIN ops
      /\ DOMAIN executed \subseteq Nat /\ \A k \in DOMAIN executed : executed[k] \in DOMAIN ops
  BY <1>1, <1>2, LenProperties, ElementOfSeq
<1>6. \A n \in DOMAIN ops : FrameOf(n) \in Frame /\ Deferred(n) \in BOOLEAN
  BY <1>3, <1>4, CommandFacts DEF FrameOf, Deferred
<1> QED
  BY <1>1, <1>2, <1>3, <1>4, <1>5, <1>6

LEMMA MoreElements ==
  ASSUME NEW S, NEW T, S \subseteq T, NEW q \in Seq(S)
  PROVE  q \in Seq(T)
<1>1. Len(q) \in Nat /\ DOMAIN q = 1 .. Len(q) /\ q \in [1 .. Len(q) -> S]
  BY LenProperties
<1>2. q \in [1 .. Len(q) -> T]
  BY <1>1
<1> QED
  BY <1>1, <1>2

\* One operation is rewritten: what it is, and all others, stay.
Rewritten(o, n) ==
  /\ o \in Seq(Operation) /\ Len(o) = Len(ops) /\ DOMAIN o = DOMAIN ops
  /\ \A m \in DOMAIN ops : /\ o[m].id = ops[m].id /\ o[m].command = ops[m].command
                           /\ m # n => o[m] = ops[m]

LEMMA EndedFacts ==
  ASSUME Recorded, NEW n \in DOMAIN ops, NEW status \in Unfinished \cup Final
  PROVE  Rewritten(Ended(n, status), n) /\ Ended(n, status)[n].status = status
<1> DEFINE r == [ops[n] EXCEPT !.status = status]
<1> DEFINE o == Ended(n, status)
<1>1. ops \in Seq(Operation) /\ ops[n] \in Operation /\ DOMAIN ops = 1 .. Len(ops)
      /\ Len(ops) \in Nat
  BY RecordedFacts DEF Recorded
<1>2. /\ r \in Operation /\ r.status = status /\ r.id = ops[n].id /\ r.command = ops[n].command
  BY <1>1 DEF Operation
<1>3. o = [ops EXCEPT ![n] = r]
  BY DEF Ended
<1> HIDE DEF r, o
<1>4. o \in Seq(Operation) /\ Len(o) = Len(ops)
  BY <1>1, <1>2, <1>3, ExceptSeq
<1>5. /\ DOMAIN o = DOMAIN ops /\ o[n] = r /\ \A m \in DOMAIN ops : m # n => o[m] = ops[m]
  BY <1>1, <1>3
<1> QED
  BY <1>2, <1>4, <1>5 DEF Rewritten, o

LEMMA BookedFacts ==
  ASSUME Recorded, NEW n \in DOMAIN ops, NEW ok \in BOOLEAN, NEW answer \in Register \cup {Absent}
  PROVE  /\ Addressee(n) \in 0 .. Len(ops)
         /\ Rewritten(Booked(n, ok, answer), Addressee(n))
         /\ Addressee(n) # 0 =>
              /\ Deferred(Addressee(n))
              /\ Booked(n, ok, answer)[Addressee(n)].status = IF ok THEN "complete" ELSE "failed"
              /\ Booked(n, ok, answer)[Addressee(n)].answer = IF ok THEN answer ELSE Absent
<1> DEFINE m == Addressee(n)
<1> DEFINE o == Booked(n, ok, answer)
<1>1. ops \in Seq(Operation) /\ DOMAIN ops = 1 .. Len(ops) /\ Len(ops) \in Nat
      /\ \A k \in DOMAIN ops : ops[k] \in Operation
  BY RecordedFacts DEF Recorded
<1>2. m \in 0 .. Len(ops) /\ (m # 0 => m \in DOMAIN ops /\ Deferred(m))
  BY <1>1, RecordedFacts DEF Addressee, Recorded, Deferred
<1>3. CASE m = 0
  <2>1. o = ops
    BY <1>3 DEF Booked
  <2> HIDE DEF m, o
  <2> QED
    BY <1>1, <1>2, <1>3, <2>1 DEF Rewritten, m, o
<1>4. CASE m # 0
  <2> DEFINE r == [ops[m] EXCEPT !.status = IF ok THEN "complete" ELSE "failed",
                                 !.answer = IF ok THEN answer ELSE Absent]
  <2> HIDE DEF m
  <2>1. m \in DOMAIN ops /\ ops[m] \in Operation
    BY <1>1, <1>2, <1>4
  <2>2. /\ r \in Operation
        /\ r.status = (IF ok THEN "complete" ELSE "failed")
        /\ r.answer = (IF ok THEN answer ELSE Absent)
        /\ r.id = ops[m].id /\ r.command = ops[m].command
    BY <2>1 DEF Operation, Final
  <2>3. o = [ops EXCEPT ![m] = r]
    BY <1>1, <1>4, <2>1 DEF Booked, m
  <2> HIDE DEF r, o
  <2>4. o \in Seq(Operation) /\ Len(o) = Len(ops)
    BY <1>1, <2>1, <2>2, <2>3, ExceptSeq
  <2>5. /\ DOMAIN o = DOMAIN ops /\ o[m] = r /\ \A k \in DOMAIN ops : k # m => o[k] = ops[k]
    BY <1>1, <2>1, <2>3
  <2> QED
    BY <1>2, <2>2, <2>4, <2>5 DEF Rewritten, o, m
<1> QED
  BY <1>3, <1>4

\* What is said of the bus depends on nothing of the operations but their commands.
LEMMA BusAlone ==
  ASSUME Recorded, OwnBus, UNCHANGED <<line, rx, executed, poll, task>>,
         DOMAIN ops \subseteq DOMAIN ops',
         \A n \in DOMAIN ops : FrameOf(n)' = FrameOf(n) /\ Deferred(n)' = Deferred(n),
         \A n \in DOMAIN ops' : n \notin DOMAIN ops => task[n] # "wire",
         line \in Seq(Request)
  PROVE  OwnBus'
<1>1. \A k \in DOMAIN executed : executed[k] \in DOMAIN ops
  BY RecordedFacts
<1>2. \A by, frame : Belongs(by, frame)' <=> Belongs(by, frame)
  BY DEF Belongs, Happened
<1>3. \A n \in DOMAIN ops' : task'[n] = "wire" => Belongs(n, FrameOf(n))'
  BY <1>2 DEF OwnBus, Belongs
<1>4. poll'.at # Absent => Belongs(0, PollFrame(poll.at))'
  BY <1>2 DEF OwnBus, Belongs
<1>5. \A k \in DOMAIN line' : OnTheLine(line[k])'
  <2> SUFFICES ASSUME NEW k \in DOMAIN line, line[k].by # 0
               PROVE  /\ line[k].frame = FrameOf(line[k].by)'
                      /\ task[line[k].by] \in {"wire", "done"}
                      /\ \A j \in DOMAIN executed :
                           Deferred(executed[j])' => executed[j] < line[k].by
    BY DEF OnTheLine
  <2>1. line[k].by \in DOMAIN ops
    <3>1. line[k] \in Request
      BY LenProperties, ElementOfSeq
    <3> QED
      BY <3>1, RecordedFacts DEF Request
  <2> QED
    BY <1>1, <2>1 DEF OwnBus, OnTheLine
<1> QED
  BY <1>3, <1>4, <1>5 DEF OwnBus

\* A command is queued behind all others; its identifier is that of no operation
\* that still waits for its outcome.
LEMMA SubmitKeeps ==
  ASSUME CommandInv, NEW c \in Command, NEW id \in 1 .. MaxCommands, Submit(c, id)
  PROVE  CommandInv'
<1>0. Recorded
  BY DEF CommandInv
<1> PICK n \in Nat : n = Len(ops) + 1
  BY <1>0, RecordedFacts
<1> DEFINE r == [id |-> id, command |-> c, status |-> "queued", answer |-> Absent]
<1> DEFINE o == Append(order, id)
<1> DEFINE t == [table EXCEPT ![id] = n]
<1>1. /\ n <= MaxCommands /\ Len(queue) < QueueLimit
      /\ ops' = Append(ops, r) /\ order' = Kept(o) /\ table' = Forgotten(t, o, ops')
      /\ queue' = Append(queue, n)
      /\ exposed' = IF \E m \in DOMAIN ops : ops[m].id = id /\ Unsettled(m)
                    THEN exposed \cup {"reused"} ELSE exposed
      /\ UNCHANGED <<current, task, poll, busy, reading, line, rx, executed>>
  BY DEF Submit, Room, Expose, driver, wire
<1>2. /\ Recorded /\ Wired /\ Turns /\ OneOnTheBus /\ (exposed = {} => Unexposed)
  BY DEF CommandInv
<1>3. /\ r \in Operation /\ r.id = id /\ r.command = c /\ r.status = "queued"
  BY DEF Operation, Unfinished
<1>4. /\ Len(ops) \in Nat /\ DOMAIN ops = 1 .. Len(ops)
      /\ ops \in Seq(Operation) /\ MaxCommands \in Nat /\ QueueLimit \in Nat
      /\ OperationLimit \in Nat
  BY <1>2, RecordedFacts, CommandFacts DEF Recorded
<1> HIDE DEF r
<1>5. /\ ops' \in Seq(Operation) /\ Len(ops') = n /\ n \in Nat /\ n \in 1 .. MaxCommands
      /\ DOMAIN ops' = 1 .. n /\ ops'[n] = r /\ n \in DOMAIN ops' /\ n \notin DOMAIN ops
      /\ \A m \in DOMAIN ops : m \in DOMAIN ops' /\ ops'[m] = ops[m]
      /\ \A m \in DOMAIN ops' : m \in DOMAIN ops \/ m = n
  <2>1. /\ ops' \in Seq(Operation) /\ Len(ops') = Len(ops) + 1
        /\ \A m \in 1 .. Len(ops) : ops'[m] = ops[m]
        /\ ops'[Len(ops) + 1] = r
    BY <1>1, <1>3, <1>4, AppendProperties
  <2>2. DOMAIN ops' = 1 .. n
    BY <2>1, LenProperties
  <2> QED
    BY <1>1, <1>4, <2>1, <2>2
<1>6. /\ o \in Seq(1 .. MaxCommands) /\ Len(o) = Len(order) + 1 /\ Len(order) \in Nat
      /\ o # <<>> /\ o[1] \in 1 .. MaxCommands
  <2>1. order \in Seq(1 .. MaxCommands)
    BY <1>2 DEF Recorded
  <2>2. o \in Seq(1 .. MaxCommands) /\ Len(o) = Len(order) + 1 /\ Len(order) \in Nat
    BY <2>1, AppendFacts
  <2> HIDE DEF o
  <2>3. o # <<>>
    BY <2>2, EmptySeq
  <2>4. o[1] \in 1 .. MaxCommands
    BY <2>2, <2>3, TailFacts
  <2> QED
    BY <2>2, <2>3, <2>4
<1>7. t \in [1 .. MaxCommands -> 0 .. n]
  BY <1>2, <1>4 DEF Recorded
<1>8. /\ queue' \in Seq(1 .. n) /\ Len(queue') = Len(queue) + 1 /\ Len(queue) \in Nat
      /\ \A j, k \in DOMAIN queue' : j < k => \E a \in DOMAIN queue :
            /\ queue'[j] = queue[a]
            /\ \/ queue'[k] = n
               \/ \E b \in DOMAIN queue : a < b /\ queue'[k] = queue[b]
      /\ \A k \in DOMAIN queue' : queue'[k] = n \/ \E a \in DOMAIN queue : queue'[k] = queue[a]
  <2>1. queue \in Seq(1 .. Len(ops)) /\ 1 .. Len(ops) \subseteq 1 .. n /\ n \in 1 .. n
    BY <1>2, <1>4 DEF Recorded
  <2>2. queue \in Seq(1 .. n)
    BY <2>1, MoreElements
  <2>3. /\ queue' \in Seq(1 .. n) /\ Len(queue') = Len(queue) + 1 /\ Len(queue) \in Nat
        /\ \A k \in DOMAIN queue' : queue'[k] = n \/ \E a \in DOMAIN queue : queue'[k] = queue[a]
    BY <1>1, <2>1, <2>2, AppendFacts
  <2>4. DOMAIN queue' \subseteq Nat
    BY <2>3, LenProperties
  <2>5. ASSUME NEW j \in DOMAIN queue', NEW k \in DOMAIN queue', j < k
        PROVE  \E a \in DOMAIN queue :
                 /\ queue'[j] = queue[a]
                 /\ \/ queue'[k] = n
                    \/ \E b \in DOMAIN queue : a < b /\ queue'[k] = queue[b]
    <3>1. j # k
      BY <2>4, <2>5
    <3>2. \/ \E a \in DOMAIN queue : queue'[j] = queue[a] /\ queue'[k] = n
          \/ \E b \in DOMAIN queue : ~(j < k) /\ queue'[j] = n /\ queue'[k] = queue[b]
          \/ \E a, b \in DOMAIN queue : /\ a # b /\ (j < k => a < b)
                                        /\ queue'[j] = queue[a] /\ queue'[k] = queue[b]
      <4> DEFINE S == 1 .. n
      <4>1. queue \in Seq(S) /\ n \in S
        BY <2>1, <2>2
      <4> HIDE DEF S
      <4> QED
        BY <1>1, <3>1, <4>1, AppendOrder
    <3> QED
      BY <2>5, <3>2
  <2> QED
    BY <2>3, <2>5
<1> HIDE DEF o, t
<1>9. /\ order' \in Seq(1 .. MaxCommands) /\ Len(order') <= OperationLimit
  <2>1. CASE Len(o) > OperationLimit
    <3>1. order' = Tail(o)
      BY <1>1, <2>1 DEF Kept
    <3>2. Len(o) <= OperationLimit + 1
      BY <1>2, <1>4, <1>6 DEF Recorded
    <3> QED
      BY <1>4, <1>6, <3>1, <3>2, TailFacts
  <2>2. CASE ~(Len(o) > OperationLimit)
    <3>1. order' = o
      BY <1>1, <2>2 DEF Kept
    <3> QED
      BY <1>4, <1>6, <2>2, <3>1
  <2> QED
    BY <2>1, <2>2
<1>10. /\ table' \in [1 .. MaxCommands -> 0 .. n]
       /\ \A i \in 1 .. MaxCommands : i # o[1] => table'[i] = t[i]
       /\ (t[o[1]] # 0 /\ ops'[t[o[1]]].status \in Unfinished) => table' = t
  <2>1. table' = t \/ table' = [t EXCEPT ![o[1]] = 0]
    BY <1>1 DEF Forgotten
  <2>2. (t[o[1]] # 0 /\ ops'[t[o[1]]].status \in Unfinished) => table' = t
    BY <1>1 DEF Forgotten
  <2>3. 0 \in 0 .. n
    BY <1>4
  <2> QED
    BY <1>6, <1>7, <2>1, <2>2, <2>3
<1>11. executed \in Seq(1 .. n) /\ line \in Seq([by : 0 .. n, frame : Frame])
  <2>1. executed \in Seq(1 .. Len(ops)) /\ line \in Seq([by : 0 .. Len(ops), frame : Frame])
    BY <1>2 DEF Recorded, Wired, Request
  <2>2. 1 .. Len(ops) \subseteq 1 .. n /\ 0 .. Len(ops) \subseteq 0 .. n
    BY <1>4
  <2>3. [by : 0 .. Len(ops), frame : Frame] \subseteq [by : 0 .. n, frame : Frame]
    BY <2>2
  <2>4. executed \in Seq(1 .. n)
    BY <2>1, <2>2, MoreElements
  <2>5. line \in Seq([by : 0 .. n, frame : Frame])
    <3> DEFINE S == [by : 0 .. Len(ops), frame : Frame]
    <3> DEFINE T == [by : 0 .. n, frame : Frame]
    <3>1. line \in Seq(S) /\ S \subseteq T
      BY <2>1, <2>3
    <3> HIDE DEF S, T
    <3>2. line \in Seq(T)
      BY <3>1, MoreElements
    <3> QED
      BY <3>2 DEF T
  <2> QED
    BY <2>4, <2>5
<1>12. Recorded'
  <2>1. current' \in 0 .. n /\ exposed' \subseteq Exposure
    <3>1. current \in 0 .. Len(ops) /\ exposed \subseteq Exposure
      BY <1>2 DEF Recorded
    <3>2. current' \in 0 .. n
      BY <1>1, <1>4, <3>1
    <3>3. exposed' = exposed \/ exposed' = exposed \cup {"reused"}
      BY <1>1
    <3> QED
      BY <3>1, <3>2, <3>3 DEF Exposure
  <2>2. Len(queue') <= QueueLimit /\ Len(ops') <= MaxCommands
    BY <1>1, <1>4, <1>5, <1>8
  <2> QED
    BY <1>1, <1>5, <1>8, <1>9, <1>10, <1>11, <2>1, <2>2 DEF Recorded
<1>13. Wired'
  BY <1>1, <1>2, <1>5, <1>11 DEF Wired, Request
<1>14. /\ \A m \in DOMAIN ops : FrameOf(m)' = FrameOf(m) /\ Deferred(m)' = Deferred(m)
       /\ current < n /\ current \in Nat
       /\ task[n] = Absent
  <2>1. \A m \in DOMAIN ops : FrameOf(m)' = FrameOf(m) /\ Deferred(m)' = Deferred(m)
    BY <1>5 DEF FrameOf, Deferred
  <2>2. current < n /\ current \in Nat
    BY <1>2, <1>4 DEF Recorded
  <2>3. task[n] = Absent
    BY <1>2, <1>5, <2>2 DEF Turns
  <2> QED
    BY <2>1, <2>2, <2>3
<1>15. \A k \in DOMAIN queue : queue[k] \in DOMAIN ops /\ queue[k] \in Nat /\ queue[k] < n
                               /\ queue[k] > current
  BY <1>2, <1>4, RecordedFacts DEF Turns
<1>16. Turns'
  <2>1. \A k \in DOMAIN queue' : queue'[k] > current
    BY <1>8, <1>14, <1>15
  <2>2. \A j, k \in DOMAIN queue' : j < k => queue'[j] < queue'[k]
    BY <1>2, <1>8, <1>15 DEF Turns
  <2>3. \A m \in 1 .. MaxCommands : task[m] # Absent => m <= current /\ Deferred(m)'
    <3>1. \A m \in 1 .. MaxCommands : task[m] # Absent => m <= current /\ Deferred(m)
      BY <1>2 DEF Turns
    <3>2. \A m \in 1 .. MaxCommands : m <= current => m \in DOMAIN ops
      BY <1>2, <1>4 DEF Recorded
    <3> QED
      BY <1>14, <3>1, <3>2
  <2> QED
    BY <1>1, <2>1, <2>2, <2>3 DEF Turns
<1>17. OneOnTheBus'
  <2>1. \A m \in DOMAIN ops' : task[m] = "wire" => m \in DOMAIN ops
    BY <1>5, <1>14 DEF Absent
  <2>2. (\E m \in DOMAIN ops' : task[m] = "wire") <=> (\E m \in DOMAIN ops : task[m] = "wire")
    BY <1>5, <2>1
  <2> QED
    BY <1>1, <1>2, <2>1, <2>2 DEF OneOnTheBus
<1>18. ASSUME exposed' = {} PROVE Unexposed'
  <2>1. Unexposed /\ \A m \in DOMAIN ops : ops[m].id = id => ~Unsettled(m)
    BY <1>1, <1>2, <1>18
  <2>2. Statuses'
    <3>1. \A k \in DOMAIN queue' : ops'[queue'[k]].status = "queued"
      BY <1>3, <1>5, <1>8, <1>15, <2>1 DEF Unexposed, Statuses
    <3>2. \A m \in DOMAIN ops' :
            /\ ops'[m].status = "processing" => m = current
            /\ (task[m] # Absent \/ m = current) => ops'[m].status # "queued"
      BY <1>3, <1>5, <1>14, <2>1 DEF Unexposed, Statuses
    <3> QED
      BY <1>1, <3>1, <3>2 DEF Statuses
  <2>3. Entered'
    <3>1. ASSUME NEW m \in DOMAIN ops, ops[m].status \in Unfinished
          PROVE  table'[ops[m].id] = m
      <4>1. table[ops[m].id] = m /\ ops[m].id # id /\ ops[m].id \in 1 .. MaxCommands
        BY <1>2, <2>1, <3>1, RecordedFacts DEF Unexposed, Entered, Unsettled
      <4>2. t[ops[m].id] = m /\ m # 0
        BY <1>2, <1>4, <4>1 DEF t, Recorded
      <4>3. CASE ops[m].id = o[1]
        BY <1>5, <1>10, <3>1, <4>2, <4>3
      <4>4. CASE ops[m].id # o[1]
        BY <1>10, <4>1, <4>2, <4>4
      <4> QED
        BY <4>3, <4>4
    <3>2. table'[id] = n
      <4>1. t[id] = n /\ n # 0
        BY <1>2, <1>4 DEF t, Recorded
      <4>2. CASE id = o[1]
        BY <1>3, <1>5, <1>10, <4>1, <4>2 DEF Unfinished
      <4>3. CASE id # o[1]
        BY <1>10, <4>1, <4>3
      <4> QED
        BY <4>2, <4>3
    <3> QED
      BY <1>3, <1>5, <3>1, <3>2 DEF Entered
  <2>4. Effects'
    BY <1>1, <1>2, <1>14, <2>1, RecordedFacts DEF Unexposed, Effects
  <2>5. OwnBus'
    <3>1. \A m \in DOMAIN ops' : m \notin DOMAIN ops => task[m] # "wire"
      BY <1>5, <1>14 DEF Absent
    <3> QED
      BY <1>1, <1>2, <1>5, <1>14, <2>1, <3>1, BusAlone DEF Unexposed, Wired
  <2>6. OwnReadings'
    BY <1>1, <2>1 DEF Unexposed, OwnReadings
  <2>7. \A m \in DOMAIN ops' : TrueOutcome(m)'
    <3>1. TrueOutcome(n)'
      BY <1>3, <1>5 DEF TrueOutcome
    <3>2. \A m \in DOMAIN ops : TrueOutcome(m)'
      BY <1>1, <1>5, <1>14, <2>1 DEF Unexposed, TrueOutcome, Happened
    <3> QED
      BY <1>5, <3>1, <3>2
  <2> QED
    BY <2>2, <2>3, <2>4, <2>5, <2>6, <2>7 DEF Unexposed
<1> QED
  BY <1>12, <1>13, <1>16, <1>17, <1>18 DEF CommandInv

LEMMA SameCommands ==
  ASSUME Recorded, NEW x, Rewritten(ops', x)
  PROVE  /\ ops' \in Seq(Operation) /\ Len(ops') = Len(ops) /\ DOMAIN ops' = DOMAIN ops
         /\ Request' = Request
         /\ \A m \in DOMAIN ops : /\ FrameOf(m)' = FrameOf(m) /\ Deferred(m)' = Deferred(m)
                                  /\ ops'[m].id = ops[m].id
                                  /\ m # x => ops'[m] = ops[m]
BY DEF Rewritten, Request, FrameOf, Deferred

\* The oldest command leaves the queue.
LEMMA HeadFacts ==
  ASSUME Recorded, Turns, queue # <<>>
  PROVE  /\ Head(queue) \in DOMAIN ops /\ Head(queue) > current /\ Head(queue) \in Nat
         /\ 1 \in DOMAIN queue /\ Head(queue) = queue[1]
         /\ task[Head(queue)] = Absent
         /\ Tail(queue) \in Seq(1 .. Len(ops)) /\ Len(Tail(queue)) <= QueueLimit
         /\ \A k \in DOMAIN Tail(queue) :
              /\ k \in Nat /\ k + 1 \in DOMAIN queue /\ Tail(queue)[k] = queue[k + 1]
              /\ Tail(queue)[k] > Head(queue)
         /\ \A j, k \in DOMAIN Tail(queue) : j < k => Tail(queue)[j] < Tail(queue)[k]
<1>1. /\ queue \in Seq(1 .. Len(ops)) /\ Len(queue) <= QueueLimit /\ QueueLimit \in Nat
      /\ Len(ops) \in Nat /\ DOMAIN ops = 1 .. Len(ops) /\ current \in Nat
      /\ DOMAIN ops \subseteq 1 .. MaxCommands
  BY RecordedFacts, CommandFacts DEF Recorded
<1>2. /\ Head(queue) \in 1 .. Len(ops) /\ Head(queue) = queue[1] /\ 1 \in DOMAIN queue
      /\ Tail(queue) \in Seq(1 .. Len(ops)) /\ Len(Tail(queue)) = Len(queue) - 1
      /\ Len(queue) \in Nat
  BY <1>1, TailFacts
<1>3. \A k \in DOMAIN Tail(queue) :
        k \in Nat /\ k + 1 \in DOMAIN queue /\ 1 < k + 1 /\ Tail(queue)[k] = queue[k + 1]
  <2> DEFINE S == 1 .. Len(ops)
  <2>1. queue \in Seq(S)
    BY <1>1
  <2> HIDE DEF S
  <2> QED
    BY <2>1, TailOrder
<1>4. /\ \A j, k \in DOMAIN queue : j < k => queue[j] < queue[k]
      /\ \A k \in DOMAIN queue : queue[k] > current
      /\ \A m \in 1 .. MaxCommands : task[m] # Absent => m <= current
  BY DEF Turns
<1>5. Head(queue) > current
  BY <1>2, <1>4
<1>6. task[Head(queue)] = Absent
  BY <1>1, <1>2, <1>4, <1>5
<1>7. \A k \in DOMAIN Tail(queue) : Head(queue) < Tail(queue)[k]
  BY <1>2, <1>3, <1>4
<1>8. \A j, k \in DOMAIN Tail(queue) : j < k => Tail(queue)[j] < Tail(queue)[k]
  <2> SUFFICES ASSUME NEW j \in DOMAIN Tail(queue), NEW k \in DOMAIN Tail(queue), j < k
               PROVE  Tail(queue)[j] < Tail(queue)[k]
    OBVIOUS
  <2>1. j + 1 < k + 1
    BY <1>3
  <2> QED
    BY <1>3, <1>4, <2>1
<1>9. \A k \in DOMAIN Tail(queue) : Tail(queue)[k] > Head(queue)
  BY <1>7
<1>10. Len(Tail(queue)) <= QueueLimit
  BY <1>1, <1>2
<1> QED
  BY <1>1, <1>2, <1>3, <1>5, <1>6, <1>8, <1>9, <1>10

LEMMA TakeDeferredKeeps ==
  ASSUME CommandInv, TakeDeferred
  PROVE  CommandInv'
<1>1. /\ Recorded /\ Wired /\ Turns /\ OneOnTheBus /\ (exposed = {} => Unexposed)
      /\ Free /\ queue # <<>> /\ Deferred(Head(queue))
      /\ ops' = Ended(Head(queue), "processing") /\ current' = Head(queue)
      /\ task' = [task EXCEPT ![Head(queue)] = "wait"] /\ queue' = Tail(queue)
      /\ UNCHANGED <<table, order, poll, busy, reading, line, rx, executed, exposed>>
  BY DEF CommandInv, TakeDeferred, wire
<1>2. Head(queue) \in DOMAIN ops
  BY <1>1, HeadFacts
<1> PICK n \in DOMAIN ops : n = Head(queue)
  BY <1>2
<1>3. /\ n > current /\ n \in Nat /\ task[n] = Absent /\ n \in 1 .. MaxCommands
      /\ n \in 1 .. Len(ops) /\ DOMAIN ops \subseteq Nat
      /\ current \in Nat
  BY <1>1, HeadFacts, RecordedFacts
<1>4. Rewritten(ops', n) /\ ops'[n].status = "processing"
  BY <1>1, EndedFacts DEF Unfinished
<1>5. /\ ops' \in Seq(Operation) /\ Len(ops') = Len(ops) /\ DOMAIN ops' = DOMAIN ops
      /\ Request' = Request
      /\ \A m \in DOMAIN ops : /\ FrameOf(m)' = FrameOf(m) /\ Deferred(m)' = Deferred(m)
                               /\ ops'[m].id = ops[m].id
                               /\ m # n => ops'[m] = ops[m]
  BY <1>1, <1>4, SameCommands
<1>6. \A m \in 1 .. MaxCommands : task'[m] = IF m = n THEN "wait" ELSE task[m]
  BY <1>1, <1>3 DEF Wired
<1>7. Recorded'
  BY <1>1, <1>3, <1>5, HeadFacts DEF Recorded
<1>8. Wired'
  BY <1>1, <1>5 DEF Wired
<1>9. Turns'
  <2>1. /\ \A k \in DOMAIN queue' : queue'[k] > current'
        /\ \A j, k \in DOMAIN queue' : j < k => queue'[j] < queue'[k]
    BY <1>1, HeadFacts
  <2>2. ASSUME NEW m \in 1 .. MaxCommands, task'[m] # Absent
        PROVE  m <= n /\ Deferred(m)'
    <3>1. CASE m = n
      BY <1>1, <1>3, <1>5, <3>1
    <3>2. CASE m # n
      <4>1. m <= current /\ Deferred(m)
        BY <1>1, <1>6, <2>2, <3>2 DEF Turns
      <4>2. m \in DOMAIN ops /\ m <= n
        BY <1>1, <1>3, <4>1, RecordedFacts
      <4> QED
        BY <1>5, <4>1, <4>2
    <3> QED
      BY <3>1, <3>2
  <2> QED
    BY <1>1, <2>1, <2>2 DEF Turns
<1>10. \A m \in DOMAIN ops : task'[m] = "wire" <=> task[m] = "wire"
  BY <1>1, <1>3, <1>6, RecordedFacts DEF Absent
<1>11. OneOnTheBus'
  BY <1>1, <1>5, <1>10 DEF OneOnTheBus
<1>12. ASSUME exposed' = {} PROVE Unexposed'
  <2>1. Unexposed
    BY <1>1, <1>12
  <2>2. ops[n].status = "queued" /\ \A m \in DOMAIN ops : ops[m].status # "processing"
    <3>1. ops[n].status = "queued"
      BY <1>1, <2>1, HeadFacts DEF Unexposed, Statuses
    <3>2. \A m \in DOMAIN ops : ops[m].status # "processing"
      BY <1>1, <2>1, RecordedFacts DEF Unexposed, Statuses, Free
    <3> QED
      BY <3>1, <3>2
  <2>3. Statuses'
    <3>1. \A k \in DOMAIN queue' : ops'[queue'[k]].status = "queued"
      <4>1. \A k \in DOMAIN queue' : /\ k + 1 \in DOMAIN queue /\ queue'[k] = queue[k + 1]
                                     /\ queue'[k] > n
        BY <1>1, HeadFacts
      <4>2. \A k \in DOMAIN queue : queue[k] \in DOMAIN ops /\ ops[queue[k]].status = "queued"
        BY <1>1, <2>1, RecordedFacts DEF Unexposed, Statuses
      <4> QED
        BY <1>3, <1>5, <4>1, <4>2
    <3>2. \A m \in DOMAIN ops :
            /\ ops'[m].status = "processing" => m = n
            /\ (task'[m] # Absent \/ m = n) => ops'[m].status # "queued"
      BY <1>1, <1>4, <1>5, <1>6, <2>1, <2>2, RecordedFacts DEF Unexposed, Statuses
    <3> QED
      BY <1>1, <1>5, <3>1, <3>2 DEF Statuses
  <2>4. Entered'
    BY <1>1, <1>4, <1>5, <2>1, <2>2 DEF Unexposed, Entered, Unfinished
  <2>5. Effects'
    <3>1. \A k \in DOMAIN executed : /\ executed[k] \in DOMAIN ops /\ executed[k] <= current
                                     /\ executed[k] # n /\ executed[k] <= n
      BY <1>1, <1>3, <2>1, RecordedFacts DEF Unexposed, Effects
    <3>2. \A k \in DOMAIN executed : executed[k] \in 1 .. MaxCommands
      BY <1>1, RecordedFacts
    <3> QED
      BY <1>1, <1>5, <1>6, <2>1, <3>1, <3>2 DEF Unexposed, Effects
  <2>6. OwnBus'
    <3>1. \A by, frame : Belongs(by, frame)' <=> Belongs(by, frame)
      BY <1>1 DEF Belongs, Happened
    <3>2. ASSUME NEW m \in DOMAIN ops', task'[m] = "wire"
          PROVE  Belongs(m, FrameOf(m))'
      <4>1. task[m] = "wire" /\ FrameOf(m)' = FrameOf(m) /\ m \in DOMAIN ops
        BY <1>5, <1>10, <3>2
      <4>2. Belongs(m, FrameOf(m))
        BY <2>1, <4>1 DEF Unexposed, OwnBus
      <4> QED
        BY <1>1, <4>1, <4>2 DEF Belongs, Happened
    <3>3. poll'.at # Absent => Belongs(0, PollFrame(poll.at))'
      BY <1>1, <2>1, <3>1 DEF Unexposed, OwnBus, Belongs
    <3>4. ASSUME NEW k \in DOMAIN line PROVE OnTheLine(line[k])'
      <4> SUFFICES ASSUME line[k].by # 0
                   PROVE  /\ line[k].frame = FrameOf(line[k].by)'
                          /\ task'[line[k].by] \in {"wire", "done"}
                          /\ \A j \in DOMAIN executed :
                               Deferred(executed[j])' => executed[j] < line[k].by
        BY <1>1 DEF OnTheLine
      <4>1. line[k].by \in DOMAIN ops
        <5>1. line[k] \in Request
          BY <1>1, LenProperties, ElementOfSeq DEF Wired
        <5> QED
          BY <1>1, <5>1, RecordedFacts DEF Request
      <4>2. /\ line[k].frame = FrameOf(line[k].by) /\ task[line[k].by] \in {"wire", "done"}
            /\ \A j \in DOMAIN executed : Deferred(executed[j]) => executed[j] < line[k].by
        BY <2>1 DEF Unexposed, OwnBus, OnTheLine
      <4>3. line[k].by # n /\ line[k].by \in 1 .. MaxCommands
        BY <1>1, <1>3, <4>1, <4>2, RecordedFacts DEF Absent
      <4> QED
        BY <1>1, <1>5, <1>6, <4>1, <4>2, <4>3, RecordedFacts
    <3> QED
      BY <1>1, <2>1, <3>2, <3>3, <3>4 DEF Unexposed, OwnBus
  <2>7. OwnReadings'
    BY <1>1, <2>1 DEF Unexposed, OwnReadings
  <2>8. ASSUME NEW m \in DOMAIN ops' PROVE TrueOutcome(m)'
    <3>1. CASE m = n
      BY <1>4, <3>1 DEF TrueOutcome
    <3>2. CASE m # n
      <4>1. /\ TrueOutcome(m) /\ ops'[m] = ops[m]
            /\ FrameOf(m)' = FrameOf(m) /\ Deferred(m)' = Deferred(m)
        BY <1>5, <2>1, <3>2 DEF Unexposed
      <4> QED
        BY <1>1, <4>1 DEF TrueOutcome, Happened
    <3> QED
      BY <3>1, <3>2
  <2> QED
    BY <2>3, <2>4, <2>5, <2>6, <2>7, <2>8 DEF Unexposed
<1> QED
  BY <1>7, <1>8, <1>9, <1>11, <1>12 DEF CommandInv

\* Effects are added at the end.
LEMMA EffectAdded ==
  ASSUME NEW S, NEW q \in Seq(S), NEW x \in S
  PROVE  /\ Append(q, x) \in Seq(S) /\ DOMAIN q \subseteq DOMAIN Append(q, x)
         /\ \A k \in DOMAIN q : Append(q, x)[k] = q[k]
         /\ \A k \in DOMAIN Append(q, x) : k \in DOMAIN q \/ Append(q, x)[k] = x
         /\ \E k \in DOMAIN Append(q, x) : Append(q, x)[k] = x
         /\ \A j, k \in DOMAIN Append(q, x) : j < k => j \in DOMAIN q
         /\ \A k \in DOMAIN q : k \in Nat
<1>1. /\ Append(q, x) \in Seq(S) /\ Len(q) \in Nat /\ DOMAIN q = 1 .. Len(q)
      /\ Len(Append(q, x)) = Len(q) + 1
      /\ \A i \in 1 .. Len(q) : Append(q, x)[i] = q[i]
      /\ Append(q, x)[Len(q) + 1] = x
  BY AppendProperties, LenProperties
<1>2. DOMAIN Append(q, x) = 1 .. Len(q) + 1
  BY <1>1, LenProperties
<1>3. /\ DOMAIN q \subseteq DOMAIN Append(q, x)
      /\ \A k \in DOMAIN Append(q, x) : k \in DOMAIN q \/ k = Len(q) + 1
      /\ Len(q) + 1 \in DOMAIN Append(q, x)
      /\ \A j, k \in DOMAIN Append(q, x) : j < k => j \in DOMAIN q
      /\ \A k \in DOMAIN q : k \in Nat
  BY <1>1, <1>2
<1> QED
  BY <1>1, <1>3

LEMMA EffectNoted ==
  ASSUME Recorded, NEW n \in DOMAIN ops, executed' = Append(executed, n)
  PROVE  /\ executed' \in Seq(1 .. Len(ops)) /\ DOMAIN executed \subseteq DOMAIN executed'
         /\ \A k \in DOMAIN executed : executed'[k] = executed[k]
         /\ \A k \in DOMAIN executed' : k \in DOMAIN executed \/ executed'[k] = n
         /\ \E k \in DOMAIN executed' : executed'[k] = n
         /\ \A j, k \in DOMAIN executed' : j < k => j \in DOMAIN executed
         /\ Happened(n)' /\ \A m : Happened(m) => Happened(m)'
         /\ \A m : Happened(m)' => Happened(m) \/ m = n
<1> DEFINE S == 1 .. Len(ops)
<1>1. executed \in Seq(S) /\ n \in S
  BY RecordedFacts DEF Recorded
<1> HIDE DEF S
<1>2. /\ executed' \in Seq(S) /\ DOMAIN executed \subseteq DOMAIN executed'
      /\ \A k \in DOMAIN executed : executed'[k] = executed[k]
      /\ \A k \in DOMAIN executed' : k \in DOMAIN executed \/ executed'[k] = n
      /\ \E k \in DOMAIN executed' : executed'[k] = n
      /\ \A j, k \in DOMAIN executed' : j < k => j \in DOMAIN executed
  BY <1>1, EffectAdded
<1>3. Happened(n)' /\ \A m : Happened(m) => Happened(m)'
  BY <1>2 DEF Happened
<1>4. \A m : Happened(m)' => Happened(m) \/ m = n
  BY <1>2 DEF Happened
<1> QED
  BY <1>2, <1>3, <1>4 DEF S

\* A request stays what it was when nothing later than it happens.
LEMMA LineKeeps ==
  ASSUME Recorded, NEW r \in Request, OnTheLine(r),
         \A m \in DOMAIN ops : FrameOf(m)' = FrameOf(m) /\ Deferred(m)' = Deferred(m),
         \A m \in DOMAIN ops : task[m] \in {"wire", "done"} => task'[m] \in {"wire", "done"},
         \A k \in DOMAIN executed' :
           /\ executed'[k] \in DOMAIN ops
           /\ \/ k \in DOMAIN executed /\ executed'[k] = executed[k]
              \/ Deferred(executed'[k]) => executed'[k] < r.by
  PROVE  OnTheLine(r)'
<1> SUFFICES ASSUME r.by # 0
             PROVE  /\ r.frame = FrameOf(r.by)' /\ task'[r.by] \in {"wire", "done"}
                    /\ \A k \in DOMAIN executed' : Deferred(executed[k])' => executed'[k] < r.by
  BY DEF OnTheLine
<1>1. r.by \in DOMAIN ops
  BY RecordedFacts DEF Request
<1>2. /\ r.frame = FrameOf(r.by) /\ task[r.by] \in {"wire", "done"}
      /\ \A k \in DOMAIN executed : Deferred(executed[k]) => executed[k] < r.by
  BY DEF OnTheLine
<1>3. ASSUME NEW k \in DOMAIN executed', Deferred(executed[k])'
      PROVE  executed'[k] < r.by
  <2> PICK m \in DOMAIN ops : m = executed'[k]
    OBVIOUS
  <2>1. Deferred(m)'
    BY <1>3 DEF Deferred
  <2>2. Deferred(m)
    BY <2>1
  <2>3. CASE k \in DOMAIN executed /\ executed'[k] = executed[k]
    BY <1>2, <2>2, <2>3
  <2>4. CASE Deferred(executed'[k]) => executed'[k] < r.by
    BY <2>2, <2>4
  <2> QED
    BY <2>3, <2>4
<1> QED
  BY <1>1, <1>2, <1>3

\* An effect that comes last in its kind keeps the order.
LEMMA EffectKeeps ==
  ASSUME Recorded, Effects, NEW n \in DOMAIN ops, n <= current',
         executed' = Append(executed, n), current <= current', current' \in Nat,
         \A m \in DOMAIN ops : Deferred(m)' = Deferred(m),
         \A m \in DOMAIN ops : task[m] \in {"wire", "done"} => task'[m] \in {"wire", "done"},
         Deferred(n) => task'[n] \in {"wire", "done"},
         \A k \in DOMAIN executed : Deferred(executed[k]) = Deferred(n) => executed[k] < n
  PROVE  Effects' /\ \A m : Happened(m) => Happened(m)'
<1>1. /\ executed \in Seq(1 .. Len(ops)) /\ n \in 1 .. Len(ops) /\ current \in Nat /\ n \in Nat
      /\ \A k \in DOMAIN executed : executed[k] \in DOMAIN ops /\ executed[k] \in Nat
  BY RecordedFacts DEF Recorded
<1>2. /\ DOMAIN executed \subseteq DOMAIN executed'
      /\ \A k \in DOMAIN executed : executed'[k] = executed[k]
      /\ \A k \in DOMAIN executed' : k \in DOMAIN executed \/ executed'[k] = n
      /\ \A j, k \in DOMAIN executed' : j < k => j \in DOMAIN executed
  BY EffectNoted
<1>3. ASSUME NEW k \in DOMAIN executed'
      PROVE  \E m \in DOMAIN ops :
               /\ executed'[k] = m /\ m <= current'
               /\ Deferred(m) => task'[m] \in {"wire", "done"}
  <2>1. CASE k \in DOMAIN executed
    BY <1>1, <1>2, <2>1 DEF Effects
  <2>2. CASE executed'[k] = n
    BY <2>2
  <2> QED
    BY <1>2, <2>1, <2>2
<1>4. ASSUME NEW j \in DOMAIN executed', NEW k \in DOMAIN executed', j < k,
             Deferred(executed'[j]) = Deferred(executed'[k])
      PROVE  executed'[j] < executed'[k]
  <2>1. j \in DOMAIN executed /\ executed'[j] = executed[j]
    BY <1>2, <1>4
  <2>2. CASE k \in DOMAIN executed
    BY <1>2, <1>4, <2>1, <2>2 DEF Effects
  <2>3. CASE executed'[k] = n
    BY <1>4, <2>1, <2>3
  <2> QED
    BY <1>2, <2>2, <2>3
<1>5. \A k \in DOMAIN executed' : Deferred(executed[k])' = Deferred(executed'[k])
  <2> TAKE k \in DOMAIN executed'
  <2>1. PICK m \in DOMAIN ops : executed'[k] = m
    BY <1>3
  <2>2. Deferred(m)' = Deferred(m)
    OBVIOUS
  <2> QED
    BY <2>1, <2>2 DEF Deferred
<1>6. \A k \in DOMAIN executed' : /\ executed'[k] <= current'
                                  /\ Deferred(executed[k])' => task'[executed'[k]] \in {"wire", "done"}
  BY <1>3, <1>5
<1>7. \A j, k \in DOMAIN executed' :
        (j < k /\ Deferred(executed[j])' = Deferred(executed[k])') => executed'[j] < executed'[k]
  BY <1>4, <1>5
<1>8. \A m : Happened(m) => Happened(m)'
  BY <1>2 DEF Happened
<1> QED
  BY <1>6, <1>7, <1>8 DEF Effects

LEMMA TakePlainKeeps ==
  ASSUME CommandInv, TakePlain
  PROVE  CommandInv'
<1>1. /\ Recorded /\ Wired /\ Turns /\ OneOnTheBus /\ (exposed = {} => Unexposed)
      /\ Free /\ queue # <<>> /\ ~Deferred(Head(queue))
      /\ \/ ops' = Ended(Head(queue), "complete") /\ executed' = Append(executed, Head(queue))
         \/ ops' = Ended(Head(queue), "failed") /\ executed' = executed
      /\ current' = Head(queue) /\ queue' = Tail(queue)
      /\ UNCHANGED <<table, order, task, poll, busy, reading, line, rx, exposed>>
  BY DEF CommandInv, TakePlain, driver
<1>2. Head(queue) \in DOMAIN ops
  BY <1>1, HeadFacts
<1> PICK n \in DOMAIN ops : n = Head(queue)
  BY <1>2
<1>3. /\ n > current /\ n \in Nat /\ task[n] = Absent /\ n \in 1 .. MaxCommands
      /\ n \in 1 .. Len(ops) /\ DOMAIN ops \subseteq Nat /\ DOMAIN ops \subseteq 1 .. MaxCommands
      /\ current \in Nat /\ current <= n
  BY <1>1, HeadFacts, RecordedFacts
<1>4. /\ Rewritten(ops', n) /\ ops'[n].status \in Final
      /\ ops'[n].status = "complete" => executed' = Append(executed, n)
  <2>1. CASE ops' = Ended(Head(queue), "complete") /\ executed' = Append(executed, Head(queue))
    BY <1>1, <2>1, EndedFacts DEF Final
  <2>2. CASE ops' = Ended(Head(queue), "failed") /\ executed' = executed
    BY <1>1, <2>2, EndedFacts DEF Final
  <2> QED
    BY <1>1, <2>1, <2>2
<1>5. /\ ops' \in Seq(Operation) /\ Len(ops') = Len(ops) /\ DOMAIN ops' = DOMAIN ops
      /\ Request' = Request
      /\ \A m \in DOMAIN ops : /\ FrameOf(m)' = FrameOf(m) /\ Deferred(m)' = Deferred(m)
                               /\ ops'[m].id = ops[m].id
                               /\ m # n => ops'[m] = ops[m]
  BY <1>1, <1>4, SameCommands
<1>6. executed' = executed \/ executed' = Append(executed, n)
  BY <1>1
<1>7. Recorded'
  <2>1. executed \in Seq(1 .. Len(ops))
    BY <1>1 DEF Recorded
  <2>2. executed' \in Seq(1 .. Len(ops))
    BY <1>3, <1>6, <2>1, AppendFacts
  <2> QED
    BY <1>1, <1>3, <1>5, <2>2, HeadFacts DEF Recorded
<1>8. Wired'
  BY <1>1, <1>5 DEF Wired
<1>9. Turns'
  <2>1. /\ \A k \in DOMAIN queue' : queue'[k] > current'
        /\ \A j, k \in DOMAIN queue' : j < k => queue'[j] < queue'[k]
    BY <1>1, HeadFacts
  <2>2. ASSUME NEW m \in 1 .. MaxCommands, task[m] # Absent
        PROVE  m <= n /\ Deferred(m)'
    <3>1. m <= current /\ Deferred(m)
      BY <1>1, <2>2 DEF Turns
    <3>2. m \in DOMAIN ops /\ m <= n
      BY <1>1, <1>3, <3>1, RecordedFacts
    <3> QED
      BY <1>5, <3>1, <3>2
  <2> QED
    BY <1>1, <2>1, <2>2 DEF Turns
<1>10. OneOnTheBus'
  BY <1>1, <1>5 DEF OneOnTheBus
<1>11. ASSUME exposed' = {} PROVE Unexposed'
  <2>1. Unexposed
    BY <1>1, <1>11
  <2>2. ops[n].status = "queued" /\ \A m \in DOMAIN ops : ops[m].status # "processing"
    <3>1. ops[n].status = "queued"
      BY <1>1, <2>1, HeadFacts DEF Unexposed, Statuses
    <3>2. \A m \in DOMAIN ops : ops[m].status # "processing"
      BY <1>1, <2>1, RecordedFacts DEF Unexposed, Statuses, Free
    <3> QED
      BY <3>1, <3>2
  <2>3. Statuses'
    <3>1. \A k \in DOMAIN queue' : ops'[queue'[k]].status = "queued"
      <4>1. \A k \in DOMAIN queue' : /\ k + 1 \in DOMAIN queue /\ queue'[k] = queue[k + 1]
                                     /\ queue'[k] > n
        BY <1>1, HeadFacts
      <4>2. \A k \in DOMAIN queue : queue[k] \in DOMAIN ops /\ ops[queue[k]].status = "queued"
        BY <1>1, <2>1, RecordedFacts DEF Unexposed, Statuses
      <4> QED
        BY <1>3, <1>5, <4>1, <4>2
    <3>2. \A m \in DOMAIN ops :
            /\ ops'[m].status = "processing" => m = n
            /\ (task[m] # Absent \/ m = n) => ops'[m].status # "queued"
      BY <1>3, <1>4, <1>5, <2>1, <2>2 DEF Unexposed, Statuses, Final
    <3> QED
      BY <1>1, <1>5, <3>1, <3>2 DEF Statuses
  <2>4. Entered'
    BY <1>1, <1>4, <1>5, <2>1 DEF Unexposed, Entered, Unfinished, Final
  <2>5. Effects' /\ \A m : Happened(m) => Happened(m)'
    <3>1. CASE executed' = executed
      <4>1. \A k \in DOMAIN executed : executed[k] \in DOMAIN ops /\ executed[k] <= n
        BY <1>1, <1>3, <2>1, RecordedFacts DEF Unexposed, Effects
      <4> QED
        BY <1>1, <1>5, <2>1, <3>1, <4>1 DEF Unexposed, Effects, Happened
    <3>2. CASE executed' = Append(executed, n)
      <4>1. \A k \in DOMAIN executed : executed[k] < n
        BY <1>1, <1>3, <2>1, RecordedFacts DEF Unexposed, Effects
      <4> QED
        BY <1>1, <1>3, <1>5, <2>1, <3>2, <4>1, EffectKeeps DEF Unexposed
    <3> QED
      BY <1>6, <3>1, <3>2
  <2>6. OwnBus'
    <3>1. \A by, frame : Belongs(by, frame) => Belongs(by, frame)'
      BY <1>1, <2>5 DEF Belongs
    <3>2. ASSUME NEW m \in DOMAIN ops', task[m] = "wire"
          PROVE  Belongs(m, FrameOf(m))'
      <4>1. FrameOf(m)' = FrameOf(m) /\ m \in DOMAIN ops
        BY <1>5
      <4>2. Belongs(m, FrameOf(m))
        BY <2>1, <3>2, <4>1 DEF Unexposed, OwnBus
      <4> QED
        BY <1>1, <2>5, <4>1, <4>2 DEF Belongs
    <3>3. poll'.at # Absent => Belongs(0, PollFrame(poll.at))'
      BY <1>1, <2>1, <2>5 DEF Unexposed, OwnBus, Belongs
    <3>4. \A k \in DOMAIN executed' :
            /\ executed'[k] \in DOMAIN ops
            /\ \/ k \in DOMAIN executed /\ executed'[k] = executed[k]
               \/ ~Deferred(executed'[k])
      <4>1. ~Deferred(n) /\ \A k \in DOMAIN executed : executed[k] \in DOMAIN ops
        BY <1>1, RecordedFacts
      <4>2. CASE executed' = executed
        BY <4>1, <4>2
      <4>3. CASE executed' = Append(executed, n)
        BY <1>1, <4>1, <4>3, EffectNoted
      <4> QED
        BY <1>6, <4>2, <4>3
    <3>5. ASSUME NEW k \in DOMAIN line PROVE OnTheLine(line[k])'
      <4>1. line[k] \in Request
        BY <1>1, LenProperties, ElementOfSeq DEF Wired
      <4> PICK r \in Request : r = line[k]
        BY <4>1
      <4>2. OnTheLine(r)
        BY <2>1 DEF Unexposed, OwnBus
      <4>3. OnTheLine(r)'
        BY <1>1, <1>5, <3>4, <4>2, LineKeeps
      <4> QED
        BY <1>1, <4>3
    <3> QED
      BY <1>1, <1>5, <2>1, <3>2, <3>3, <3>5 DEF Unexposed, OwnBus
  <2>7. OwnReadings'
    BY <1>1, <2>1 DEF Unexposed, OwnReadings
  <2>8. ASSUME NEW m \in DOMAIN ops' PROVE TrueOutcome(m)'
    <3>1. CASE m = n
      <4>1. ops'[n].status = "complete" => Happened(n)'
        BY <1>1, <1>4, EffectNoted
      <4>2. ~Deferred(n)'
        BY <1>1, <1>5
      <4> QED
        BY <3>1, <4>1, <4>2 DEF TrueOutcome
    <3>2. CASE m # n
      BY <1>5, <2>1, <2>5, <3>2 DEF Unexposed, TrueOutcome
    <3> QED
      BY <3>1, <3>2
  <2> QED
    BY <2>3, <2>4, <2>5, <2>6, <2>7, <2>8 DEF Unexposed
<1> QED
  BY <1>7, <1>8, <1>9, <1>10, <1>11 DEF CommandInv

\* An operation that is not queued is given its outcome.
LEMMA OutcomeKeeps ==
  ASSUME Recorded, Statuses, Entered, NEW x, Rewritten(ops', x),
         x \in DOMAIN ops => ops[x].status # "queued" /\ ops'[x].status \in Final,
         UNCHANGED <<queue, table, current>>,
         \A m \in DOMAIN ops : task'[m] # Absent => task[m] # Absent
  PROVE  Statuses' /\ Entered'
<1>1. /\ DOMAIN ops' = DOMAIN ops
      /\ \A m \in DOMAIN ops : /\ ops'[m].id = ops[m].id
                               /\ m # x => ops'[m] = ops[m]
                               /\ m = x => ops[m].status # "queued" /\ ops'[m].status \in Final
  BY SameCommands
<1>2. \A k \in DOMAIN queue' : ops'[queue'[k]].status = "queued"
  <2>1. \A k \in DOMAIN queue : queue[k] \in DOMAIN ops /\ ops[queue[k]].status = "queued"
    BY RecordedFacts DEF Statuses
  <2> QED
    BY <1>1, <2>1
<1>3. \A m \in DOMAIN ops' :
        /\ ops'[m].status = "processing" => m = current'
        /\ (task'[m] # Absent \/ m = current') => ops'[m].status # "queued"
  BY <1>1 DEF Statuses, Final
<1>4. Entered'
  BY <1>1 DEF Entered, Unfinished, Final
<1> QED
  BY <1>2, <1>3, <1>4 DEF Statuses

LEMMA TimeOutKeeps ==
  ASSUME CommandInv, TimeOut
  PROVE  CommandInv'
<1>1. /\ Recorded /\ Wired /\ Turns /\ OneOnTheBus /\ (exposed = {} => Unexposed)
      /\ current # 0 /\ ops[current].status = "processing" /\ ops' = Ended(current, "failed")
      /\ UNCHANGED <<table, order, queue, current, task, poll, busy, reading, line, rx,
                     executed, exposed>>
  BY DEF CommandInv, TimeOut, GivenUp, driver, wire
<1>2. current \in DOMAIN ops /\ Rewritten(ops', current) /\ ops'[current].status = "failed"
  BY <1>1, EndedFacts, RecordedFacts DEF Final
<1>3. /\ ops' \in Seq(Operation) /\ Len(ops') = Len(ops) /\ DOMAIN ops' = DOMAIN ops
      /\ Request' = Request
      /\ \A m \in DOMAIN ops : /\ FrameOf(m)' = FrameOf(m) /\ Deferred(m)' = Deferred(m)
                               /\ m # current => ops'[m] = ops[m]
  BY <1>1, <1>2, SameCommands
<1>4. Recorded'
  BY <1>1, <1>3 DEF Recorded
<1>5. Wired' /\ OneOnTheBus'
  BY <1>1, <1>3 DEF Wired, OneOnTheBus
<1>6. Turns'
  <2>1. \A m \in 1 .. MaxCommands : task[m] # Absent => m \in DOMAIN ops
    BY <1>1, RecordedFacts DEF Turns
  <2> QED
    BY <1>1, <1>3, <2>1 DEF Turns
<1>7. ASSUME exposed' = {} PROVE Unexposed'
  <2>1. Unexposed
    BY <1>1, <1>7
  <2>2. Statuses' /\ Entered'
    BY <1>1, <1>2, <2>1, OutcomeKeeps DEF Unexposed, Final
  <2>3. Effects'
    BY <1>1, <1>3, <2>1, RecordedFacts DEF Unexposed, Effects
  <2>4. OwnBus'
    BY <1>1, <1>3, <2>1, BusAlone DEF Unexposed, Wired
  <2>5. OwnReadings'
    BY <1>1, <2>1 DEF Unexposed, OwnReadings
  <2>6. ASSUME NEW m \in DOMAIN ops' PROVE TrueOutcome(m)'
    <3>1. CASE m = current
      BY <1>2, <3>1 DEF TrueOutcome
    <3>2. CASE m # current
      <4>1. /\ TrueOutcome(m) /\ ops'[m] = ops[m]
            /\ FrameOf(m)' = FrameOf(m) /\ Deferred(m)' = Deferred(m)
        BY <1>3, <2>1, <3>2 DEF Unexposed
      <4> QED
        BY <1>1, <4>1 DEF TrueOutcome, Happened
    <3> QED
      BY <3>1, <3>2
  <2> QED
    BY <2>2, <2>3, <2>4, <2>5, <2>6 DEF Unexposed
<1> QED
  BY <1>1, <1>4, <1>5, <1>6, <1>7 DEF CommandInv

\* A task comes to its end: the bus is given back and the response is booked on the
\* operation it is for.
TrueAnswer(n, answer) ==
  IF FrameOf(n).kind = "read" THEN answer = FrameOf(n).reg ELSE Happened(n)

LEMMA TaskEnds ==
  ASSUME CommandInv, NEW n \in DOMAIN ops, NEW ok \in BOOLEAN,
         NEW answer \in Register \cup {Absent},
         task[n] = "wire", ops' = Booked(n, ok, answer), busy' = FALSE,
         task' = [task EXCEPT ![n] = "done"], Expose("late", IsLate(n)), rx' \in Seq(Reply),
         UNCHANGED <<table, order, queue, current, poll, reading, line, executed>>,
         (Unexposed /\ ok) => TrueAnswer(n, answer)
  PROVE  CommandInv'
<1>1. /\ Recorded /\ Wired /\ Turns /\ OneOnTheBus /\ (exposed = {} => Unexposed)
      /\ exposed' = IF IsLate(n) THEN exposed \cup {"late"} ELSE exposed
  BY DEF CommandInv, Expose
<1>2. /\ n \in 1 .. MaxCommands /\ ops[n] \in Operation
      /\ ops[n].status \in {"queued", "processing", "complete", "failed"}
  BY <1>1, RecordedFacts
<1>3. Rewritten(ops', Addressee(n))
  BY <1>1, BookedFacts
<1>4. /\ ops' \in Seq(Operation) /\ Len(ops') = Len(ops) /\ DOMAIN ops' = DOMAIN ops
      /\ Request' = Request
      /\ \A m \in DOMAIN ops : FrameOf(m)' = FrameOf(m) /\ Deferred(m)' = Deferred(m)
  BY <1>1, <1>3, SameCommands
<1>5. \A m \in 1 .. MaxCommands : task'[m] = IF m = n THEN "done" ELSE task[m]
  BY <1>1, <1>2 DEF Wired
<1>6. Recorded'
  BY <1>1, <1>4 DEF Recorded, Exposure
<1>7. Wired'
  BY <1>1, <1>2, <1>4 DEF Wired
<1>8. Turns'
  <2>1. \A m \in 1 .. MaxCommands :
          task'[m] # Absent => m <= current /\ Deferred(m) /\ m \in DOMAIN ops
    BY <1>1, <1>5, RecordedFacts DEF Turns, Absent
  <2> QED
    BY <1>1, <1>4, <2>1 DEF Turns
<1>9. poll.at = Absent /\ \A m \in DOMAIN ops : task'[m] # "wire"
  BY <1>1, <1>5, RecordedFacts DEF OneOnTheBus
<1>10. OneOnTheBus'
  BY <1>1, <1>4, <1>9 DEF OneOnTheBus
<1>11. ASSUME exposed' = {} PROVE Unexposed'
  <2>1. Unexposed /\ ~IsLate(n)
    BY <1>1, <1>11
  <2>2. ops[n].status \in Unfinished
    BY <1>2, <2>1 DEF IsLate, Unfinished, Final
  <2>3. Addressee(n) = n
    <3>1. table[ops[n].id] = n
      BY <2>1, <2>2 DEF Unexposed, Entered
    <3>2. Deferred(n) /\ n # 0
      BY <1>1, <1>2, RecordedFacts DEF Turns, Absent
    <3> QED
      BY <3>1, <3>2 DEF Addressee, Deferred
  <2>4. /\ Rewritten(ops', n) /\ n # 0 /\ Deferred(n)
        /\ ops'[n].status = IF ok THEN "complete" ELSE "failed"
        /\ ops'[n].answer = IF ok THEN answer ELSE Absent
        /\ \A m \in DOMAIN ops : m # n => ops'[m] = ops[m]
    <3>1. n # 0
      BY <1>1, RecordedFacts
    <3> QED
      BY <1>1, <1>3, <2>3, <3>1, BookedFacts DEF Rewritten
  <2>5. Statuses' /\ Entered'
    <3>1. ops[n].status # "queued"
      BY <2>1 DEF Unexposed, Statuses, Absent
    <3>2. ops'[n].status \in Final
      BY <2>4 DEF Final
    <3>3. \A m \in DOMAIN ops : task'[m] # Absent => task[m] # Absent
      BY <1>1, <1>5, RecordedFacts DEF Absent
    <3> QED
      BY <1>1, <2>1, <2>4, <3>1, <3>2, <3>3, OutcomeKeeps DEF Unexposed
  <2>6. /\ \A m \in DOMAIN ops : task[m] \in {"wire", "done"} => task'[m] \in {"wire", "done"}
        /\ \A k \in DOMAIN executed : executed[k] \in DOMAIN ops
    BY <1>1, <1>5, RecordedFacts
  <2>7. Effects'
    BY <1>4, <2>1, <2>6 DEF Unexposed, Effects
  <2>8. OwnBus'
    <3>1. ASSUME NEW k \in DOMAIN line PROVE OnTheLine(line[k])'
      <4>1. line[k] \in Request
        BY <1>1, LenProperties, ElementOfSeq DEF Wired
      <4> PICK r \in Request : r = line[k]
        BY <4>1
      <4>2. OnTheLine(r)
        BY <2>1 DEF Unexposed, OwnBus
      <4>3. OnTheLine(r)'
        BY <1>1, <1>4, <2>6, <4>2, LineKeeps
      <4> QED
        BY <4>3
    <3> QED
      BY <1>4, <1>9, <2>1, <3>1 DEF Unexposed, OwnBus
  <2>9. OwnReadings'
    BY <2>1 DEF Unexposed, OwnReadings
  <2>10. ASSUME NEW m \in DOMAIN ops' PROVE TrueOutcome(m)'
    <3>1. FrameOf(m)' = FrameOf(m) /\ Deferred(m)' = Deferred(m) /\ m \in DOMAIN ops
      BY <1>4
    <3>2. CASE m = n
      BY <2>1, <2>4, <3>1, <3>2 DEF TrueOutcome, TrueAnswer, Happened
    <3>3. CASE m # n
      <4>1. TrueOutcome(m) /\ ops'[m] = ops[m]
        BY <2>1, <2>4, <3>1, <3>3 DEF Unexposed
      <4> QED
        BY <3>1, <4>1 DEF TrueOutcome, Happened
    <3> QED
      BY <3>2, <3>3
  <2> QED
    BY <2>5, <2>7, <2>8, <2>9, <2>10 DEF Unexposed
<1> QED
  BY <1>6, <1>7, <1>8, <1>10, <1>11 DEF CommandInv

\* The oldest reply leaves the buffer.
LEMMA ReplyFacts ==
  ASSUME Wired, rx # <<>>
  PROVE  /\ Head(rx) \in Reply /\ Head(rx) = rx[1] /\ 1 \in DOMAIN rx
         /\ Tail(rx) \in Seq(Reply)
         /\ \A k \in DOMAIN Tail(rx) : k + 1 \in DOMAIN rx /\ Tail(rx)[k] = rx[k + 1]
<1> DEFINE S == Reply
<1>1. rx \in Seq(S)
  BY DEF Wired
<1> HIDE DEF S
<1>2. /\ Head(rx) \in S /\ Head(rx) = rx[1] /\ 1 \in DOMAIN rx /\ Tail(rx) \in Seq(S)
      /\ \A k \in DOMAIN Tail(rx) : k + 1 \in DOMAIN rx /\ Tail(rx)[k] = rx[k + 1]
  BY <1>1, TailFacts, TailOrder
<1> QED
  BY <1>2 DEF S

\* A reply that fits is the one that was asked for, and what a write echoes has happened.
LEMMA FittingReply ==
  ASSUME Wired, rx # <<>>, NEW by, NEW frame \in Frame, Belongs(by, frame),
         Fits(Head(rx), frame)
  PROVE  Head(rx) = frame /\ ((by # 0 /\ frame.kind = "write") => Happened(by))
<1>1. Head(rx) = rx[1] /\ 1 \in DOMAIN rx
  BY ReplyFacts
<1>2. rx[1] # Garbled
  <2>1. frame.kind \in {"read", "write"} /\ Garbled.kind = Absent
    BY CommandFacts
  <2> QED
    BY <1>1, <2>1 DEF Fits, Absent
<1> QED
  BY <1>1, <1>2 DEF Belongs

LEMMA TaskReplyKeeps ==
  ASSUME CommandInv, NEW n \in DOMAIN ops, TaskReply(n)
  PROVE  CommandInv'
<1> DEFINE ok == Fits(Head(rx), FrameOf(n))
<1> DEFINE answer == IF ok THEN Head(rx).reg ELSE Absent
<1>1. /\ Recorded /\ Wired /\ task[n] = "wire" /\ rx # <<>>
      /\ ops' = Booked(n, ok, answer) /\ rx' = Tail(rx) /\ busy' = FALSE
      /\ task' = [task EXCEPT ![n] = "done"] /\ Expose("late", IsLate(n))
      /\ UNCHANGED <<table, order, queue, current, poll, reading, line, executed>>
  BY DEF CommandInv, TaskReply
<1>2. ok \in BOOLEAN /\ answer \in Register \cup {Absent} /\ rx' \in Seq(Reply)
  <2>1. Head(rx) \in Reply /\ Tail(rx) \in Seq(Reply)
    BY <1>1, ReplyFacts
  <2>2. ok \in BOOLEAN
    BY DEF Fits
  <2> QED
    BY <1>1, <2>1, <2>2, CommandFacts
<1>3. ASSUME Unexposed, ok PROVE TrueAnswer(n, answer)
  <2>1. FrameOf(n) \in Frame /\ n # 0 /\ FrameOf(n).kind \in {"read", "write"}
    BY <1>1, RecordedFacts, CommandFacts
  <2>2. Belongs(n, FrameOf(n))
    BY <1>1, <1>3 DEF Unexposed, OwnBus
  <2>3. Head(rx) = FrameOf(n) /\ (FrameOf(n).kind = "write" => Happened(n))
    BY <1>1, <1>3, <2>1, <2>2, FittingReply
  <2> QED
    BY <1>3, <2>1, <2>3 DEF TrueAnswer
<1> HIDE DEF ok, answer
<1> QED
  BY <1>1, <1>2, <1>3, TaskEnds

LEMMA TaskTimeoutKeeps ==
  ASSUME CommandInv, NEW n \in DOMAIN ops, TaskTimeout(n)
  PROVE  CommandInv'
<1>1. /\ Wired /\ task[n] = "wire" /\ ops' = Booked(n, FALSE, Absent) /\ busy' = FALSE
      /\ task' = [task EXCEPT ![n] = "done"] /\ Expose("late", IsLate(n))
      /\ UNCHANGED <<table, order, queue, current, poll, reading, line, rx, executed>>
  BY DEF CommandInv, TaskTimeout, wire
<1>2. rx' \in Seq(Reply) /\ Absent \in Register \cup {Absent} /\ FALSE \in BOOLEAN
  BY <1>1 DEF Wired
<1> QED
  BY <1>1, <1>2, TaskEnds

\* Who sends a request while no slave has one is alone on the bus.
LEMMA SendsFacts ==
  ASSUME Recorded, Wired, NEW by \in 0 .. Len(ops), NEW frame \in Frame, Sends(by, frame)
  PROVE  /\ line' \in Seq(Request) /\ Len(line') <= MaxLine
         /\ rx' \in Seq(Reply) /\ executed' = executed /\ exposed' \subseteq Exposure
         /\ exposed' = {} =>
              /\ exposed = {} /\ Len(line') <= 1 /\ Belongs(by, frame)'
              /\ \A k \in DOMAIN line' : line'[k] = [by |-> by, frame |-> frame]
              /\ by # 0 => ~IsLate(by)
<1> DEFINE r == [by |-> by, frame |-> frame]
<1>1. /\ rx' = <<>> /\ executed' = executed
      /\ line' = line \/ (Len(line) < MaxLine /\ line' = Append(line, r))
      /\ exposed' = exposed \cup (IF line # <<>> THEN {"slow"} ELSE {})
                            \cup (IF by # 0 /\ IsLate(by) THEN {"late"} ELSE {})
  BY DEF Sends, Drained
<1>2. r \in Request
  BY DEF Request
<1> DEFINE S == Request
<1>3. line \in Seq(S) /\ r \in S /\ Len(line) <= MaxLine /\ MaxLine \in Nat
  BY <1>2, CommandFacts DEF Wired
<1> HIDE DEF r, S
<1>4. Len(line) \in Nat /\ line' \in Seq(S) /\ Len(line') <= MaxLine
  BY <1>1, <1>3, AppendFacts, LenProperties
<1>5. rx' \in Seq(Reply) /\ DOMAIN rx' = {}
  BY <1>1
<1>6. exposed' \subseteq Exposure
  BY <1>1 DEF Recorded, Exposure
<1>7. ASSUME exposed' = {}
      PROVE  /\ exposed = {} /\ line = <<>> /\ (by # 0 => ~IsLate(by))
  BY <1>1, <1>7
<1>8. ASSUME line = <<>> PROVE Len(line') <= 1 /\ \A k \in DOMAIN line' : line'[k] = r
  <2>1. Len(line) = 0 /\ DOMAIN line = {}
    BY <1>8
  <2>2. CASE line' = line
    BY <2>1, <2>2
  <2>3. CASE line' = Append(line, r)
    BY <1>3, <2>1, <2>3, AppendFacts
  <2> QED
    BY <1>1, <2>2, <2>3
<1>9. ASSUME line = <<>> PROVE Belongs(by, frame)'
  BY <1>1, <1>5, <1>8, <1>9 DEF Belongs, r
<1> QED
  BY <1>1, <1>4, <1>5, <1>6, <1>7, <1>8, <1>9 DEF S, r

LEMMA TaskSendsKeeps ==
  ASSUME CommandInv, NEW n \in DOMAIN ops, TaskSends(n)
  PROVE  CommandInv'
<1>1. /\ Recorded /\ Wired /\ Turns /\ OneOnTheBus /\ (exposed = {} => Unexposed)
      /\ task[n] = "wait" /\ ~busy /\ busy' = TRUE /\ task' = [task EXCEPT ![n] = "wire"]
      /\ Sends(n, FrameOf(n))
      /\ UNCHANGED <<ops, table, order, queue, current, poll, reading>>
  BY DEF CommandInv, TaskSends, operations
<1>2. /\ n \in 1 .. MaxCommands /\ n \in 0 .. Len(ops) /\ FrameOf(n) \in Frame /\ n # 0
      /\ ops[n].status \in {"queued", "processing", "complete", "failed"}
      /\ DOMAIN ops \subseteq 1 .. MaxCommands /\ n \in Nat /\ current \in Nat
  BY <1>1, RecordedFacts
<1> PICK frame \in Frame : frame = FrameOf(n)
  BY <1>2
<1>3. /\ line' \in Seq(Request) /\ Len(line') <= MaxLine
      /\ rx' \in Seq(Reply) /\ executed' = executed /\ exposed' \subseteq Exposure
      /\ exposed' = {} =>
           /\ exposed = {} /\ Len(line') <= 1 /\ Belongs(n, frame)'
           /\ \A k \in DOMAIN line' : line'[k] = [by |-> n, frame |-> FrameOf(n)]
           /\ ~IsLate(n)
  BY <1>1, <1>2, SendsFacts
<1>4. \A m \in 1 .. MaxCommands : task'[m] = IF m = n THEN "wire" ELSE task[m]
  BY <1>1, <1>2 DEF Wired
<1>5. /\ poll.at = Absent /\ \A m \in DOMAIN ops : task[m] # "wire"
      /\ \A m \in DOMAIN ops : task'[m] = "wire" <=> m = n
  BY <1>1, <1>2, <1>4 DEF OneOnTheBus
<1>6. Recorded'
  BY <1>1, <1>3 DEF Recorded
<1>7. Wired'
  BY <1>1, <1>2, <1>3 DEF Wired, Request
<1>8. Turns'
  <2>1. \A m \in 1 .. MaxCommands : task'[m] # Absent => task[m] # Absent
    BY <1>1, <1>4 DEF Absent
  <2>2. \A m \in 1 .. MaxCommands : Deferred(m)' = Deferred(m)
    BY <1>1 DEF Deferred
  <2> QED
    BY <1>1, <2>1, <2>2 DEF Turns
<1>9. OneOnTheBus'
  BY <1>1, <1>5 DEF OneOnTheBus
<1>10. ASSUME exposed' = {} PROVE Unexposed'
  <2>1. /\ Unexposed /\ ~IsLate(n) /\ Len(line') <= 1 /\ Belongs(n, frame)'
        /\ \A k \in DOMAIN line' : line'[k] = [by |-> n, frame |-> FrameOf(n)]
    BY <1>1, <1>3, <1>10
  <2>2. /\ \A m \in DOMAIN ops : task'[m] # Absent => task[m] # Absent
        /\ \A m \in DOMAIN ops : task[m] \in {"wire", "done"} => task'[m] \in {"wire", "done"}
        /\ \A k \in DOMAIN executed : executed[k] \in DOMAIN ops /\ executed[k] \in Nat
        /\ \A m \in DOMAIN ops : FrameOf(m)' = FrameOf(m) /\ Deferred(m)' = Deferred(m)
    BY <1>1, <1>2, <1>4, RecordedFacts DEF Absent, FrameOf, Deferred
  <2>3. Statuses' /\ Entered'
    BY <1>1, <2>1, <2>2 DEF Unexposed, Statuses, Entered
  <2>4. Effects'
    BY <1>1, <1>3, <2>1, <2>2 DEF Unexposed, Effects
  <2>5. n = current
    <3>1. ops[n].status # "queued"
      BY <1>1, <2>1 DEF Unexposed, Statuses, Absent
    <3> QED
      BY <1>2, <2>1, <3>1 DEF Unexposed, Statuses, IsLate, Final
  <2>6. \A k \in DOMAIN executed : Deferred(executed[k]) => executed[k] < n
    BY <1>1, <1>2, <2>1, <2>2, <2>5 DEF Unexposed, Effects
  <2>7. OwnBus'
    <3>1. ASSUME NEW k \in DOMAIN line' PROVE OnTheLine(line[k])'
      <4>1. line'[k].by = n /\ line'[k].frame = FrameOf(n)
        BY <2>1
      <4>2. \A j \in DOMAIN executed' : Deferred(executed[j])' => executed'[j] < n
        BY <1>1, <1>3, <2>6 DEF Deferred
      <4>3. FrameOf(n)' = FrameOf(n) /\ task'[n] \in {"wire", "done"}
        BY <1>2, <1>4, <2>2
      <4>4. line'[k].frame = FrameOf(line[k].by)'
        BY <1>1, <4>1 DEF FrameOf
      <4> QED
        BY <4>1, <4>2, <4>3, <4>4 DEF OnTheLine
    <3>2. ASSUME NEW m \in DOMAIN ops', task'[m] = "wire"
          PROVE  Belongs(m, FrameOf(m))'
      <4>1. m = n /\ FrameOf(m)' = FrameOf(n)
        BY <1>1, <1>5, <2>2, <3>2
      <4> QED
        BY <2>1, <4>1 DEF Belongs, Happened
    <3> QED
      BY <1>1, <1>5, <2>1, <3>1, <3>2 DEF OwnBus
  <2>8. OwnReadings' /\ \A m \in DOMAIN ops' : TrueOutcome(m)'
    BY <1>1, <1>3, <2>1 DEF Unexposed, OwnReadings, TrueOutcome, Happened, Deferred, FrameOf
  <2> QED
    BY <2>3, <2>4, <2>7, <2>8 DEF Unexposed
<1> QED
  BY <1>6, <1>7, <1>8, <1>9, <1>10 DEF CommandInv

\* What the poll loop leaves as it was.
LEMMA PollLeaves ==
  ASSUME CommandInv, UNCHANGED <<ops, table, order, queue, current, task, executed>>,
         poll' \in Polling, poll'.at = Absent => poll'.left = {},
         reading' \in [Polled -> Register \cup {"zero"}],
         line' \in Seq(Request), Len(line') <= MaxLine, rx' \in Seq(Reply),
         exposed' \subseteq Exposure, exposed' = {} => exposed = {},
         \A m \in DOMAIN ops : task[m] # "wire",
         busy' = (poll'.at # Absent),
         Unexposed => OwnReadings',
         exposed' = {} =>
           /\ Len(line') <= 1 /\ \A k \in DOMAIN line' : OnTheLine(line[k])'
           /\ poll'.at # Absent => Belongs(0, PollFrame(poll.at))'
  PROVE  CommandInv'
<1>1. /\ Recorded /\ Wired /\ Turns /\ OneOnTheBus /\ (exposed = {} => Unexposed)
  BY DEF CommandInv
<1>2. Recorded' /\ Wired'
  BY <1>1 DEF Recorded, Wired, Request
<1>3. Turns'
  BY <1>1 DEF Turns, Deferred
<1>4. OneOnTheBus'
  BY DEF OneOnTheBus
<1>5. ASSUME exposed' = {} PROVE Unexposed'
  <2>1. Unexposed
    BY <1>1, <1>5
  <2>2. Statuses' /\ Entered' /\ Effects'
    BY <2>1 DEF Unexposed, Statuses, Entered, Effects, Deferred
  <2>3. OwnBus'
    BY <1>5 DEF OwnBus
  <2>4. \A m \in DOMAIN ops' : TrueOutcome(m)'
    BY <2>1 DEF Unexposed, TrueOutcome, Happened, Deferred, FrameOf
  <2> QED
    BY <2>1, <2>2, <2>3, <2>4 DEF Unexposed
<1> QED
  BY <1>2, <1>3, <1>4, <1>5 DEF CommandInv

LEMMA PollAsks ==
  ASSUME CommandInv, UNCHANGED <<ops, table, order, queue, current, task>>,
         NEW r \in Polled, NEW left \in SUBSET Polled,
         poll' = [at |-> r, left |-> left], Sends(0, PollFrame(r)), busy' = TRUE,
         reading' \in [Polled -> Register \cup {"zero"}], Unexposed => OwnReadings',
         \A m \in DOMAIN ops : task[m] # "wire"
  PROVE  CommandInv'
<1>1. Recorded /\ Wired
  BY DEF CommandInv
<1>2. PollFrame(r) \in Frame /\ 0 \in 0 .. Len(ops) /\ r # Absent
  BY <1>1, CommandFacts, RecordedFacts
<1>3. /\ line' \in Seq(Request) /\ Len(line') <= MaxLine
      /\ rx' \in Seq(Reply) /\ executed' = executed /\ exposed' \subseteq Exposure
      /\ exposed' = {} =>
           /\ exposed = {} /\ Len(line') <= 1 /\ Belongs(0, PollFrame(r))'
           /\ \A k \in DOMAIN line' : line'[k] = [by |-> 0, frame |-> PollFrame(r)]
  BY <1>1, <1>2, SendsFacts
<1>4. poll' \in Polling /\ poll'.at = r
  BY DEF Polling
<1>5. ASSUME exposed' = {}
      PROVE  /\ Len(line') <= 1 /\ \A k \in DOMAIN line' : OnTheLine(line[k])'
             /\ poll'.at # Absent => Belongs(0, PollFrame(poll.at))'
  <2>1. \A k \in DOMAIN line' : line'[k].by = 0
    BY <1>3, <1>5
  <2>2. \A k \in DOMAIN line' : OnTheLine(line[k])'
    BY <2>1 DEF OnTheLine
  <2>3. Belongs(0, PollFrame(poll.at))'
    BY <1>3, <1>4, <1>5 DEF PollFrame, Belongs
  <2> QED
    BY <1>3, <1>5, <2>2, <2>3
<1> QED
  BY <1>2, <1>3, <1>4, <1>5, PollLeaves

LEMMA PollStartsKeeps ==
  ASSUME CommandInv, PollStarts
  PROVE  CommandInv'
<1>1. PICK due \in SUBSET Polled : \E r \in due :
        poll' = [at |-> r, left |-> due \ {r}] /\ Sends(0, PollFrame(r))
  BY DEF PollStarts
<1> PICK r \in due :
        poll' = [at |-> r, left |-> due \ {r}] /\ Sends(0, PollFrame(r))
  BY <1>1
<1>2. /\ Wired /\ OneOnTheBus /\ ~busy /\ busy' = TRUE
      /\ UNCHANGED <<ops, table, order, queue, current, task, reading>>
  BY DEF CommandInv, PollStarts, operations
<1>3. /\ reading' \in [Polled -> Register \cup {"zero"}]
      /\ Unexposed => OwnReadings'
      /\ r \in Polled /\ due \ {r} \in SUBSET Polled
      /\ \A m \in DOMAIN ops : task[m] # "wire"
  BY <1>1, <1>2 DEF Wired, Unexposed, OwnReadings, OneOnTheBus
<1> QED
  BY <1>1, <1>2, <1>3, PollAsks

LEMMA PollGoesOnKeeps ==
  ASSUME CommandInv, poll # Rest, PollGoesOn, UNCHANGED <<operations, task>>,
         reading' \in [Polled -> Register \cup {"zero"}], Unexposed => OwnReadings'
  PROVE  CommandInv'
<1>1. /\ Recorded /\ Wired /\ OneOnTheBus /\ (exposed = {} => Unexposed)
      /\ UNCHANGED <<ops, table, order, queue, current, task>>
  BY DEF CommandInv, operations
<1>2. poll.at # Absent /\ poll \in Polling
  BY <1>1 DEF Wired, OneOnTheBus, Polling, Rest
<1>3. busy = TRUE /\ \A m \in DOMAIN ops : task[m] # "wire"
  BY <1>1, <1>2 DEF OneOnTheBus
<1>4. CASE /\ poll.left = {} /\ poll' = Rest /\ busy' = FALSE
           /\ rx' = IF rx = <<>> THEN rx ELSE Tail(rx)
           /\ UNCHANGED <<line, executed, exposed>>
  <2>1. poll' \in Polling /\ poll'.at = Absent /\ poll'.left = {}
    BY <1>4 DEF Rest, Polling
  <2>2. rx' \in Seq(Reply)
    BY <1>1, <1>4, ReplyFacts DEF Wired
  <2>3. line' \in Seq(Request) /\ Len(line') <= MaxLine /\ exposed' \subseteq Exposure
    BY <1>1, <1>4 DEF Wired, Recorded
  <2>4. ASSUME exposed' = {}
        PROVE  Len(line') <= 1 /\ \A k \in DOMAIN line' : OnTheLine(line[k])'
    <3>1. Unexposed
      BY <1>1, <1>4, <2>4
    <3> QED
      BY <1>1, <1>4, <3>1 DEF Unexposed, OwnBus, OnTheLine, FrameOf, Deferred
  <2> QED
    BY <1>1, <1>3, <1>4, <2>1, <2>2, <2>3, <2>4, PollLeaves
<1>5. CASE /\ \E r \in poll.left : /\ poll' = [at |-> r, left |-> poll.left \ {r}]
                                   /\ Sends(0, PollFrame(r))
           /\ UNCHANGED busy
  <2> PICK r \in poll.left : /\ poll' = [at |-> r, left |-> poll.left \ {r}]
                             /\ Sends(0, PollFrame(r))
    BY <1>5
  <2>1. r \in Polled /\ poll.left \ {r} \in SUBSET Polled
    BY <1>2 DEF Polling
  <2> QED
    BY <1>1, <1>3, <1>5, <2>1, PollAsks
<1> QED
  BY <1>4, <1>5 DEF PollGoesOn

LEMMA PollReplyKeeps ==
  ASSUME CommandInv, PollReply
  PROVE  CommandInv'
<1>1. /\ Recorded /\ Wired /\ OneOnTheBus /\ poll # Rest /\ rx # <<>>
      /\ reading' = IF Fits(Head(rx), PollFrame(poll.at))
                    THEN [reading EXCEPT ![poll.at] = Head(rx).reg] ELSE reading
      /\ PollGoesOn /\ UNCHANGED <<operations, task>>
  BY DEF CommandInv, PollReply
<1>2. poll.at \in Polled
  BY <1>1 DEF Wired, OneOnTheBus, Polling, Rest
<1> PICK r \in Polled : r = poll.at
  BY <1>2
<1>3. PollFrame(r) \in Frame /\ PollFrame(r).reg = r /\ PollFrame(r).kind = "read" /\ r # Absent
  BY CommandFacts
<1>4. Fits(Head(rx), PollFrame(r)) => Head(rx).reg \in Register
  <2>1. Head(rx) \in Reply /\ Garbled.kind = Absent
    BY <1>1, ReplyFacts, CommandFacts
  <2> QED
    BY <1>3, <2>1 DEF Fits, Reply, Frame, Absent
<1>5. reading' \in [Polled -> Register \cup {"zero"}]
  BY <1>1, <1>4 DEF Wired
<1>6. ASSUME Unexposed PROVE OwnReadings'
  <2>1. Belongs(0, PollFrame(r))
    BY <1>3, <1>6 DEF Unexposed, OwnBus
  <2>2. Fits(Head(rx), PollFrame(r)) => Head(rx).reg = r
    BY <1>1, <1>3, <2>1, FittingReply
  <2> QED
    BY <1>1, <1>6, <2>2 DEF Unexposed, OwnReadings, Wired
<1> QED
  BY <1>1, <1>5, <1>6, PollGoesOnKeeps

LEMMA PollTimeoutKeeps ==
  ASSUME CommandInv, PollTimeout
  PROVE  CommandInv'
<1>1. /\ Wired /\ poll # Rest /\ reading' = [reading EXCEPT ![poll.at] = "zero"]
      /\ PollGoesOn /\ UNCHANGED <<operations, task>>
  BY DEF CommandInv, PollTimeout
<1>2. reading' \in [Polled -> Register \cup {"zero"}]
  BY <1>1 DEF Wired
<1>3. Unexposed => OwnReadings'
  BY <1>1 DEF Wired, Unexposed, OwnReadings
<1> QED
  BY <1>1, <1>2, <1>3, PollGoesOnKeeps

\* What the slave does to a request that has the bus to itself.
LEMMA BelongsAnswered ==
  ASSUME Recorded, Wired, line # <<>>, Len(line) <= 1, NEW by, NEW frame, Belongs(by, frame),
         NEW done \in BOOLEAN, line' = Tail(line),
         executed' = IF done /\ Head(line).by # 0 /\ Head(line).frame.kind = "write"
                     THEN Append(executed, Head(line).by) ELSE executed,
         rx' \in {rx, Append(rx, IF done THEN Head(line).frame ELSE Garbled)}
  PROVE  Belongs(by, frame)'
<1> DEFINE S == Request
<1> DEFINE x == IF done THEN Head(line).frame ELSE Garbled
<1>1. line \in Seq(S)
  BY DEF Wired
<1> HIDE DEF S
<1>2. /\ Len(line) \in Nat /\ Head(line) \in S /\ Head(line) = line[1] /\ 1 \in DOMAIN line
      /\ line' \in Seq(S) /\ Len(line') = 0
  <2>1. /\ Len(line) \in Nat /\ Len(line) >= 1 /\ Head(line) \in S /\ Head(line) = line[1]
        /\ 1 \in DOMAIN line /\ Tail(line) \in Seq(S) /\ Len(Tail(line)) = Len(line) - 1
    BY <1>1, TailFacts
  <2> QED
    BY <2>1
<1>3. line' = <<>>
  BY <1>2, EmptySeq
<1>4. /\ Head(line) = [by |-> by, frame |-> frame] /\ rx = <<>> /\ Head(line) \in Request
      /\ Head(line).by = by /\ Head(line).frame = frame
  BY <1>2 DEF Belongs, S
<1>5. x \in Reply /\ rx \in Seq(Reply) /\ DOMAIN rx = {}
  BY <1>4 DEF Request, Reply, Wired
<1>6. ASSUME NEW k \in DOMAIN rx' PROVE rx'[k] = x
  <2> DEFINE R == Reply
  <2>1. x \in R /\ rx \in Seq(R) /\ rx' = Append(rx, x)
    BY <1>5, <1>6
  <2> HIDE DEF R, x
  <2> QED
    BY <1>5, <1>6, <2>1, AppendFacts
<1>7. ASSUME done, by # 0, frame.kind = "write"
      PROVE  Happened(by)'
  <2>1. by \in DOMAIN ops
    BY <1>4, <1>7, RecordedFacts DEF Request
  <2>2. executed' = Append(executed, by)
    BY <1>4, <1>7
  <2> PICK n \in DOMAIN ops : n = by
    BY <2>1
  <2> QED
    BY <2>2, EffectNoted
<1>8. \A k \in DOMAIN rx' :
        \/ rx'[k] = Garbled
        \/ rx'[k] = frame /\ ((by # 0 /\ frame.kind = "write") => Happened(by)')
  BY <1>4, <1>6, <1>7
<1>9. DOMAIN line' = {}
  BY <1>3
<1> QED
  BY <1>3, <1>8, <1>9 DEF Belongs, Happened

LEMMA SlaveAnswersKeeps ==
  ASSUME CommandInv, SlaveAnswers
  PROVE  CommandInv'
<1>1. /\ Recorded /\ Wired /\ Turns /\ OneOnTheBus /\ (exposed = {} => Unexposed)
      /\ line # <<>> /\ line' = Tail(line)
      /\ UNCHANGED <<ops, table, order, queue, current, task, poll, busy, reading, exposed>>
  BY DEF CommandInv, SlaveAnswers, operations, driver
<1>2. PICK done \in BOOLEAN :
        /\ executed' = IF done /\ Head(line).by # 0 /\ Head(line).frame.kind = "write"
                       THEN Append(executed, Head(line).by) ELSE executed
        /\ rx' \in {rx, Append(rx, IF done THEN Head(line).frame ELSE Garbled)}
  BY DEF SlaveAnswers
<1>3. /\ Head(line) \in Request /\ Head(line) = line[1] /\ 1 \in DOMAIN line
      /\ line' \in Seq(Request) /\ Len(line') = Len(line) - 1 /\ Len(line) \in Nat
  <2> DEFINE S == Request
  <2>1. line \in Seq(S)
    BY <1>1 DEF Wired
  <2> HIDE DEF S
  <2>2. /\ Head(line) \in S /\ Head(line) = line[1] /\ 1 \in DOMAIN line
        /\ line' \in Seq(S) /\ Len(line') = Len(line) - 1 /\ Len(line) \in Nat
    BY <1>1, <2>1, TailFacts
  <2> QED
    BY <2>2 DEF S
<1> PICK by \in 0 .. Len(ops) : by = Head(line).by
  BY <1>3 DEF Request
<1>4. by # 0 => by \in DOMAIN ops
  BY <1>1, RecordedFacts
<1>5. executed' = executed \/ (by # 0 /\ executed' = Append(executed, by))
  BY <1>2
<1>6. executed' \in Seq(1 .. Len(ops))
  BY <1>1, <1>4, <1>5, EffectNoted DEF Recorded
<1>7. rx' \in Seq(Reply)
  <2> DEFINE R == Reply
  <2> DEFINE x == IF done THEN Head(line).frame ELSE Garbled
  <2>1. x \in R /\ rx \in Seq(R) /\ rx' \in {rx, Append(rx, x)}
    BY <1>1, <1>2, <1>3 DEF Request, Reply, Wired
  <2> HIDE DEF R, x
  <2>2. rx' \in Seq(R)
    BY <2>1, AppendFacts
  <2> QED
    BY <2>2 DEF R
<1>8. Recorded'
  BY <1>1, <1>6 DEF Recorded
<1>9. Wired'
  <2>1. Len(line') <= MaxLine
    BY <1>1, <1>3, CommandFacts DEF Wired
  <2> QED
    BY <1>1, <1>3, <1>7, <2>1 DEF Wired, Request
<1>10. Turns' /\ OneOnTheBus'
  BY <1>1 DEF Turns, OneOnTheBus, Deferred
<1>11. ASSUME exposed' = {} PROVE Unexposed'
  <2>1. Unexposed
    BY <1>1, <1>11
  <2>2. Statuses' /\ Entered' /\ OwnReadings'
    BY <1>1, <2>1 DEF Unexposed, Statuses, Entered, OwnReadings
  <2>3. \A m \in DOMAIN ops : FrameOf(m)' = FrameOf(m) /\ Deferred(m)' = Deferred(m)
    BY <1>1 DEF FrameOf, Deferred
  <2>4. ASSUME by # 0
        PROVE  /\ Deferred(by) /\ by <= current /\ task[by] \in {"wire", "done"}
               /\ \A k \in DOMAIN executed : Deferred(executed[k]) => executed[k] < by
    <3>1. /\ task[by] \in {"wire", "done"}
          /\ \A k \in DOMAIN executed : Deferred(executed[k]) => executed[k] < by
      BY <1>3, <2>1, <2>4 DEF Unexposed, OwnBus, OnTheLine
    <3> QED
      BY <1>1, <1>4, <2>4, <3>1, RecordedFacts DEF Turns, Absent
  <2>5. Effects' /\ \A m : Happened(m) => Happened(m)'
    <3>1. CASE executed' = executed
      BY <1>1, <2>1, <3>1 DEF Unexposed, Effects, Happened, Deferred
    <3>2. CASE by # 0 /\ executed' = Append(executed, by)
      <4> PICK n \in DOMAIN ops : n = by
        BY <1>4, <3>2
      <4>1. /\ Effects /\ n <= current' /\ executed' = Append(executed, n)
            /\ current <= current' /\ current' \in Nat
            /\ \A m \in DOMAIN ops : task[m] \in {"wire", "done"} => task'[m] \in {"wire", "done"}
            /\ task'[n] \in {"wire", "done"}
            /\ \A k \in DOMAIN executed : Deferred(executed[k]) = Deferred(n) => executed[k] < n
        BY <1>1, <2>1, <2>4, <3>2, RecordedFacts DEF Unexposed
      <4> QED
        BY <1>1, <2>3, <4>1, EffectKeeps
    <3> QED
      BY <1>5, <3>1, <3>2
  <2>6. OwnBus'
    <3>1. Len(line) <= 1
      BY <2>1 DEF Unexposed, OwnBus
    <3>2. Len(line') = 0 /\ line' = <<>>
      BY <1>3, <3>1, EmptySeq
    <3>3. Len(line') <= 1 /\ \A k \in DOMAIN line' : OnTheLine(line[k])'
      BY <3>2
    <3>4. ASSUME NEW m \in DOMAIN ops', task'[m] = "wire"
          PROVE  Belongs(m, FrameOf(m))'
      <4>1. m \in DOMAIN ops /\ FrameOf(m)' = FrameOf(m) /\ Belongs(m, FrameOf(m))
        BY <1>1, <2>1, <2>3, <3>4 DEF Unexposed, OwnBus
      <4> PICK frame \in {FrameOf(m)} : frame = FrameOf(m)
        OBVIOUS
      <4>2. Belongs(m, frame)'
        BY <1>1, <1>2, <3>1, <4>1, BelongsAnswered
      <4> QED
        BY <4>1, <4>2 DEF Belongs, Happened
    <3>5. ASSUME poll'.at # Absent
          PROVE  Belongs(0, PollFrame(poll.at))'
      <4>1. Belongs(0, PollFrame(poll.at))
        BY <1>1, <2>1, <3>5 DEF Unexposed, OwnBus
      <4> PICK frame \in {PollFrame(poll.at)} : frame = PollFrame(poll.at)
        OBVIOUS
      <4>2. Belongs(0, frame)'
        BY <1>1, <1>2, <3>1, <4>1, BelongsAnswered
      <4>3. PollFrame(poll.at)' = frame
        BY <1>1 DEF PollFrame
      <4> QED
        BY <4>2, <4>3 DEF Belongs, Happened
    <3> QED
      BY <3>3, <3>4, <3>5 DEF OwnBus
  <2>7. \A m \in DOMAIN ops' : TrueOutcome(m)'
    BY <1>1, <2>1, <2>3, <2>5 DEF Unexposed, TrueOutcome
  <2> QED
    BY <2>2, <2>5, <2>6, <2>7 DEF Unexposed
<1> QED
  BY <1>8, <1>9, <1>10, <1>11 DEF CommandInv

LEMMA CommandsBegin == CommandInit => CommandInv
<1> SUFFICES ASSUME CommandInit PROVE CommandInv
  OBVIOUS
<1>1. /\ ops = <<>> /\ order = <<>> /\ queue = <<>> /\ current = 0
      /\ table = [i \in 1 .. MaxCommands |-> 0]
      /\ task = [n \in 1 .. MaxCommands |-> Absent]
      /\ poll = Rest /\ busy = FALSE /\ reading = [r \in Polled |-> "zero"]
      /\ line = <<>> /\ rx = <<>> /\ executed = <<>> /\ exposed = {}
  BY DEF CommandInit
<1>2. /\ Len(ops) = 0 /\ Len(order) = 0 /\ Len(queue) = 0 /\ Len(line) = 0
      /\ DOMAIN ops = {} /\ DOMAIN queue = {} /\ DOMAIN line = {} /\ DOMAIN rx = {}
      /\ DOMAIN executed = {}
  BY <1>1
<1>3. Recorded
  BY <1>1, <1>2, CommandFacts DEF Recorded
<1>4. Wired
  BY <1>1, <1>2, CommandFacts DEF Wired, Rest, Polling
<1>5. Turns
  BY <1>1, <1>2 DEF Turns
<1>6. OneOnTheBus
  BY <1>1, <1>2 DEF OneOnTheBus, Rest
<1>7. Unexposed
  <2>1. Statuses /\ Entered /\ Effects
    BY <1>2 DEF Statuses, Entered, Effects
  <2>2. OwnBus
    BY <1>1, <1>2 DEF OwnBus, Rest
  <2>3. OwnReadings
    BY <1>1 DEF OwnReadings
  <2> QED
    BY <1>2, <2>1, <2>2, <2>3 DEF Unexposed
<1> QED
  BY <1>3, <1>4, <1>5, <1>6, <1>7 DEF CommandInv

THEOREM CommandInductive == CommandInv /\ [CommandNext]_commandVars => CommandInv'
<1> SUFFICES ASSUME CommandInv, [CommandNext]_commandVars PROVE CommandInv'
  OBVIOUS
<1>1. CASE \E c \in Command, id \in 1 .. MaxCommands : Submit(c, id)
  BY <1>1, SubmitKeeps
<1>2. CASE TakeDeferred
  BY <1>2, TakeDeferredKeeps
<1>3. CASE TakePlain
  BY <1>3, TakePlainKeeps
<1>4. CASE TimeOut
  BY <1>4, TimeOutKeeps
<1>5. CASE \E n \in DOMAIN ops : TaskSends(n) \/ TaskReply(n) \/ TaskTimeout(n)
  BY <1>5, TaskSendsKeeps, TaskReplyKeeps, TaskTimeoutKeeps
<1>6. CASE PollStarts \/ PollReply \/ PollTimeout
  BY <1>6, PollStartsKeeps, PollReplyKeeps, PollTimeoutKeeps
<1>7. CASE SlaveAnswers
  BY <1>7, SlaveAnswersKeeps
<1>8. CASE UNCHANGED commandVars
  <2>1. UNCHANGED <<ops, table, order, queue, current, task, poll, busy, reading, line, rx,
                    executed, exposed>>
    BY <1>8 DEF commandVars
  <2>2. Recorded' /\ Wired' /\ Turns' /\ OneOnTheBus'
    BY <2>1 DEF CommandInv, Recorded, Wired, Request, Turns, OneOnTheBus, Deferred
  <2>3. Unexposed => Unexposed'
    BY <2>1 DEF Unexposed, Statuses, Entered, Effects, OwnBus, OnTheLine, Belongs, Happened,
                OwnReadings, TrueOutcome, Deferred, FrameOf, PollFrame
  <2> QED
    BY <2>1, <2>2, <2>3 DEF CommandInv
<1> QED
  BY <1>1, <1>2, <1>3, <1>4, <1>5, <1>6, <1>7, <1>8 DEF CommandNext

\* A response is booked on the operation it answers.
LEMMA OwnAddressee ==
  ASSUME CommandInv, exposed = {}, NEW n \in DOMAIN ops, task[n] # Absent, ~IsLate(n)
  PROVE  Addressee(n) = n
<1>1. ops[n].status \in Unfinished
  BY RecordedFacts DEF CommandInv, IsLate, Unfinished, Final
<1>2. table[ops[n].id] = n
  BY <1>1 DEF CommandInv, Unexposed, Entered
<1>3. Deferred(n) /\ n # 0
  BY RecordedFacts DEF CommandInv, Turns
<1> QED
  BY <1>2, <1>3 DEF Addressee, Deferred

\* Whoever has read an outcome has read the last of it.
LEMMA FinalStep ==
  ASSUME CommandInv, [CommandNext]_commandVars, exposed' = {}, NEW n \in DOMAIN ops,
         ops[n].status \in Final
  PROVE  ops'[n] = ops[n]
<1>1. Recorded /\ Turns /\ DOMAIN ops = 1 .. Len(ops) /\ Len(ops) \in Nat /\ ops \in Seq(Operation)
  BY RecordedFacts DEF CommandInv, Recorded
<1>2. CASE \E c \in Command, id \in 1 .. MaxCommands : Submit(c, id)
  <2> PICK c \in Command, id \in 1 .. MaxCommands : Submit(c, id)
    BY <1>2
  <2> DEFINE r == [id |-> id, command |-> c, status |-> "queued", answer |-> Absent]
  <2>1. r \in Operation /\ ops' = Append(ops, r)
    BY DEF Submit, Operation, Unfinished
  <2> HIDE DEF r
  <2> QED
    BY <1>1, <2>1, AppendProperties
<1>3. CASE TakeDeferred \/ TakePlain
  <2>1. /\ queue # <<>> /\ exposed = {}
        /\ \E status \in Unfinished \cup Final : ops' = Ended(Head(queue), status)
    BY <1>3 DEF TakeDeferred, TakePlain, Unfinished, Final
  <2>2. Head(queue) \in DOMAIN ops /\ ops[Head(queue)].status = "queued"
    BY <1>1, <2>1, HeadFacts DEF CommandInv, Unexposed, Statuses
  <2>3. Rewritten(ops', Head(queue))
    BY <1>1, <2>1, <2>2, EndedFacts
  <2> QED
    BY <2>2, <2>3 DEF Rewritten, Final
<1>4. CASE TimeOut
  <2>1. /\ current \in DOMAIN ops /\ ops[current].status = "processing"
        /\ ops' = Ended(current, "failed")
    BY <1>1, <1>4, RecordedFacts DEF TimeOut, GivenUp
  <2>2. Rewritten(ops', current)
    BY <1>1, <2>1, EndedFacts DEF Final
  <2> QED
    BY <2>1, <2>2 DEF Rewritten, Final
<1>5. CASE \E m \in DOMAIN ops : TaskReply(m) \/ TaskTimeout(m)
  <2> PICK m \in DOMAIN ops : TaskReply(m) \/ TaskTimeout(m)
    BY <1>5
  <2>1. /\ task[m] = "wire" /\ exposed = {} /\ ~IsLate(m)
        /\ \E ok \in BOOLEAN, answer \in Register \cup {Absent} : ops' = Booked(m, ok, answer)
    <3>1. CASE TaskReply(m)
      <4>1. Head(rx) \in Reply /\ Fits(Head(rx), FrameOf(m)) \in BOOLEAN
        BY <3>1, ReplyFacts DEF CommandInv, TaskReply, Fits
      <4>2. Head(rx).reg \in Register \cup {Absent}
        BY <4>1, CommandFacts
      <4>3. /\ (IF Fits(Head(rx), FrameOf(m)) THEN Head(rx).reg ELSE Absent)
                  \in Register \cup {Absent}
            /\ ops' = Booked(m, Fits(Head(rx), FrameOf(m)),
                             IF Fits(Head(rx), FrameOf(m)) THEN Head(rx).reg ELSE Absent)
        BY <3>1, <4>2 DEF TaskReply
      <4>4. task[m] = "wire" /\ exposed = {} /\ ~IsLate(m)
        BY <3>1 DEF TaskReply, Expose
      <4> QED
        BY <4>1, <4>3, <4>4
    <3>2. CASE TaskTimeout(m)
      BY <3>2 DEF TaskTimeout, Expose
    <3> QED
      BY <3>1, <3>2
  <2>2. Addressee(m) = m
    BY <2>1, OwnAddressee DEF Absent
  <2>3. Rewritten(ops', m)
    BY <1>1, <2>1, <2>2, BookedFacts
  <2> QED
    BY <2>1, <2>3 DEF Rewritten, IsLate
<1>6. CASE UNCHANGED ops
  BY <1>6
<1>7. \/ \E c \in Command, id \in 1 .. MaxCommands : Submit(c, id)
      \/ TakeDeferred \/ TakePlain \/ TimeOut
      \/ \E m \in DOMAIN ops : TaskReply(m) \/ TaskTimeout(m)
      \/ UNCHANGED ops
  BY DEF CommandNext, commandVars, TaskSends, PollStarts, PollReply, PollTimeout, SlaveAnswers,
         operations
<1> QED
  BY <1>2, <1>3, <1>4, <1>5, <1>6, <1>7

\* What the invariant says of the outcomes, as long as nothing uncovered has happened.
LEMMA InvIsTrue ==
  ASSUME Exposure \subseteq Excused, CommandInv
  PROVE  OutcomesAreTrue
<1>1. Recorded /\ Wired /\ OneOnTheBus
  BY DEF CommandInv
<1>2. Promised => Unexposed
  BY DEF Promised, CommandInv, Recorded
<1>3. CommandTypeOK
  <2>1. /\ \A n \in DOMAIN ops : ops[n] \in Operation
        /\ \A k \in DOMAIN queue : queue[k] \in DOMAIN ops
        /\ \A k \in DOMAIN executed : executed[k] \in DOMAIN ops
    BY <1>1, RecordedFacts
  <2>2. \A k \in DOMAIN order : order[k] \in 1 .. MaxCommands
    BY <1>1, LenProperties, ElementOfSeq DEF Recorded
  <2>3. \A k \in DOMAIN line : line[k].by \in 0 .. Len(ops) /\ line[k].frame \in Frame
    <3> DEFINE S == Request
    <3>1. line \in Seq(S)
      BY <1>1 DEF Wired
    <3> HIDE DEF S
    <3>2. \A k \in DOMAIN line : line[k] \in S
      BY <3>1, LenProperties, ElementOfSeq
    <3> QED
      BY <3>2 DEF S, Request
  <2>4. \A k \in DOMAIN rx : rx[k] \in Frame \cup {Garbled}
    BY <1>1, LenProperties, ElementOfSeq DEF Wired, Reply
  <2>5. poll.at \in Polled \cup {Absent} /\ poll.left \subseteq Polled
    BY <1>1 DEF Wired, Polling
  <2> QED
    BY <1>1, <2>1, <2>2, <2>3, <2>4, <2>5 DEF CommandTypeOK, Recorded, Wired, OneOnTheBus, Operation
<1>4. CompletedIsExecuted
  BY <1>2 DEF CompletedIsExecuted, Unexposed, TrueOutcome, Happened
<1>5. ReadingIsOwn
  BY <1>2 DEF ReadingIsOwn, Unexposed, OwnReadings
<1>6. InOrder
  BY <1>2 DEF InOrder, Unexposed, Effects
<1>7. Pollable
  BY <1>2 DEF Pollable, Unexposed, Entered
<1> QED
  BY <1>3, <1>4, <1>5, <1>6, <1>7 DEF OutcomesAreTrue

\* An outcome is true, and whoever has read it has read the last of it: a completed
\* command has happened, a read has the value of the register it asked for, commands take
\* effect in the order of their submission, and an operation without an outcome can be
\* polled.  It is claimed up to the first exposure (README, Exposures), of any sort.
THEOREM OutcomesStandHolds ==
  ASSUME Exposure \subseteq Excused
  PROVE  CommandSpec => OutcomesStand
<1>1. CommandInit => CommandInv
  BY CommandsBegin
<1>2. CommandInv /\ [CommandNext]_commandVars => CommandInv'
  BY CommandInductive
<1>3. CommandInv /\ CommandInv' /\ [CommandNext]_commandVars
        => [OutcomesAreTrue' /\ OutcomeIsFinal]_commandVars
  <2> SUFFICES ASSUME CommandInv, CommandInv', [CommandNext]_commandVars
               PROVE  OutcomesAreTrue' /\ OutcomeIsFinal
    OBVIOUS
  <2>1. OutcomesAreTrue'
    BY InvIsTrue, PTL
  <2>2. Promised' => exposed' = {}
    BY DEF Promised, CommandInv, Recorded, Exposure
  <2>3. OutcomeIsFinal
    BY <2>2, FinalStep DEF OutcomeIsFinal
  <2> QED
    BY <2>1, <2>3
<1> QED
  BY <1>1, <1>2, <1>3, PTL DEF CommandSpec, OutcomesStand
=============================================================================
