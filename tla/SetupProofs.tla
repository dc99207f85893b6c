------------------------------ MODULE SetupProofs ------------------------------
(***************************************************************************)
(* Theorems about Setup for any number of handlers, every set of networks, *)
(* any number of forms, requests and losses; about AcVoltage for every     *)
(* factor, threshold and set of levels; about WhesEnergy for every set of  *)
(* powers, every period of the clock and any number of days; and about     *)
(* EmsDriver for every set of telegrams and every length of the queue, and *)
(* of a buffer that holds a telegram and its break.                        *)
(***************************************************************************)
EXTENDS Setup, AcVoltage, WhesEnergy, EmsDriver, SequenceTheorems, FiniteSetTheorems, TLAPS

Doings  == {"none", "configure", "install", "upload", "finished"} \cup Enrolment
Handler == [at : {"idle", "body", "joining", "answer", "handover", "download", "receiving",
                  "reboot"},
            kind : Doings, snap : Stored]
Errand  == [at : {"none", "waiting", "joining", "issuing"}, method : Doings,
            net : Net \cup {"none"}, number : 0 .. MaxConfigures]
Account == [configures : 0 .. MaxConfigures, requests : Nat, faults : Nat]

\* The handlers and the tasks have their types, too.
Typed ==
  /\ TypeOK
  /\ conn \in [Conn -> Handler] /\ task \in [Conn -> Errand] /\ spent \in Account

\* The pair is the one the settings speak of, or a whole one of the owner's that is as the
\* settings say.
Right ==
  \/ files = Certificate(store.mode, store.host)
  \/ \E kind \in Alike(store.mode) : files = Certificate(kind, 0)

\* The pair is the one the settings speak of, or a part of it was replaced by the owner, or it
\* is what a refused trust anchor left behind, which the selection of the self-signed
\* certificate replaces.
Matching ==
  \/ files = Certificate(store.mode, store.host)
  \/ files.cert.kind \in Supplied \/ files.key.kind \in Supplied
  \/ store.mode = "self_signed" /\ files.cert.kind = "acme"

\* What a handler does that awaits an application
Fetching == {"install", "upload"}

\* What holds until something happens that the code does not cover.
Working ==
  /\ store.host = store.number
  /\ store.provisioned => app
  /\ store.provisioned \/ key
  /\ HandedOver => station # Off
  /\ store # NoConfig => Matching
  /\ Selected => Right
  /\ \A c \in Conn : conn[c].at \in {"download", "receiving"} => conn[c].kind \in Fetching
  /\ \A c \in Conn : conn[c].at = "handover" => conn[c].kind = "configure"

\* The inductive invariant.
IInv == Typed /\ (exposed = {} => Working)

\* The actions of a handler and its task.
Acts(c) ==
  \/ Request(c) \/ Configures(c) \/ InstallsManual(c) \/ WritesFile(c) \/ Installs(c)
  \/ Uploads(c) \/ Proceeds(c) \/ Runs(c)

-----------------------------------------------------------------------------
LEMMA Values ==
  /\ NoConfig \in Stored /\ Idle \in Handler /\ NoTask \in Errand
  /\ Idle.at = "idle" /\ Idle.kind = "none" /\ NoConfig.number = 0
  /\ ~NoConfig.provisioned /\ NoConfig.host = 0
  /\ Off.state = "off"
  /\ Off \in [state : {"off", "joining", "joined"}, net : Net \cup {"none"}]
BY SetupAssumption
DEF NoConfig, Stored, Idle, Handler, Doings, Enrolment, NoTask, Errand, Off

\* A form makes a configuration of its own.
LEMMA Formed ==
  ASSUME Typed, NEW n \in Net, spent.configures < MaxConfigures
  PROVE  /\ Configuration(n) \in Stored /\ Configuration(n) # NoConfig
         /\ Configuration(n).number = spent.configures + 1
         /\ Configuration(n).host = Configuration(n).number
         /\ Configuration(n).mode = "self_signed" /\ ~Configuration(n).provisioned
<1>1. spent.configures + 1 \in 0 .. MaxConfigures /\ spent.configures + 1 # 0
  BY SetupAssumption DEF Typed, Account
<1>2. Configuration(n) \in Stored
  BY <1>1 DEF Configuration, Stored
<1> QED
  BY <1>1, <1>2, Values DEF Configuration

\* The pairs that are made are of their types.
LEMMA PairsTyped ==
  ASSUME NEW k \in {"none", "self_signed", "manual"} \cup Enrolment, NEW h \in 0 .. MaxConfigures
  PROVE  Certificate(k, h) \in [cert : Halves, key : Halves]
BY DEF Certificate, Half, Halves

Places == {"idle", "body", "joining", "answer", "handover", "download", "receiving", "reboot"}

\* What a handler is changed to, field by field.
LEMMA Turns ==
  ASSUME NEW h \in Handler, NEW a \in Places, NEW k \in Doings, NEW s \in Stored
  PROVE  /\ h.kind \in Doings /\ h.snap \in Stored /\ h.at \in Places
         /\ LET w == [h EXCEPT !.at = a]
            IN  w \in Handler /\ w.at = a /\ w.kind = h.kind /\ w.snap = h.snap
         /\ LET w == [h EXCEPT !.at = a, !.kind = k]
            IN  w \in Handler /\ w.at = a /\ w.kind = k /\ w.snap = h.snap
         /\ LET w == [h EXCEPT !.at = a, !.snap = s]
            IN  w \in Handler /\ w.at = a /\ w.kind = h.kind /\ w.snap = s
         /\ LET w == [at |-> a, kind |-> k, snap |-> s]
            IN  w \in Handler /\ w.at = a /\ w.kind = k /\ w.snap = s
<1>1. h.kind \in Doings /\ h.snap \in Stored /\ h.at \in Places
  BY DEF Handler, Places
<1>2. LET w == [h EXCEPT !.at = a]
      IN  w \in Handler /\ w.at = a /\ w.kind = h.kind /\ w.snap = h.snap
  BY DEF Handler, Places
<1>3. LET w == [h EXCEPT !.at = a, !.kind = k]
      IN  w \in Handler /\ w.at = a /\ w.kind = k /\ w.snap = h.snap
  BY DEF Handler, Places
<1>4. LET w == [h EXCEPT !.at = a, !.snap = s]
      IN  w \in Handler /\ w.at = a /\ w.kind = h.kind /\ w.snap = s
  BY DEF Handler, Places
<1>5. LET w == [at |-> a, kind |-> k, snap |-> s]
      IN  w \in Handler /\ w.at = a /\ w.kind = k /\ w.snap = s
  BY DEF Handler, Places
<1> QED
  BY <1>1, <1>2, <1>3, <1>4, <1>5

\* The same of a task.
LEMMA Tasks ==
  ASSUME NEW t \in Errand, NEW a \in {"waiting", "joining", "issuing"}
  PROVE  /\ t.method \in Doings /\ t.net \in Net \cup {"none"}
         /\ t.number \in 0 .. MaxConfigures
         /\ LET w == [t EXCEPT !.at = a]
            IN  w \in Errand /\ w.at = a /\ w.method = t.method /\ w.number = t.number
BY DEF Errand

Modes == {"none", "self_signed", "manual"} \cup Enrolment

\* The same of the configuration.
LEMMA Settled ==
  ASSUME NEW s \in Stored, NEW m \in Modes, NEW h \in 0 .. MaxConfigures
  PROVE  /\ s.number \in 0 .. MaxConfigures /\ s.host \in 0 .. MaxConfigures
         /\ s.net \in Net \cup {"none"} /\ s.provisioned \in BOOLEAN /\ s.mode \in Modes
         /\ LET w == WithMode(s, m, h)
            IN  /\ w \in Stored /\ w.number = s.number /\ w.mode = m /\ w.host = h
                /\ w.provisioned = s.provisioned
         /\ LET w == [s EXCEPT !.provisioned = TRUE]
            IN  /\ w \in Stored /\ w.number = s.number /\ w.mode = s.mode
                /\ w.host = s.host /\ w.provisioned
<1>1. /\ s.number \in 0 .. MaxConfigures /\ s.host \in 0 .. MaxConfigures
      /\ s.net \in Net \cup {"none"} /\ s.provisioned \in BOOLEAN /\ s.mode \in Modes
  BY DEF Stored, Modes
<1>2. LET w == WithMode(s, m, h)
      IN  /\ w \in Stored /\ w.number = s.number /\ w.mode = m /\ w.host = h
          /\ w.provisioned = s.provisioned
  BY DEF Stored, WithMode, Modes
<1>3. LET w == [s EXCEPT !.provisioned = TRUE]
      IN  /\ w \in Stored /\ w.number = s.number /\ w.mode = s.mode
          /\ w.host = s.host /\ w.provisioned
  BY DEF Stored
<1> QED
  BY <1>1, <1>2, <1>3

\* One handler changes.
LEMMA Changed ==
  ASSUME Typed, NEW c \in Conn, NEW h \in Handler, conn' = [conn EXCEPT ![c] = h]
  PROVE  /\ conn' \in [Conn -> Handler] /\ conn'[c] = h
         /\ \A d \in Conn : d # c => conn'[d] = conn[d]
BY DEF Typed

\* A handler changes, or none, or, with a restart, all of them.
Turned(c) ==
  \/ UNCHANGED conn
  \/ conn' = [d \in Conn |-> Idle]
  \/ \E h \in Handler : conn' = [conn EXCEPT ![c] = h]

LEMMA TurnedStep ==
  ASSUME Typed, NEW c \in Conn, Acts(c)
  PROVE  Turned(c)
<1>1. CASE Request(c)
  <3>1. conn[c] \in Handler
    BY DEF Typed
  <3>2. PICK m \in Enrolment : conn' = [conn EXCEPT ![c] = [Idle EXCEPT !.at = "body", !.kind = m]]
    BY <1>1 DEF Request
  <3>3. [Idle EXCEPT !.at = "body", !.kind = m] \in Handler
    BY <3>1, <3>2, Values DEF Handler, Doings, Enrolment
  <3> QED
    BY <1>1, <3>2, <3>3 DEF Request, Turned
<1>2. CASE Configures(c)
  <3>1. conn[c] \in Handler
    BY DEF Typed
  <3>2. [conn[c] EXCEPT !.at = "answer", !.kind = "configure"] \in Handler
    BY <3>1, Values DEF Handler, Doings, Enrolment
  <3>3. [conn[c] EXCEPT !.at = "joining", !.kind = "configure"] \in Handler
    BY <3>1, <3>2, Values DEF Handler, Doings, Enrolment
  <3> QED
    BY <1>2, <3>2, <3>3 DEF Configures, Turned
<1>3. CASE InstallsManual(c)
  BY <1>3 DEF InstallsManual, Turned
<1>4. CASE WritesFile(c)
  BY <1>4 DEF WritesFile, Turned
<1>5. CASE Installs(c)
  <3>1. conn[c] \in Handler
    BY DEF Typed
  <3>2. [conn[c] EXCEPT !.at = "answer", !.kind = "finished"] \in Handler
    BY <3>1, Values DEF Handler, Doings, Enrolment, Typed, TypeOK
  <3>3. [at |-> "joining", kind |-> "install", snap |-> store] \in Handler
    BY <3>1, Values DEF Handler, Doings, Enrolment, Typed, TypeOK
  <3> QED
    BY <1>5, <3>2, <3>3 DEF Installs, Turned, Provisions, Typed, TypeOK
<1>6. CASE Uploads(c)
  <3>1. conn[c] \in Handler
    BY DEF Typed
  <3>2. [at |-> "receiving", kind |-> "upload", snap |-> store] \in Handler
    BY <3>1, Values DEF Handler, Doings, Enrolment, Typed, TypeOK
  <3> QED
    BY <1>6, <3>2 DEF Uploads, Turned
<1>7. CASE Proceeds(c)
  <2>1. CASE BodyFails(c)
    BY <2>1, Values DEF BodyFails, Closes, Turned
  <2>2. CASE AsksEnrolment(c)
    <3>1. conn[c] \in Handler
      BY DEF Typed
    <3>2. [conn[c] EXCEPT !.at = "answer", !.snap = store] \in Handler
      BY <3>1, Values DEF Handler, Doings, Enrolment, Typed, TypeOK
    <3> QED
      BY <2>2, <3>2 DEF AsksEnrolment, Turned
  <2>3. CASE Joined(c)
    <3>1. conn[c] \in Handler
      BY DEF Typed
    <3>2. [conn[c] EXCEPT !.at = "answer"] \in Handler
      BY <3>1, Values DEF Handler, Doings, Enrolment
    <3>3. [conn[c] EXCEPT !.at = "download"] \in Handler
      BY <3>1, <3>2, Values DEF Handler, Doings, Enrolment
    <3> QED
      BY <2>3, <3>2, <3>3 DEF Joined, Turned, Becomes
  <2>4. CASE NotJoined(c)
    BY <2>4, Values DEF NotJoined, Closes, Turned
  <2>5. CASE HandsOver(c)
    BY <2>5, Values DEF HandsOver, Closes, Turned
  <2>6. CASE Downloads(c)
    <3>1. conn[c] \in Handler
      BY DEF Typed
    <3>2. [conn[c] EXCEPT !.at = "receiving"] \in Handler
      BY <3>1, Values DEF Handler, Doings, Enrolment
    <3> QED
      BY <2>6, <3>2 DEF Downloads, Turned, Becomes
  <2>7. CASE Received(c)
    <3>1. conn[c] \in Handler
      BY DEF Typed
    <3>2. [conn[c] EXCEPT !.at = "answer", !.kind = "finished"] \in Handler
      BY <3>1, Values DEF Handler, Doings, Enrolment
    <3> QED
      BY <2>7, <3>2 DEF Received, Turned, Provisions
  <2>8. CASE NotReceived(c)
    BY <2>8, Values DEF NotReceived, Closes, Turned
  <2>9. CASE AnswerSent(c)
      <3>1. conn[c] \in Handler
        BY DEF Typed
      <3>2. [conn[c] EXCEPT !.at = "handover"] \in Handler
        BY <3>1, Values DEF Handler, Doings, Enrolment
      <3>3. [conn[c] EXCEPT !.at = "reboot"] \in Handler
        BY <3>1, Values DEF Handler, Doings, Enrolment
      <3>4. \/ Becomes(c, "handover")
            \/ Becomes(c, "reboot")
            \/ Closes(c)
        BY <2>9 DEF AnswerSent
      <3> QED
        BY <3>2, <3>3, <3>4, Values DEF Turned, Becomes, Closes
  <2>10. CASE AnswerFails(c)
    BY <2>10, Values DEF AnswerFails, Closes, Turned
  <2>11. CASE Restarts(c)
    BY <2>11 DEF Restarts, StartsAgain, Turned
  <2> QED
    BY <1>7, <2>1, <2>2, <2>3, <2>4, <2>5, <2>6, <2>7, <2>8, <2>9, <2>10, <2>11 DEF Proceeds
<1>8. CASE Runs(c)
  <2>1. CASE TaskStarts(c)
    BY <2>1 DEF TaskStarts, Turned
  <2>2. CASE TaskJoined(c)
    BY <2>2 DEF TaskJoined, Turned
  <2>3. CASE TaskFails(c)
    BY <2>3 DEF TaskFails, Turned
  <2>4. CASE Enrolled(c)
    BY <2>4 DEF Enrolled, Turned
  <2>5. CASE Halfway(c)
    BY <2>5 DEF Halfway, Turned
  <2> QED
    BY <1>8, <2>1, <2>2, <2>3, <2>4, <2>5 DEF Runs
<1> QED
  BY <1>1, <1>2, <1>3, <1>4, <1>5, <1>6, <1>7, <1>8 DEF Acts

LEMMA HandlersTyped ==
  ASSUME Typed, NEW c \in Conn, Acts(c)
  PROVE  conn' \in [Conn -> Handler]
BY TurnedStep, Changed, Values DEF Turned, Typed

LEMMA TasksTyped ==
  ASSUME Typed, NEW c \in Conn, Acts(c)
  PROVE  task' \in [Conn -> Errand]
<1> USE DEF Typed
<1>1. CASE Request(c)
  BY <1>1 DEF Request
<1>2. CASE Configures(c)
  BY <1>2 DEF Configures
<1>3. CASE InstallsManual(c)
  BY <1>3 DEF InstallsManual
<1>4. CASE WritesFile(c)
  BY <1>4 DEF WritesFile
<1>5. CASE Installs(c)
  BY <1>5 DEF Installs
<1>6. CASE Uploads(c)
  BY <1>6 DEF Uploads
<1>7. CASE Proceeds(c)
  <2>1. CASE BodyFails(c)
    BY <2>1 DEF BodyFails
  <2>2. CASE AsksEnrolment(c)
    BY <2>2 DEF AsksEnrolment
  <2>3. CASE Joined(c)
    BY <2>3 DEF Joined
  <2>4. CASE NotJoined(c)
    BY <2>4 DEF NotJoined
  <2>5. CASE HandsOver(c)
    BY <2>5 DEF HandsOver
  <2>6. CASE Downloads(c)
    BY <2>6 DEF Downloads
  <2>7. CASE Received(c)
    BY <2>7 DEF Received
  <2>8. CASE NotReceived(c)
    BY <2>8 DEF NotReceived
  <2>9. CASE AnswerSent(c)
      <3>1. conn[c] \in Handler
        OBVIOUS
      <3>2. [at |-> "waiting", method |-> conn[c].kind, net |-> conn[c].snap.net,
             number |-> conn[c].snap.host] \in Errand
        BY <3>1 DEF Errand, Handler, Stored
      <3> QED
        BY <2>9, <3>2 DEF AnswerSent
  <2>10. CASE AnswerFails(c)
    BY <2>10 DEF AnswerFails
  <2>11. CASE Restarts(c)
    BY <2>11, Values DEF Restarts, StartsAgain
  <2> QED
    BY <1>7, <2>1, <2>2, <2>3, <2>4, <2>5, <2>6, <2>7, <2>8, <2>9, <2>10, <2>11 DEF Proceeds
<1>8. CASE Runs(c)
  <2>1. CASE TaskStarts(c)
      <3>1. [task[c] EXCEPT !.at = "joining"] \in Errand
        BY Tasks
      <3> QED
        BY <2>1, <3>1 DEF TaskStarts
  <2>2. CASE TaskJoined(c)
      <3>1. [task[c] EXCEPT !.at = "issuing"] \in Errand
        BY Tasks
      <3> QED
        BY <2>2, <3>1 DEF TaskJoined
  <2>3. CASE TaskFails(c)
    BY <2>3, Values DEF TaskFails, EndsInError
  <2>4. CASE Enrolled(c)
    BY <2>4, Values DEF Enrolled
  <2>5. CASE Halfway(c)
    BY <2>5, Values DEF Halfway, EndsInError
  <2> QED
    BY <1>8, <2>1, <2>2, <2>3, <2>4, <2>5 DEF Runs
<1> QED
  BY <1>1, <1>2, <1>3, <1>4, <1>5, <1>6, <1>7, <1>8 DEF Acts

LEMMA StoreTyped ==
  ASSUME Typed, NEW c \in Conn, Acts(c)
  PROVE  store' \in Stored
<1> USE DEF Typed, TypeOK
<1>1. CASE Request(c)
  BY <1>1 DEF Request
<1>2. CASE Configures(c)
  <2>1. PICK n \in Net :
          store' = Configuration(n) /\ files' = Certificate("self_signed", store'.host)
    BY <1>2 DEF Configures
  <2>2. Configuration(n) \in Stored
    BY <1>2, Formed DEF Configures
  <2> QED
    BY <2>1, <2>2
<1>3. CASE InstallsManual(c)
  <2>1. store.number \in 0 .. MaxConfigures /\ "manual" \in Modes
    BY DEF Stored, Modes
  <2>2. WithMode(store, "manual", store.number) \in Stored
    BY <2>1, Settled
  <2> QED
    BY <1>3, <2>2 DEF InstallsManual
<1>4. CASE WritesFile(c)
  BY <1>4 DEF WritesFile
<1>5. CASE Installs(c)
  <2>1. [store EXCEPT !.provisioned = TRUE] \in Stored
    BY DEF Stored
  <2> QED
    BY <1>5, <2>1 DEF Installs, Provisions
<1>6. CASE Uploads(c)
  BY <1>6 DEF Uploads
<1>7. CASE Proceeds(c)
  <2>1. CASE BodyFails(c)
    BY <2>1 DEF BodyFails
  <2>2. CASE AsksEnrolment(c)
    BY <2>2 DEF AsksEnrolment
  <2>3. CASE Joined(c)
    BY <2>3 DEF Joined
  <2>4. CASE NotJoined(c)
    BY <2>4 DEF NotJoined
  <2>5. CASE HandsOver(c)
    BY <2>5 DEF HandsOver
  <2>6. CASE Downloads(c)
    BY <2>6 DEF Downloads
  <2>7. CASE Received(c)
      <3>1. conn[c].snap \in Stored
        BY DEF Handler
      <3>2. [conn[c].snap EXCEPT !.provisioned = TRUE] \in Stored
        BY <3>1 DEF Stored
      <3> QED
        BY <2>7, <3>2 DEF Received, Provisions
  <2>8. CASE NotReceived(c)
    BY <2>8 DEF NotReceived
  <2>9. CASE AnswerSent(c)
    BY <2>9 DEF AnswerSent
  <2>10. CASE AnswerFails(c)
    BY <2>10 DEF AnswerFails
  <2>11. CASE Restarts(c)
    BY <2>11 DEF Restarts, StartsAgain
  <2> QED
    BY <1>7, <2>1, <2>2, <2>3, <2>4, <2>5, <2>6, <2>7, <2>8, <2>9, <2>10, <2>11 DEF Proceeds
<1>8. CASE Runs(c)
  <2>1. CASE TaskStarts(c)
    BY <2>1 DEF TaskStarts
  <2>2. CASE TaskJoined(c)
    BY <2>2 DEF TaskJoined
  <2>3. CASE TaskFails(c)
    BY <2>3 DEF TaskFails
  <2>4. CASE Enrolled(c)
      <3>1. task[c] \in Errand /\ task[c].method \in Enrolment
        BY <2>4 DEF Enrolled
      <3>2. task[c].number \in 0 .. MaxConfigures /\ task[c].method \in Modes
        BY <3>1 DEF Errand, Modes
      <3>3. WithMode(store, task[c].method, task[c].number) \in Stored
        BY <3>2, Settled
      <3> QED
        BY <2>4, <3>3 DEF Enrolled
  <2>5. CASE Halfway(c)
    BY <2>5 DEF Halfway
  <2> QED
    BY <1>8, <2>1, <2>2, <2>3, <2>4, <2>5 DEF Runs
<1> QED
  BY <1>1, <1>2, <1>3, <1>4, <1>5, <1>6, <1>7, <1>8 DEF Acts

LEMMA FilesTyped ==
  ASSUME Typed, NEW c \in Conn, Acts(c)
  PROVE  files' \in [cert : Halves, key : Halves]
<1> USE DEF Typed, TypeOK
<1>1. CASE Request(c)
  BY <1>1 DEF Request
<1>2. CASE Configures(c)
  <2>1. PICK n \in Net :
          store' = Configuration(n) /\ files' = Certificate("self_signed", store'.host)
    BY <1>2 DEF Configures
  <2>2. Configuration(n) \in Stored
    BY <1>2, Formed DEF Configures
  <2>3. store'.host \in 0 .. MaxConfigures
    BY <2>1, <2>2 DEF Stored
  <2> QED
    BY <2>1, <2>3, PairsTyped
<1>3. CASE InstallsManual(c)
  <2>1. store.number \in 0 .. MaxConfigures
    BY DEF Stored
  <2> QED
    BY <1>3, <2>1, PairsTyped DEF InstallsManual
<1>4. CASE WritesFile(c)
  <2>1. PICK kind \in Supplied : \/ files' = [files EXCEPT !.cert = Half(kind, 0)]
                                 \/ files' = [files EXCEPT !.key = Half(kind, 0)]
    BY <1>4 DEF WritesFile
  <2>2. Half(kind, 0) \in Halves
    BY DEF Half, Halves
  <2> QED
    BY <2>1, <2>2
<1>5. CASE Installs(c)
  <2>1. store.host \in 0 .. MaxConfigures
    BY DEF Stored
  <2>2. Prepared \in [cert : Halves, key : Halves]
    BY <2>1, PairsTyped DEF Prepared
  <2> QED
    BY <1>5, <2>2 DEF Installs
<1>6. CASE Uploads(c)
  BY <1>6 DEF Uploads
<1>7. CASE Proceeds(c)
  <2>1. CASE BodyFails(c)
    BY <2>1 DEF BodyFails
  <2>2. CASE AsksEnrolment(c)
    BY <2>2 DEF AsksEnrolment
  <2>3. CASE Joined(c)
    BY <2>3 DEF Joined
  <2>4. CASE NotJoined(c)
    BY <2>4 DEF NotJoined
  <2>5. CASE HandsOver(c)
    BY <2>5 DEF HandsOver
  <2>6. CASE Downloads(c)
    BY <2>6 DEF Downloads
  <2>7. CASE Received(c)
    BY <2>7 DEF Received
  <2>8. CASE NotReceived(c)
    BY <2>8 DEF NotReceived
  <2>9. CASE AnswerSent(c)
    BY <2>9 DEF AnswerSent
  <2>10. CASE AnswerFails(c)
    BY <2>10 DEF AnswerFails
  <2>11. CASE Restarts(c)
    BY <2>11 DEF Restarts, StartsAgain
  <2> QED
    BY <1>7, <2>1, <2>2, <2>3, <2>4, <2>5, <2>6, <2>7, <2>8, <2>9, <2>10, <2>11 DEF Proceeds
<1>8. CASE Runs(c)
  <2>1. CASE TaskStarts(c)
    BY <2>1 DEF TaskStarts
  <2>2. CASE TaskJoined(c)
    BY <2>2 DEF TaskJoined
  <2>3. CASE TaskFails(c)
    BY <2>3 DEF TaskFails
  <2>4. CASE Enrolled(c)
      <3>1. task[c] \in Errand /\ task[c].method \in Enrolment
        BY <2>4 DEF Enrolled, Enrolment
      <3>2. task[c].number \in 0 .. MaxConfigures
        BY <3>1 DEF Errand
      <3>3. Certificate(task[c].method, task[c].number) \in [cert : Halves, key : Halves]
        BY <3>1, <3>2, PairsTyped
      <3> QED
        BY <2>4, <3>3 DEF Enrolled
  <2>5. CASE Halfway(c)
      <3>1. task[c] \in Errand /\ task[c].method \in Enrolment
        BY <2>5 DEF Halfway, Enrolment
      <3>2. task[c].number \in 0 .. MaxConfigures
        BY <3>1 DEF Errand
      <3>3. Certificate(task[c].method, task[c].number) \in [cert : Halves, key : Halves]
        BY <3>1, <3>2, PairsTyped
      <3> QED
        BY <2>5, <3>3 DEF Halfway
  <2> QED
    BY <1>8, <2>1, <2>2, <2>3, <2>4, <2>5 DEF Runs
<1> QED
  BY <1>1, <1>2, <1>3, <1>4, <1>5, <1>6, <1>7, <1>8 DEF Acts

LEMMA SpentTyped ==
  ASSUME Typed, NEW c \in Conn, Acts(c)
  PROVE  spent' \in Account
<1> USE DEF Typed, Account
<1>1. CASE Request(c)
  BY <1>1, SetupAssumption DEF Request, Handles, Requested
<1>2. CASE Configures(c)
  <2>1. Requested \in Account /\ Requested.configures = spent.configures
    BY DEF Requested
  <2>2. /\ spent' = [Requested EXCEPT !.configures = Requested.configures + 1]
        /\ spent.configures < MaxConfigures
    BY <1>2 DEF Configures
  <2>3. spent.configures + 1 \in 0 .. MaxConfigures
    BY <2>2, SetupAssumption
  <2> QED
    BY <2>1, <2>2, <2>3
<1>3. CASE InstallsManual(c)
  BY <1>3, SetupAssumption DEF InstallsManual, Handles, Requested
<1>4. CASE WritesFile(c)
  BY <1>4, SetupAssumption DEF WritesFile, Handles, Requested
<1>5. CASE Installs(c)
  BY <1>5, SetupAssumption DEF Installs, Handles, Requested
<1>6. CASE Uploads(c)
  BY <1>6, SetupAssumption DEF Uploads, Handles, Requested
<1>7. CASE Proceeds(c)
  <2>1. CASE BodyFails(c)
    BY <2>1 DEF BodyFails
  <2>2. CASE AsksEnrolment(c)
    BY <2>2 DEF AsksEnrolment
  <2>3. CASE Joined(c)
    BY <2>3 DEF Joined
  <2>4. CASE NotJoined(c)
    BY <2>4 DEF NotJoined
  <2>5. CASE HandsOver(c)
    BY <2>5 DEF HandsOver
  <2>6. CASE Downloads(c)
    BY <2>6 DEF Downloads
  <2>7. CASE Received(c)
    BY <2>7 DEF Received
  <2>8. CASE NotReceived(c)
    BY <2>8 DEF NotReceived
  <2>9. CASE AnswerSent(c)
    BY <2>9 DEF AnswerSent
  <2>10. CASE AnswerFails(c)
    BY <2>10 DEF AnswerFails
  <2>11. CASE Restarts(c)
    BY <2>11 DEF Restarts, StartsAgain
  <2> QED
    BY <1>7, <2>1, <2>2, <2>3, <2>4, <2>5, <2>6, <2>7, <2>8, <2>9, <2>10, <2>11 DEF Proceeds
<1>8. CASE Runs(c)
  <2>1. CASE TaskStarts(c)
    BY <2>1 DEF TaskStarts
  <2>2. CASE TaskJoined(c)
    BY <2>2 DEF TaskJoined
  <2>3. CASE TaskFails(c)
    BY <2>3 DEF TaskFails
  <2>4. CASE Enrolled(c)
    BY <2>4 DEF Enrolled
  <2>5. CASE Halfway(c)
    BY <2>5 DEF Halfway
  <2> QED
    BY <1>8, <2>1, <2>2, <2>3, <2>4, <2>5 DEF Runs
<1> QED
  BY <1>1, <1>2, <1>3, <1>4, <1>5, <1>6, <1>7, <1>8 DEF Acts

LEMMA RestTyped ==
  ASSUME Typed, NEW c \in Conn, Acts(c)
  PROVE  phase' \in {"setup", "operating", "dead"} /\ key' \in BOOLEAN /\ app' \in BOOLEAN
         /\ ap' \in BOOLEAN /\ staged' \subseteq Enrolment
         /\ status' \in {"idle", "running", "complete", "error"}
<1> USE DEF Typed, TypeOK, Enrolment
<1>1. CASE Request(c)
  BY <1>1 DEF Request, Handles, Setting
<1>2. CASE Configures(c)
  BY <1>2 DEF Configures, Handles, Setting
<1>3. CASE InstallsManual(c)
  BY <1>3 DEF InstallsManual, Handles, Setting
<1>4. CASE WritesFile(c)
  BY <1>4 DEF WritesFile, Handles, Setting
<1>5. CASE Installs(c)
  BY <1>5 DEF Installs, Provisions, Handles, Setting
<1>6. CASE Uploads(c)
  BY <1>6 DEF Uploads, Handles, Setting
<1>7. CASE Proceeds(c)
  <2>1. CASE BodyFails(c)
    BY <2>1 DEF BodyFails, Setting
  <2>2. CASE AsksEnrolment(c)
    BY <2>2 DEF AsksEnrolment, Setting
  <2>3. CASE Joined(c)
    BY <2>3 DEF Joined, Setting
  <2>4. CASE NotJoined(c)
    BY <2>4 DEF NotJoined, Setting
  <2>5. CASE HandsOver(c)
    BY <2>5 DEF HandsOver, Setting
  <2>6. CASE Downloads(c)
    BY <2>6 DEF Downloads, Setting
  <2>7. CASE Received(c)
    BY <2>7 DEF Received, Provisions, Setting
  <2>8. CASE NotReceived(c)
    BY <2>8 DEF NotReceived, Setting
  <2>9. CASE AnswerSent(c)
    BY <2>9 DEF AnswerSent, Setting
  <2>10. CASE AnswerFails(c)
    BY <2>10 DEF AnswerFails, Setting
  <2>11. CASE Restarts(c)
    BY <2>11 DEF Restarts, StartsAgain, Handler
  <2> QED
    BY <1>7, <2>1, <2>2, <2>3, <2>4, <2>5, <2>6, <2>7, <2>8, <2>9, <2>10, <2>11 DEF Proceeds
<1>8. CASE Runs(c)
  <2>1. CASE TaskStarts(c)
    BY <2>1 DEF TaskStarts, Setting
  <2>2. CASE TaskJoined(c)
    BY <2>2 DEF TaskJoined, Setting
  <2>3. CASE TaskFails(c)
    BY <2>3 DEF TaskFails, EndsInError, Setting
  <2>4. CASE Enrolled(c)
    BY <2>4 DEF Enrolled, Setting
  <2>5. CASE Halfway(c)
    BY <2>5 DEF Halfway, EndsInError, Setting
  <2> QED
    BY <1>8, <2>1, <2>2, <2>3, <2>4, <2>5 DEF Runs
<1> QED
  BY <1>1, <1>2, <1>3, <1>4, <1>5, <1>6, <1>7, <1>8 DEF Acts

LEMMA Joining ==
  ASSUME Typed, NEW n \in Net \cup {"none"}, StartsJoin(n)
  PROVE  /\ station' \in [state : {"off", "joining", "joined"}, net : Net \cup {"none"}]
         /\ station' # Off
<1>1. station \in [state : {"off", "joining", "joined"}, net : Net \cup {"none"}]
  BY DEF Typed, TypeOK
<1>2. CASE IsConnected
  BY <1>1, <1>2, Values DEF StartsJoin, IsConnected
<1>3. CASE ~IsConnected
  BY <1>3, Values DEF StartsJoin
<1> QED
  BY <1>2, <1>3

LEMMA StationTyped ==
  ASSUME Typed, NEW c \in Conn, Acts(c)
  PROVE  /\ station' \in [state : {"off", "joining", "joined"}, net : Net \cup {"none"}]
         /\ exposed \subseteq exposed' /\ exposed' \subseteq Exposure
<1> USE DEF Typed, TypeOK, Exposes, When, Exposure
<1>1. CASE Request(c)
  BY <1>1 DEF Request
<1>2. CASE Configures(c)
  <2>1. \E n \in Net : StartsJoin(n)
    BY <1>2 DEF Configures
  <2>2. exposed \subseteq exposed' /\ exposed' \subseteq Exposure
    BY <1>2 DEF Configures
  <2>3. station' \in [state : {"off", "joining", "joined"}, net : Net \cup {"none"}]
    BY <2>1, Joining
  <2> QED
    BY <2>2, <2>3
<1>3. CASE InstallsManual(c)
  BY <1>3 DEF InstallsManual
<1>4. CASE WritesFile(c)
  BY <1>4 DEF WritesFile
<1>5. CASE Installs(c)
  <2>1. store.net \in Net \cup {"none"}
    BY DEF Stored
  <2>2. exposed \subseteq exposed' /\ exposed' \subseteq Exposure
    BY <1>5 DEF Installs, Provisions
  <2>3. UNCHANGED station \/ StartsJoin(store.net)
    BY <1>5 DEF Installs
  <2>4. station' \in [state : {"off", "joining", "joined"}, net : Net \cup {"none"}]
    BY <2>1, <2>3, Joining
  <2> QED
    BY <2>2, <2>4
<1>6. CASE Uploads(c)
  BY <1>6 DEF Uploads
<1>7. CASE Proceeds(c)
  <2>1. CASE BodyFails(c)
    BY <2>1 DEF BodyFails
  <2>2. CASE AsksEnrolment(c)
    BY <2>2 DEF AsksEnrolment
  <2>3. CASE Joined(c)
    BY <2>3 DEF Joined
  <2>4. CASE NotJoined(c)
    BY <2>4, Values DEF NotJoined, GivesUp
  <2>5. CASE HandsOver(c)
    BY <2>5 DEF HandsOver
  <2>6. CASE Downloads(c)
    BY <2>6 DEF Downloads
  <2>7. CASE Received(c)
    BY <2>7 DEF Received, Provisions
  <2>8. CASE NotReceived(c)
    BY <2>8 DEF NotReceived
  <2>9. CASE AnswerSent(c)
    BY <2>9 DEF AnswerSent
  <2>10. CASE AnswerFails(c)
    BY <2>10 DEF AnswerFails
  <2>11. CASE Restarts(c)
    BY <2>11, Values DEF Restarts, StartsAgain
  <2> QED
    BY <1>7, <2>1, <2>2, <2>3, <2>4, <2>5, <2>6, <2>7, <2>8, <2>9, <2>10, <2>11 DEF Proceeds
<1>8. CASE Runs(c)
  <2>1. CASE TaskStarts(c)
      <3>1. task[c].net \in Net \cup {"none"}
        BY DEF Errand
      <3> QED
        BY <2>1, <3>1 DEF TaskStarts, StartsJoin, IsConnected
  <2>2. CASE TaskJoined(c)
    BY <2>2 DEF TaskJoined
  <2>3. CASE TaskFails(c)
    BY <2>3, Values DEF TaskFails, GivesUp
  <2>4. CASE Enrolled(c)
    BY <2>4 DEF Enrolled
  <2>5. CASE Halfway(c)
    BY <2>5 DEF Halfway
  <2> QED
    BY <1>8, <2>1, <2>2, <2>3, <2>4, <2>5 DEF Runs
<1> QED
  BY <1>1, <1>2, <1>3, <1>4, <1>5, <1>6, <1>7, <1>8 DEF Acts

LEMMA TypedStep ==
  ASSUME Typed, NEW c \in Conn, Acts(c)
  PROVE  Typed'
BY HandlersTyped, TasksTyped, StoreTyped, FilesTyped, SpentTyped, RestTyped, StationTyped
DEF Typed, TypeOK

LEMMA Others ==
  ASSUME Typed, NEW c \in Conn, Acts(c), NEW d \in Conn, d # c
  PROVE  conn'[d] = conn[d] \/ conn'[d] = Idle
BY TurnedStep, Changed DEF Turned, Typed

\* A handler that has an answer to wait for, and where.
Sound(h) ==
  /\ h.at \in {"download", "receiving"} => h.kind \in Fetching
  /\ h.at = "handover" => h.kind = "configure"

\* A handler begins to fetch an application only with a request for it.
LEMMA SoundStep ==
  ASSUME Typed, NEW c \in Conn, Sound(conn[c]), Acts(c)
  PROVE  /\ Sound(conn'[c])
         /\ conn'[c].kind \in Fetching => conn[c].kind \in Fetching \/ Installs(c) \/ Uploads(c)
<1> USE DEF Typed, Handler, Doings, Enrolment, Fetching, Sound
<1>1. CASE Request(c)
  BY <1>1, Values DEF Request, Handles
<1>2. CASE Configures(c)
  BY <1>2, Values DEF Configures, Handles
<1>3. CASE InstallsManual(c)
  BY <1>3, Values DEF InstallsManual
<1>4. CASE WritesFile(c)
  BY <1>4, Values DEF WritesFile
<1>5. CASE Installs(c)
  <2>1. CASE app
    <3>1. conn'[c] = [conn[c] EXCEPT !.at = "answer", !.kind = "finished"]
      BY <1>5, <2>1 DEF Installs, Provisions
    <3> QED
      BY <3>1
  <2>2. CASE ~app
    <3>1. conn'[c] = [at |-> "joining", kind |-> "install", snap |-> store]
      BY <1>5, <2>2 DEF Installs
    <3> QED
      BY <3>1, <1>5
  <2> QED
    BY <2>1, <2>2 DEF Typed, TypeOK
<1>6. CASE Uploads(c)
  BY <1>6, Values DEF Uploads
<1>7. CASE Proceeds(c)
  <2>1. CASE BodyFails(c)
    BY <2>1, Values DEF BodyFails, Closes
  <2>2. CASE AsksEnrolment(c)
    BY <2>2, Values DEF AsksEnrolment
  <2>3. CASE Joined(c)
    BY <2>3, Values DEF Joined, Becomes
  <2>4. CASE NotJoined(c)
    BY <2>4, Values DEF NotJoined, Closes
  <2>5. CASE HandsOver(c)
    BY <2>5, Values DEF HandsOver, Closes
  <2>6. CASE Downloads(c)
    BY <2>6, Values DEF Downloads, Becomes
  <2>7. CASE Received(c)
    BY <2>7, Values DEF Received, Provisions
  <2>8. CASE NotReceived(c)
    BY <2>8, Values DEF NotReceived, Closes
  <2>9. CASE AnswerSent(c)
    BY <2>9, Values DEF AnswerSent, Becomes, Closes
  <2>10. CASE AnswerFails(c)
    BY <2>10, Values DEF AnswerFails, Closes
  <2>11. CASE Restarts(c)
    BY <2>11, Values DEF Restarts, StartsAgain
  <2> QED
    BY <1>7, <2>1, <2>2, <2>3, <2>4, <2>5, <2>6, <2>7, <2>8, <2>9, <2>10, <2>11 DEF Proceeds
<1>8. CASE Runs(c)
  <2>1. CASE TaskStarts(c)
    BY <2>1, Values DEF TaskStarts
  <2>2. CASE TaskJoined(c)
    BY <2>2, Values DEF TaskJoined
  <2>3. CASE TaskFails(c)
    BY <2>3, Values DEF TaskFails
  <2>4. CASE Enrolled(c)
    BY <2>4, Values DEF Enrolled
  <2>5. CASE Halfway(c)
    BY <2>5, Values DEF Halfway
  <2> QED
    BY <1>8, <2>1, <2>2, <2>3, <2>4, <2>5 DEF Runs
<1> QED
  BY <1>1, <1>2, <1>3, <1>4, <1>5, <1>6, <1>7, <1>8 DEF Acts

\* A handler that has let the owner go has joined the network.
LEMMA JoinedStep ==
  ASSUME Typed, NEW c \in Conn, conn'[c].kind = "configure",
         conn'[c].at # "joining",
         Acts(c)
  PROVE  \/ conn[c].kind = "configure" /\ conn[c].at # "joining"
         \/ station' # Off
<1> USE DEF Typed, Handler, Doings, Enrolment
<1>1. CASE Request(c)
  BY <1>1, Values DEF Request, Handles
<1>2. CASE Configures(c)
  BY <1>2, Values DEF Configures, Handles, StartsJoin, IsConnected
<1>3. CASE InstallsManual(c)
  BY <1>3, Values DEF InstallsManual
<1>4. CASE WritesFile(c)
  BY <1>4, Values DEF WritesFile
<1>5. CASE Installs(c)
  <2>1. CASE app
    <3>1. conn'[c] = [conn[c] EXCEPT !.at = "answer", !.kind = "finished"]
      BY <1>5, <2>1 DEF Installs, Provisions
    <3> QED
      BY <3>1
  <2>2. CASE ~app
    <3>1. conn'[c] = [at |-> "joining", kind |-> "install", snap |-> store]
      BY <1>5, <2>2 DEF Installs
    <3> QED
      BY <3>1, <1>5
  <2> QED
    BY <2>1, <2>2 DEF Typed, TypeOK
<1>6. CASE Uploads(c)
  BY <1>6, Values DEF Uploads
<1>7. CASE Proceeds(c)
  <2>1. CASE BodyFails(c)
    BY <2>1, Values DEF BodyFails, Closes
  <2>2. CASE AsksEnrolment(c)
    BY <2>2, Values DEF AsksEnrolment
  <2>3. CASE Joined(c)
    BY <2>3, Values DEF Joined, Becomes, IsConnected
  <2>4. CASE NotJoined(c)
    BY <2>4, Values DEF NotJoined, Closes
  <2>5. CASE HandsOver(c)
    BY <2>5, Values DEF HandsOver, Closes
  <2>6. CASE Downloads(c)
    BY <2>6, Values DEF Downloads, Becomes
  <2>7. CASE Received(c)
    BY <2>7, Values DEF Received, Provisions
  <2>8. CASE NotReceived(c)
    BY <2>8, Values DEF NotReceived, Closes
  <2>9. CASE AnswerSent(c)
    BY <2>9, Values DEF AnswerSent, Becomes, Closes
  <2>10. CASE AnswerFails(c)
    BY <2>10, Values DEF AnswerFails, Closes
  <2>11. CASE Restarts(c)
    BY <2>11, Values DEF Restarts, StartsAgain
  <2> QED
    BY <1>7, <2>1, <2>2, <2>3, <2>4, <2>5, <2>6, <2>7, <2>8, <2>9, <2>10, <2>11 DEF Proceeds
<1>8. CASE Runs(c)
  <2>1. CASE TaskStarts(c)
    BY <2>1, Values DEF TaskStarts
  <2>2. CASE TaskJoined(c)
    BY <2>2, Values DEF TaskJoined
  <2>3. CASE TaskFails(c)
    BY <2>3, Values DEF TaskFails
  <2>4. CASE Enrolled(c)
    BY <2>4, Values DEF Enrolled
  <2>5. CASE Halfway(c)
    BY <2>5, Values DEF Halfway
  <2> QED
    BY <1>8, <2>1, <2>2, <2>3, <2>4, <2>5 DEF Runs
<1> QED
  BY <1>1, <1>2, <1>3, <1>4, <1>5, <1>6, <1>7, <1>8 DEF Acts

\* The access point goes off with the hand-over.
LEMMA PointStep ==
  ASSUME Typed, NEW c \in Conn, Acts(c)
  PROVE  ~ap' => ~ap \/ HandsOver(c)
<1>1. CASE Request(c)
  BY <1>1 DEF Request
<1>2. CASE Configures(c)
  BY <1>2 DEF Configures
<1>3. CASE InstallsManual(c)
  BY <1>3 DEF InstallsManual
<1>4. CASE WritesFile(c)
  BY <1>4 DEF WritesFile
<1>5. CASE Installs(c)
  BY <1>5 DEF Installs
<1>6. CASE Uploads(c)
  BY <1>6 DEF Uploads
<1>7. CASE Proceeds(c)
  <2>1. CASE BodyFails(c)
    BY <2>1 DEF BodyFails
  <2>2. CASE AsksEnrolment(c)
    BY <2>2 DEF AsksEnrolment
  <2>3. CASE Joined(c)
    BY <2>3 DEF Joined
  <2>4. CASE NotJoined(c)
    BY <2>4 DEF NotJoined
  <2>5. CASE HandsOver(c)
    BY <2>5 DEF HandsOver
  <2>6. CASE Downloads(c)
    BY <2>6 DEF Downloads
  <2>7. CASE Received(c)
    BY <2>7 DEF Received
  <2>8. CASE NotReceived(c)
    BY <2>8 DEF NotReceived
  <2>9. CASE AnswerSent(c)
    BY <2>9 DEF AnswerSent
  <2>10. CASE AnswerFails(c)
    BY <2>10 DEF AnswerFails
  <2>11. CASE Restarts(c)
    BY <2>11 DEF Restarts, StartsAgain
  <2> QED
    BY <1>7, <2>1, <2>2, <2>3, <2>4, <2>5, <2>6, <2>7, <2>8, <2>9, <2>10, <2>11 DEF Proceeds
<1>8. CASE Runs(c)
  <2>1. CASE TaskStarts(c)
    BY <2>1 DEF TaskStarts
  <2>2. CASE TaskJoined(c)
    BY <2>2 DEF TaskJoined
  <2>3. CASE TaskFails(c)
    BY <2>3 DEF TaskFails
  <2>4. CASE Enrolled(c)
    BY <2>4 DEF Enrolled
  <2>5. CASE Halfway(c)
    BY <2>5 DEF Halfway
  <2> QED
    BY <1>8, <2>1, <2>2, <2>3, <2>4, <2>5 DEF Runs
<1> QED
  BY <1>1, <1>2, <1>3, <1>4, <1>5, <1>6, <1>7, <1>8 DEF Acts

LEMMA HandedStep ==
  ASSUME Typed, NEW c \in Conn, Acts(c), Sound(conn[c]), HandedOver'
  PROVE  HandedOver \/ station' # Off
<1> SUFFICES ASSUME station' = Off
             PROVE  HandedOver
  OBVIOUS
<1>1. CASE ~ap'
  <2>1. CASE HandsOver(c)
    <3>1. conn[c].at = "handover" /\ conn[c].kind = "configure"
      BY <2>1 DEF HandsOver, Sound
    <3> QED
      BY <3>1 DEF HandedOver
  <2>2. CASE ~ap
    BY <1>1, <2>2 DEF HandedOver
  <2> QED
    BY <1>1, <2>1, <2>2, PointStep
<1>2. CASE \E d \in Conn : conn'[d].kind = "configure" /\ conn'[d].at # "joining"
  <2>1. PICK d \in Conn : conn'[d].kind = "configure" /\ conn'[d].at # "joining"
    BY <1>2
  <2>2. conn[d].kind = "configure" /\ conn[d].at # "joining"
    <3>1. CASE d = c
      BY <2>1, <3>1, JoinedStep
    <3>2. CASE d # c
      BY <2>1, <3>2, Others, Values
    <3> QED
      BY <3>1, <3>2
  <2> QED
    BY <2>2 DEF HandedOver
<1> QED
  BY <1>1, <1>2 DEF HandedOver

\* An owner who was let go is not left without the network.
LEMMA ReachStep ==
  ASSUME Typed, NEW c \in Conn, Sound(conn[c]), exposed' = {},
         HandedOver => station # Off,
         Acts(c)
  PROVE  HandedOver' => station' # Off
<1> SUFFICES ASSUME HandedOver'
             PROVE  station' # Off
  OBVIOUS
<1> HandedOver \/ station' # Off
  BY HandedStep
<1>1. CASE Request(c)
  BY <1>1 DEF Request
<1>2. CASE Configures(c)
  <2>1. PICK n \in Net : StartsJoin(n)
    BY <1>2 DEF Configures
  <2> QED
    BY <2>1, Joining
<1>3. CASE InstallsManual(c)
  BY <1>3 DEF InstallsManual
<1>4. CASE WritesFile(c)
  BY <1>4 DEF WritesFile
<1>5. CASE Installs(c)
  <2>1. store.net \in Net \cup {"none"}
    BY Settled DEF Typed, TypeOK, Stored
  <2>2. UNCHANGED station \/ StartsJoin(store.net)
    BY <1>5 DEF Installs
  <2> QED
    BY <2>1, <2>2, Joining
<1>6. CASE Uploads(c)
  BY <1>6 DEF Uploads
<1>7. CASE Proceeds(c)
  <2>1. CASE BodyFails(c)
    BY <2>1 DEF BodyFails
  <2>2. CASE AsksEnrolment(c)
    BY <2>2 DEF AsksEnrolment
  <2>3. CASE Joined(c)
    BY <2>3 DEF Joined
  <2>4. CASE NotJoined(c)
    BY <2>4 DEF NotJoined, GivesUp, Exposes, When
  <2>5. CASE HandsOver(c)
    BY <2>5 DEF HandsOver
  <2>6. CASE Downloads(c)
    BY <2>6 DEF Downloads
  <2>7. CASE Received(c)
    BY <2>7 DEF Received
  <2>8. CASE NotReceived(c)
    BY <2>8 DEF NotReceived
  <2>9. CASE AnswerSent(c)
    BY <2>9 DEF AnswerSent
  <2>10. CASE AnswerFails(c)
    BY <2>10 DEF AnswerFails
  <2>11. CASE Restarts(c)
      <3>1. ~HandedOver'
        BY <2>11, Values DEF Restarts, StartsAgain, HandedOver
      <3> QED
        BY <3>1
  <2> QED
    BY <1>7, <2>1, <2>2, <2>3, <2>4, <2>5, <2>6, <2>7, <2>8, <2>9, <2>10, <2>11 DEF Proceeds
<1>8. CASE Runs(c)
  <2>1. CASE TaskStarts(c)
      <3>1. task[c].net \in Net \cup {"none"}
        BY DEF Typed, Errand
      <3>2. StartsJoin(task[c].net)
        BY <2>1 DEF TaskStarts
      <3> QED
        BY <3>1, <3>2, Joining
  <2>2. CASE TaskJoined(c)
    BY <2>2 DEF TaskJoined
  <2>3. CASE TaskFails(c)
    BY <2>3 DEF TaskFails, GivesUp, Exposes, When
  <2>4. CASE Enrolled(c)
    BY <2>4 DEF Enrolled
  <2>5. CASE Halfway(c)
    BY <2>5 DEF Halfway
  <2> QED
    BY <1>8, <2>1, <2>2, <2>3, <2>4, <2>5 DEF Runs
<1> QED
  BY <1>1, <1>2, <1>3, <1>4, <1>5, <1>6, <1>7, <1>8 DEF Acts

\* A pair that is valid is right: a file of the owner's passes only with its other half.
LEMMA Checked ==
  ASSUME Typed, Matching
  PROVE  /\ Valid(store.mode, files) => Right
         /\ Valid(store.mode, Prepared) =>
              \/ Prepared = Certificate(store.mode, store.host)
              \/ \E kind \in Alike(store.mode) : Prepared = Certificate(kind, 0)
<1>0. files \in [cert : Halves, key : Halves] /\ store.mode \in Modes
  BY DEF Typed, TypeOK, Stored, Modes
<1>1. ASSUME Valid(store.mode, files)
      PROVE  Right
  <2>1. /\ files.cert = files.key /\ store.mode # "none"
        /\ store.mode = "self_signed" => SelfIssued(files.cert)
        /\ store.mode \in Enrolment => ~SelfIssued(files.cert)
    BY <1>1 DEF Valid
  <2>2. CASE files.cert.kind \in Supplied
    <3>1. files.cert.host = 0 /\ files.cert \in [kind : Supplied, host : {0}]
      BY <1>0, <2>2 DEF Halves, Supplied, Enrolment
    <3>2. files.cert = Half(files.cert.kind, 0)
      BY <3>1 DEF Half
    <3>3. files = Certificate(files.cert.kind, 0)
      BY <1>0, <2>1, <3>2 DEF Certificate
    <3>4. files.cert.kind \in Alike(store.mode)
      BY <1>0, <2>1, <2>2 DEF Alike, Supplied, SelfIssued, Modes, Enrolment
    <3> QED
      BY <3>3, <3>4 DEF Right
  <2>3. CASE files.cert.kind \notin Supplied
    BY <2>1, <2>3 DEF Matching, Right, SelfIssued
  <2> QED
    BY <2>2, <2>3
<1>2. ASSUME Valid(store.mode, Prepared)
      PROVE  \/ Prepared = Certificate(store.mode, store.host)
             \/ \E kind \in Alike(store.mode) : Prepared = Certificate(kind, 0)
  <2>1. CASE store.mode = "self_signed" /\ ~SelfIssued(files.cert)
    BY <2>1 DEF Prepared
  <2>2. CASE ~(store.mode = "self_signed" /\ ~SelfIssued(files.cert))
    <3>1. Prepared = files
      BY <2>2 DEF Prepared
    <3> QED
      BY <1>1, <1>2, <3>1 DEF Right
  <2> QED
    BY <2>1, <2>2
<1> QED
  BY <1>1, <1>2

\* What is provisioned is the configuration that is stored, unless a later one was lost.
LEMMA Provisioned ==
  ASSUME Typed, NEW c \in Conn, Provisions(c, conn[c].snap) \/ Provisions(c, store),
         exposed' = {}
  PROVE  /\ store'.number = store.number /\ store'.host = store.host
         /\ store'.mode = store.mode /\ ~key'
<1>1. PICK s \in Stored : Provisions(c, s)
  BY DEF Typed, TypeOK, Handler
<1>2. store' = [s EXCEPT !.provisioned = TRUE] /\ ~key'
  BY <1>1 DEF Provisions
<1>3. store = [s EXCEPT !.provisioned = store.provisioned]
  BY <1>1 DEF Provisions, Exposes, When
<1>4. store.number = s.number /\ store.host = s.host /\ store.mode = s.mode
  BY <1>3 DEF Stored
<1>5. store'.number = s.number /\ store'.host = s.host /\ store'.mode = s.mode
  BY <1>2 DEF Stored
<1> QED
  BY <1>2, <1>4, <1>5

\* What is stored stays complete.
LEMMA StockStep ==
  ASSUME Typed, NEW c \in Conn, Working, exposed' = {}, Acts(c)
  PROVE  /\ store'.host = store'.number
         /\ store'.provisioned => app'
         /\ store'.provisioned \/ key'
<1>0. /\ store.host = store.number
      /\ store.provisioned => app
      /\ store.provisioned \/ key
  BY DEF Working
<1>1. CASE Request(c)
  BY <1>1, <1>0 DEF Request
<1>2. CASE Configures(c)
  <2>1. PICK n \in Net : store' = Configuration(n)
    BY <1>2 DEF Configures
  <2>2. spent.configures < MaxConfigures /\ key' = key /\ app' = app
    BY <1>2 DEF Configures
  <2>3. ~store.provisioned
    BY <1>2 DEF Configures, Exposes, When
  <2> QED
    BY <1>0, <2>1, <2>2, <2>3, Formed
<1>3. CASE InstallsManual(c)
  <2>1. store' = WithMode(store, "manual", store.number) /\ store \in Stored
    BY <1>3 DEF InstallsManual, Typed, TypeOK
  <2>2. /\ store'.host = store'.number
        /\ store'.provisioned = store.provisioned
    BY <2>1 DEF WithMode, Stored
  <2> QED
    BY <1>3, <1>0, <2>2 DEF InstallsManual
<1>4. CASE WritesFile(c)
  BY <1>4, <1>0 DEF WritesFile
<1>5. CASE Installs(c)
  <2>1. CASE app
    <3>1. Provisions(c, store) /\ app'
      BY <1>5, <2>1 DEF Installs
    <3> QED
      BY <1>0, <3>1, Provisioned DEF Provisions, Typed, TypeOK, Stored
  <2>2. CASE ~app
    BY <1>5, <1>0, <2>2 DEF Installs
  <2> QED
    BY <2>1, <2>2 DEF Typed, TypeOK
<1>6. CASE Uploads(c)
  BY <1>6, <1>0 DEF Uploads
<1>7. CASE Proceeds(c)
  <2>1. CASE BodyFails(c)
    BY <2>1, <1>0 DEF BodyFails
  <2>2. CASE AsksEnrolment(c)
    BY <2>2, <1>0 DEF AsksEnrolment
  <2>3. CASE Joined(c)
    BY <2>3, <1>0 DEF Joined
  <2>4. CASE NotJoined(c)
    BY <2>4, <1>0 DEF NotJoined
  <2>5. CASE HandsOver(c)
    BY <2>5, <1>0 DEF HandsOver
  <2>6. CASE Downloads(c)
    BY <2>6, <1>0 DEF Downloads
  <2>7. CASE Received(c)
      <3>1. Provisions(c, conn[c].snap) /\ app'
        BY <2>7 DEF Received
      <3>2. conn[c].snap \in Stored
        BY DEF Typed, Handler
      <3>3. store'.provisioned
        BY <3>1, <3>2 DEF Provisions, Stored
      <3> QED
        BY <1>0, <3>1, <3>3, Provisioned
  <2>8. CASE NotReceived(c)
    BY <2>8, <1>0 DEF NotReceived
  <2>9. CASE AnswerSent(c)
    BY <2>9, <1>0 DEF AnswerSent
  <2>10. CASE AnswerFails(c)
    BY <2>10, <1>0 DEF AnswerFails
  <2>11. CASE Restarts(c)
    BY <2>11, <1>0 DEF Restarts, StartsAgain
  <2> QED
    BY <1>7, <2>1, <2>2, <2>3, <2>4, <2>5, <2>6, <2>7, <2>8, <2>9, <2>10, <2>11 DEF Proceeds
<1>8. CASE Runs(c)
  <2>1. CASE TaskStarts(c)
    BY <2>1, <1>0 DEF TaskStarts
  <2>2. CASE TaskJoined(c)
    BY <2>2, <1>0 DEF TaskJoined
  <2>3. CASE TaskFails(c)
    BY <2>3, <1>0 DEF TaskFails
  <2>4. CASE Enrolled(c)
      <3>1. /\ task[c] \in Errand /\ task[c].method \in Enrolment
            /\ store' = WithMode(store, task[c].method, task[c].number)
            /\ app' = app /\ key' = key /\ task[c].number = store.number
        BY <2>4 DEF Enrolled, Exposes, When, Typed, TypeOK
      <3>2. store \in Stored
        BY DEF Typed, TypeOK
      <3>3. /\ store'.host = task[c].number /\ store'.number = store.number
            /\ store'.provisioned = store.provisioned
        BY <3>1, <3>2 DEF WithMode, Stored
      <3> QED
        BY <1>0, <3>1, <3>3
  <2>5. CASE Halfway(c)
    BY <2>5, <1>0 DEF Halfway
  <2> QED
    BY <1>8, <2>1, <2>2, <2>3, <2>4, <2>5 DEF Runs
<1> QED
  BY <1>1, <1>2, <1>3, <1>4, <1>5, <1>6, <1>7, <1>8 DEF Acts

LEMMA SelectedStep ==
  ASSUME Typed, NEW c \in Conn, Acts(c), Sound(conn[c]), ~Installs(c), ~Uploads(c),
         store'.provisioned => Selected, Selected'
  PROVE  Selected
<1>1. CASE store'.provisioned
  BY <1>1
<1>2. CASE \E d \in Conn : conn'[d].kind \in Fetching
  <2>1. PICK d \in Conn : conn'[d].kind \in Fetching
    BY <1>2
  <2>2. conn[d].kind \in Fetching
    <3>1. CASE d = c
      BY <2>1, <3>1, SoundStep
    <3>2. CASE d # c
      BY <2>1, <3>2, Others, Values DEF Fetching
    <3> QED
      BY <3>1, <3>2
  <2> QED
    BY <2>2 DEF Selected, Fetching
<1> QED
  BY <1>1, <1>2 DEF Selected, Fetching

LEMMA SteadyStep ==
  ASSUME Typed, NEW c \in Conn, ~Configures(c), ~InstallsManual(c), ~WritesFile(c), ~Installs(c),
         ~Received(c), ~Enrolled(c), ~Halfway(c),
         Acts(c)
  PROVE  UNCHANGED <<store, files>>
<1>1. CASE Request(c)
  BY <1>1 DEF Request
<1>2. CASE Configures(c)
  BY <1>2 DEF Configures
<1>3. CASE InstallsManual(c)
  BY <1>3 DEF InstallsManual
<1>4. CASE WritesFile(c)
  BY <1>4 DEF WritesFile
<1>5. CASE Installs(c)
  BY <1>5 DEF Installs
<1>6. CASE Uploads(c)
  BY <1>6 DEF Uploads
<1>7. CASE Proceeds(c)
  <2>1. CASE BodyFails(c)
    BY <2>1 DEF BodyFails
  <2>2. CASE AsksEnrolment(c)
    BY <2>2 DEF AsksEnrolment
  <2>3. CASE Joined(c)
    BY <2>3 DEF Joined
  <2>4. CASE NotJoined(c)
    BY <2>4 DEF NotJoined
  <2>5. CASE HandsOver(c)
    BY <2>5 DEF HandsOver
  <2>6. CASE Downloads(c)
    BY <2>6 DEF Downloads
  <2>7. CASE Received(c)
    BY <2>7 DEF Received
  <2>8. CASE NotReceived(c)
    BY <2>8 DEF NotReceived
  <2>9. CASE AnswerSent(c)
    BY <2>9 DEF AnswerSent
  <2>10. CASE AnswerFails(c)
    BY <2>10 DEF AnswerFails
  <2>11. CASE Restarts(c)
    BY <2>11 DEF Restarts, StartsAgain
  <2> QED
    BY <1>7, <2>1, <2>2, <2>3, <2>4, <2>5, <2>6, <2>7, <2>8, <2>9, <2>10, <2>11 DEF Proceeds
<1>8. CASE Runs(c)
  <2>1. CASE TaskStarts(c)
    BY <2>1 DEF TaskStarts
  <2>2. CASE TaskJoined(c)
    BY <2>2 DEF TaskJoined
  <2>3. CASE TaskFails(c)
    BY <2>3 DEF TaskFails
  <2>4. CASE Enrolled(c)
    BY <2>4 DEF Enrolled
  <2>5. CASE Halfway(c)
    BY <2>5 DEF Halfway
  <2> QED
    BY <1>8, <2>1, <2>2, <2>3, <2>4, <2>5 DEF Runs
<1> QED
  BY <1>1, <1>2, <1>3, <1>4, <1>5, <1>6, <1>7, <1>8 DEF Acts

\* What writes the certificate or selects it leaves the one the settings speak of.
LEMMA RightStep ==
  ASSUME Typed, NEW c \in Conn, Working, exposed' = {}, Sound(conn[c]),
         \/ Configures(c) \/ InstallsManual(c) \/ Installs(c) \/ Uploads(c) \/ Received(c)
         \/ Enrolled(c)
  PROVE  Right'
<1>1. CASE Configures(c)
  <2>1. PICK n \in Net :
          store' = Configuration(n) /\ files' = Certificate("self_signed", store'.host)
    BY <1>1 DEF Configures
  <2>2. Configuration(n).mode = "self_signed"
    BY DEF Configuration
  <2> QED
    BY <2>1, <2>2 DEF Right
<1>2. CASE InstallsManual(c)
  <2>1. /\ store' = WithMode(store, "manual", store.number) /\ store \in Stored
        /\ files' = Certificate("manual", store.number)
    BY <1>2 DEF InstallsManual, Typed, TypeOK
  <2>2. store'.mode = "manual" /\ store'.host = store.number
    BY <2>1 DEF WithMode, Stored
  <2> QED
    BY <2>1, <2>2 DEF Right
<1>3. CASE Installs(c)
  <2>1. store # NoConfig /\ files' = Prepared /\ Valid(store.mode, Prepared)
    BY <1>3 DEF Installs
  <2>2. \/ files' = Certificate(store.mode, store.host)
        \/ \E kind \in Alike(store.mode) : files' = Certificate(kind, 0)
    BY <2>1, Checked DEF Working
  <2>3. CASE app
    <3>1. Provisions(c, store)
      BY <1>3, <2>3 DEF Installs
    <3> QED
      BY <2>2, <3>1, Provisioned DEF Right
  <2>4. CASE ~app
    BY <1>3, <2>2, <2>4 DEF Installs, Right
  <2> QED
    BY <2>3, <2>4
<1>4. CASE Uploads(c)
  <2>1. store # NoConfig /\ Valid(store.mode, files) /\ UNCHANGED <<store, files>>
    BY <1>4 DEF Uploads
  <2> QED
    BY <2>1, Checked DEF Working, Right
<1>5. CASE Received(c)
  <2>1. Provisions(c, conn[c].snap) /\ UNCHANGED files /\ conn[c].at = "receiving"
    BY <1>5 DEF Received
  <2>2. Selected
    BY <2>1 DEF Sound, Selected, Fetching
  <2> QED
    BY <2>1, <2>2, Provisioned DEF Working, Right
<1>6. CASE Enrolled(c)
  <2>1. /\ store' = WithMode(store, task[c].method, task[c].number) /\ store \in Stored
        /\ files' = Certificate(task[c].method, task[c].number)
    BY <1>6 DEF Enrolled, Typed, TypeOK
  <2>2. store'.mode = task[c].method /\ store'.host = task[c].number
    BY <2>1 DEF WithMode, Stored
  <2> QED
    BY <2>1, <2>2 DEF Right
<1> QED
  BY <1>1, <1>2, <1>3, <1>4, <1>5, <1>6

\* A pair that is right may be selected again.
LEMMA RightMatches ==
  Right' => Matching'
<1> SUFFICES ASSUME Right', files' # Certificate(store.mode, store.host)'
             PROVE  files'.cert.kind \in Supplied
  BY DEF Matching
<1>1. PICK kind \in Alike(store.mode)' : files' = Certificate(kind, 0)
  BY DEF Right
<1>2. kind \in Supplied
  BY <1>1 DEF Alike, Supplied
<1> QED
  BY <1>1, <1>2 DEF Certificate, Half

LEMMA CertificateStep ==
  ASSUME Typed, NEW c \in Conn, Acts(c), Working, exposed' = {}, Sound(conn[c])
  PROVE  (store' # NoConfig => Matching') /\ (Selected' => Right')
<1>1. CASE \/ Configures(c) \/ InstallsManual(c) \/ Installs(c) \/ Uploads(c) \/ Received(c)
           \/ Enrolled(c)
  BY <1>1, RightStep, RightMatches
<1>2. CASE WritesFile(c)
  <2>1. ~Selected /\ UNCHANGED <<store, conn>>
    BY <1>2 DEF WritesFile, Exposes, When
  <2>3. PICK kind \in Supplied : \/ files' = [files EXCEPT !.cert = Half(kind, 0)]
                                 \/ files' = [files EXCEPT !.key = Half(kind, 0)]
    BY <1>2 DEF WritesFile
  <2>4. files \in [cert : Halves, key : Halves] /\ Half(kind, 0).kind = kind
    BY DEF Typed, TypeOK, Half
  <2>5. files'.cert.kind \in Supplied \/ files'.key.kind \in Supplied
    BY <2>3, <2>4
  <2>2. ~Selected'
    BY <2>1 DEF Selected
  <2> QED
    BY <2>2, <2>5 DEF Matching
<1>3. CASE Halfway(c)
  <2>1. /\ UNCHANGED <<store, conn>> /\ files' = Certificate("acme", task[c].number)
        /\ task[c].number = store.number /\ store.mode \in {"self_signed", "acme"}
        /\ ~(store.mode = "self_signed" /\ Selected)
    BY <1>3 DEF Halfway, Exposes, When
  <2>2. Selected' <=> Selected
    BY <2>1 DEF Selected
  <2>3. store.number = store.host
    BY DEF Working
  <2>4. files'.cert.kind = "acme"
    BY <2>1 DEF Certificate, Half
  <2>5. CASE store.mode = "self_signed"
    BY <2>1, <2>2, <2>4, <2>5 DEF Matching
  <2>6. CASE store.mode = "acme"
    BY <2>1, <2>3, <2>6 DEF Matching, Right
  <2> QED
    BY <2>1, <2>5, <2>6
<1>4. CASE /\ ~Configures(c) /\ ~InstallsManual(c) /\ ~Installs(c) /\ ~Uploads(c)
           /\ ~Received(c) /\ ~Enrolled(c) /\ ~WritesFile(c) /\ ~Halfway(c)
  <2>1. UNCHANGED <<store, files>>
    BY <1>4, SteadyStep
  <2>2. store'.provisioned => Selected
    BY <2>1 DEF Selected
  <2>3. Selected' => Selected
    BY <1>4, <2>2, SelectedStep
  <2> QED
    BY <2>1, <2>3 DEF Working, Matching, Right
<1> QED
  BY <1>1, <1>2, <1>3, <1>4

LEMMA WorkingStep ==
  ASSUME Typed, NEW c \in Conn, Acts(c), Working, exposed' = {}
  PROVE  Working'
<1>1. \A d \in Conn : Sound(conn[d])
  BY DEF Working, Sound
<1>2. \A d \in Conn : Sound(conn'[d])
  BY <1>1, SoundStep, Others, Values DEF Sound
<1>3. HandedOver' => station' # Off
  BY <1>1, ReachStep DEF Working
<1>4. (store' # NoConfig => Matching') /\ (Selected' => Right')
  BY <1>1, CertificateStep
<1>5. /\ store'.host = store'.number
      /\ store'.provisioned => app'
      /\ store'.provisioned \/ key'
  BY StockStep
<1> QED
  BY <1>2, <1>3, <1>4, <1>5 DEF Working, Sound, Right

-----------------------------------------------------------------------------
\* What no handler does.
LEMMA Aside ==
  ASSUME IInv, LinkUp \/ LinkDown \/ PowerFails \/ UNCHANGED vars
  PROVE  IInv'
<1> USE DEF IInv, Typed, TypeOK
<1>1. CASE LinkUp
  <2>1. Typed'
    BY <1>1 DEF LinkUp, Setting
  <2>2. station'.state = "joined" /\ UNCHANGED <<store, app, key, files, conn, ap, exposed>>
    BY <1>1 DEF LinkUp
  <2>3. Working => Working'
    BY <2>2, Values DEF Working, Matching, Right, Selected
  <2> QED
    BY <2>1, <2>2, <2>3
<1>2. CASE LinkDown
  <2>1. Typed'
    BY <1>2, SetupAssumption DEF LinkDown, Setting, Fault, Account
  <2>2. station'.state = "joining" /\ UNCHANGED <<store, app, key, files, conn, ap, exposed>>
    BY <1>2 DEF LinkDown
  <2>3. Working => Working'
    BY <2>2, Values DEF Working, Matching, Right, Selected
  <2> QED
    BY <2>1, <2>2, <2>3
<1>3. CASE PowerFails
  <2>1. /\ UNCHANGED <<store, key, files, staged, app, exposed>> /\ ap'
        /\ conn' = [c \in Conn |-> Idle] /\ station' = Off
    BY <1>3 DEF PowerFails, StartsAgain
  <2>2. Typed'
    BY <1>3, Values, SetupAssumption DEF PowerFails, StartsAgain, Fault, Account
  <2>3. ~HandedOver' /\ (Selected' => Selected)
    BY <2>1, Values DEF HandedOver, Selected
  <2>4. Working => Working'
    BY <2>1, <2>3, Values DEF Working, Matching, Right
  <2> QED
    BY <2>1, <2>2, <2>4
<1>4. CASE UNCHANGED vars
  BY <1>4 DEF vars, Working, Matching, Right, Selected, HandedOver
<1> QED
  BY <1>1, <1>2, <1>3, <1>4

LEMMA InitHolds == Init => IInv
<1> SUFFICES ASSUME Init
             PROVE  IInv
  OBVIOUS
<1>1. CASE Unconfigured
  <2>1. store = NoConfig /\ files = Certificate("none", 0) /\ spent \in Account
    BY <1>1, SetupAssumption DEF Unconfigured, Account
  <2>2. files \in [cert : Halves, key : Halves]
    BY <2>1, SetupAssumption, PairsTyped
  <2>3. Typed
    BY <2>1, <2>2, Values DEF Init, Typed, TypeOK, Exposure
  <2>4. Working
    BY <2>1, Values DEF Init, Working, HandedOver, Selected
  <2> QED
    BY <2>3, <2>4 DEF IInv
<1>2. CASE Resumed
  <2>1. PICK n \in Net, mode \in {"self_signed", "manual"} \cup Enrolment :
          /\ store = [number |-> 1, net |-> n, mode |-> mode, host |-> 1, provisioned |-> FALSE]
          /\ files = Certificate(mode, 1)
    BY <1>2 DEF Resumed
  <2>2. spent \in Account /\ 1 \in 0 .. MaxConfigures
    BY <1>2, SetupAssumption DEF Resumed, Account
  <2>3. store \in Stored /\ files \in [cert : Halves, key : Halves]
    BY <2>1, <2>2, PairsTyped DEF Stored
  <2>4. Typed
    BY <2>2, <2>3, Values DEF Init, Typed, TypeOK, Exposure
  <2>5. ~Selected /\ ~HandedOver
    BY <2>1, Values DEF Init, Selected, HandedOver
  <2>6. Matching /\ store.host = store.number /\ ~store.provisioned
    BY <2>1 DEF Matching
  <2>7. Working
    BY <2>5, <2>6, Values DEF Init, Working
  <2> QED
    BY <2>4, <2>7 DEF IInv
<1> QED
  BY <1>1, <1>2 DEF Init

LEMMA StepHolds == IInv /\ [Next]_vars => IInv'
<1> SUFFICES ASSUME IInv, [Next]_vars
             PROVE  IInv'
  OBVIOUS
<1>1. ASSUME NEW c \in Conn, Acts(c)
      PROVE  IInv'
  <2>1. Typed /\ Typed'
    BY <1>1, TypedStep DEF IInv
  <2>2. ASSUME exposed' = {}
        PROVE  Working'
    <3>1. exposed = {}
      BY <1>1, <2>1, <2>2, StationTyped
    <3> QED
      BY <1>1, <2>1, <2>2, <3>1, WorkingStep DEF IInv
  <2> QED
    BY <2>1, <2>2 DEF IInv
<1> QED
  BY <1>1, Aside DEF Next, Acts

LEMMA IInvHolds == Spec => []IInv
BY InitHolds, StepHolds, PTL DEF Spec

-----------------------------------------------------------------------------
\* Unless something happens that the code does not cover, a device that is set up has its
\* application, and presents a pair that belongs together: the one its settings speak of, made
\* for the name it was given last, or one the owner has put there whole, file by file, which is
\* self-issued or not as the settings say (_validate_certificate_selection(),
\* mark_provisioned()).
THEOREM SetUpHolds ==
  ASSUME Exposure \subseteq Excused
  PROVE  Spec => []SetUp
<1>1. IInv => SetUp
  <2> SUFFICES ASSUME IInv
               PROVE  SetUp
    OBVIOUS
  <2>1. ASSUME Promised, store.provisioned
        PROVE  /\ app /\ store.host = store.number
               /\ \/ files = Certificate(store.mode, store.host)
                  \/ \E kind \in Alike(store.mode) : files = Certificate(kind, 0)
    <3>1. exposed = {}
      BY <2>1 DEF IInv, Typed, TypeOK, Promised
    <3> QED
      BY <2>1, <3>1 DEF IInv, Working, Selected, Right
  <2> QED
    BY <2>1 DEF SetUp, LeavesWorking, IInv, Typed
<1> QED
  BY <1>1, IInvHolds, PTL

\* Unless something happens that the code does not cover, a device keeps what it needs to be
\* started, and its owner a way to the wizard: the password of the setup access point until
\* the device is provisioned, and the access point until the station has joined
\* (_complete_network_handover(), erase_bootstrap_key()).
THEOREM ReachableHolds ==
  ASSUME Exposure \subseteq Excused
  PROVE  Spec => []Reachable
<1>1. IInv => Reachable
  <2> SUFFICES ASSUME IInv, Promised
               PROVE  (store.provisioned \/ key) /\ (ap \/ station # Off)
    BY DEF Reachable, NotLockedOut, InTouch
  <2>1. Working
    BY DEF IInv, Typed, TypeOK, Promised
  <2> QED
    BY <2>1 DEF Working, HandedOver
<1> QED
  BY <1>1, IInvHolds, PTL

-----------------------------------------------------------------------------
(* The calibrated voltage                                                  *)

\* A product of natural numbers can be divided by either.
LEMMA ProductFacts ==
  ASSUME NEW n \in Nat, NEW d \in Nat \ {0}
  PROVE  /\ n * d \in Nat /\ n \in 0 .. n * d
         /\ (n * d) \div d = n /\ d \div d = 1
<1>1. n * d \in Nat /\ n * d >= n
  OBVIOUS
<1>2. (n * d) \div d = n
  OBVIOUS
<1>3. d \div d = 1
  OBVIOUS
<1> QED
  BY <1>1, <1>2, <1>3

\* The ratio of a multiple to what it is a multiple of is exact.
LEMMA RatioOfMultiple ==
  ASSUME NEW n \in Nat, NEW d \in Nat \ {0}
  PROVE  Ratio(n * d, d) = Exactly(n)
<1> DEFINE Great(g) == /\ Divides(g, n * d) /\ Divides(g, d)
                       /\ \A h \in g + 1 .. d : ~(Divides(h, n * d) /\ Divides(h, d))
<1>1. /\ n * d \in Nat /\ n \in 0 .. n * d
      /\ (n * d) \div d = n /\ d \div d = 1
  BY ProductFacts
<1>2. Divides(d, n * d) /\ Divides(d, d)
  <2>1. 1 \in 0 .. d /\ 1 * d = d
    OBVIOUS
  <2> QED
    BY <1>1, <2>1 DEF Divides
<1>3. d \in 1 .. d /\ Great(d)
  <2>1. d + 1 .. d = {}
    OBVIOUS
  <2> QED
    BY <1>2, <2>1
<1>4. \A g \in 1 .. d : Great(g) => g = d
  <2> SUFFICES ASSUME NEW g \in 1 .. d, Great(g), g # d PROVE FALSE
    OBVIOUS
  <2>1. d \in g + 1 .. d
    OBVIOUS
  <2> QED
    BY <1>2, <2>1
<1> HIDE DEF Great
<1>5. (CHOOSE g \in 1 .. d : Great(g)) = d
  BY <1>3, <1>4
<1>6. Ratio(n * d, d) = [num |-> (n * d) \div d, den |-> d \div d]
  BY <1>5 DEF Ratio, Great
<1> QED
  BY <1>1, <1>6 DEF Exactly

\* A whole number is its own ratio to one.
LEMMA RatioOfWhole == ASSUME NEW n \in Nat PROVE Ratio(n, 1) = Exactly(n)
<1>1. n * 1 = n /\ 1 \in Nat \ {0}
  OBVIOUS
<1> QED
  BY <1>1, RatioOfMultiple

\* What the sensor shows of volts read with the factor in force
Shows(present, volts) ==
  /\ volts >= Threshold /\ volts > Threshold - Hysteresis => present = "present"
  /\ volts <= Threshold - Hysteresis /\ volts < Threshold => present = "absent"

SensorTyped ==
  /\ level \in Nat /\ offset \in {0, 1} /\ taken.level \in Nat
  /\ sensor = [cal |-> sensor.cal, voltage |-> sensor.voltage, present |-> sensor.present,
               ok |-> sensor.ok]
  /\ sensor.present \in {"unknown", "present", "absent"}

\* Until an exposure the factor is the first or the true one, and saved; and the voltage, if
\* there is one, is that of a level by the factor it was read with.
MeasuredBy(m) ==
  /\ taken.cal = Exactly(m) /\ sensor.voltage = Exactly(m * taken.level + offset)
  /\ Shows(sensor.present, m * taken.level + offset)

VoltageInv ==
  /\ SensorTyped
  /\ AcPromised =>
       /\ sensor.cal = factor /\ factor \in {Exactly(Default), Exactly(Gain)}
       /\ trusted => factor = Exactly(Gain) /\ offset = 0
       /\ sensor.voltage # NotRead => \E m \in {Default, Gain} : MeasuredBy(m)

\* The constants are whole numbers.
LEMMA FactorFacts ==
  /\ Default \in Nat \ {0} /\ Gain \in Nat \ {0} /\ Threshold \in Nat
  /\ Hysteresis \in Nat /\ Hysteresis <= Threshold /\ Level \subseteq Nat
BY VoltageAssumption

\* An exact factor is a number, and no missing reading.
LEMMA ExactlyFacts ==
  ASSUME NEW n
  PROVE  Exactly(n).num = n /\ Exactly(n).den = 1 /\ Exactly(n) # NotRead
<1>1. Exactly(n).num = n /\ Exactly(n).den = 1 /\ NotRead.den = 0
  BY DEF Exactly, NotRead
<1> QED
  BY <1>1

\* The voltage of a level, by a factor that is a whole number
LEMMA VoltageFacts ==
  ASSUME NEW m \in Nat, NEW l \in Nat, offset \in {0, 1}
  PROVE  VoltageOf(Exactly(m), l) = Exactly(m * l + offset) /\ m * l + offset \in Nat
<1>1. m * l + offset \in Nat /\ m * l + offset * 1 = m * l + offset
  OBVIOUS
<1> QED
  BY <1>1, ExactlyFacts, RatioOfWhole DEF VoltageOf

\* What the threshold says of a whole voltage, and when it says another thing than before
LEMMA ThresholdFacts ==
  ASSUME NEW v \in Nat, sensor.present \in {"unknown", "present", "absent"}
  PROVE  /\ ThresholdValue(Exactly(v)) \in {"present", "absent"}
         /\ Shows(ThresholdValue(Exactly(v)), v)
         /\ (sensor.present # "unknown" /\ ThresholdValue(Exactly(v)) # sensor.present)
            => v >= Threshold \/ v <= Threshold - Hysteresis
<1>1. /\ AtLeast(Exactly(v), Threshold) <=> v >= Threshold
      /\ AtMost(Exactly(v), Threshold - Hysteresis) <=> v <= Threshold - Hysteresis
  BY ExactlyFacts, FactorFacts DEF AtLeast, AtMost
<1>2. CASE sensor.present = "present"
  BY <1>1, <1>2, FactorFacts DEF ThresholdValue, Shows
<1>3. CASE sensor.present # "present"
  BY <1>1, <1>3, FactorFacts DEF ThresholdValue, Shows
<1> QED
  BY <1>2, <1>3

\* A calibration by what the meter shows of the level that was read finds the true factor.
LEMMA CalibrationFinds ==
  ASSUME NEW m \in Nat, NEW l \in Nat, m * l > 0,
         sensor.cal = Exactly(m), sensor.voltage = Exactly(m * l)
  PROVE  Calibrated(Gain * l) = Exactly(Gain)
<1>1. m * l \in Nat \ {0} /\ Gain \in Nat
  BY FactorFacts
<1>2. sensor.cal.num * (Gain * l) * sensor.voltage.den = Gain * (m * l)
  <2>1. m * (Gain * l) * 1 = Gain * (m * l)
    BY <1>1
  <2> QED
    BY <2>1, ExactlyFacts
<1>3. sensor.cal.den * sensor.voltage.num = m * l
  BY <1>1, ExactlyFacts
<1>4. Calibrated(Gain * l) = Ratio(Gain * (m * l), m * l)
  BY <1>2, <1>3 DEF Calibrated
<1> QED
  BY <1>1, <1>4, RatioOfMultiple

\* What a step shows, when the invariant holds before and after it
SensorStep ==
  (AcPromised' /\ trusted' /\ UpToDate' /\ sensor'.present # sensor.present
     /\ sensor.present # "unknown")
  => (Volts' >= Threshold \/ Volts' <= Threshold - Hysteresis)

\* A calibration by the meter finds the factor; what was read before it stays as it was read.
LEMMA CalibrationKeeps ==
  ASSUME VoltageInv, Calibratable, NEW known \in Nat,
         sensor' = [sensor EXCEPT !.cal = Calibrated(known)], factor' = Calibrated(known),
         acExposed' = acExposed \cup CalibrationExposes(known),
         UNCHANGED <<level, offset, taken>>
  PROVE  VoltageInv' /\ SensorStep
<1>1. /\ sensor' = [cal |-> Calibrated(known), voltage |-> sensor.voltage,
                    present |-> sensor.present, ok |-> sensor.ok]
  BY DEF VoltageInv, SensorTyped
<1>2. /\ sensor'.cal = Calibrated(known) /\ sensor'.voltage = sensor.voltage
      /\ sensor'.present = sensor.present /\ sensor'.ok = sensor.ok
  BY <1>1
<1>3. SensorTyped'
  BY <1>1, <1>2 DEF VoltageInv, SensorTyped
<1>4. ASSUME AcPromised'
      PROVE  /\ factor' = Exactly(Gain) /\ offset = 0
             /\ sensor.voltage # NotRead => \E m \in {Default, Gain} : MeasuredBy(m)
  <2>1. /\ AcPromised /\ known = Gain * level /\ taken.level = level
        /\ taken.cal = sensor.cal /\ offset = 0
    BY <1>4 DEF AcPromised, CalibrationExposes
  <2>2. sensor.voltage.num > 0
    BY DEF Calibratable
  <2>3. sensor.voltage # NotRead
    <3>1. NotRead.num = 0
      BY DEF NotRead
    <3> QED
      BY <2>2, <3>1
  <2>4. PICK m \in {Default, Gain} : MeasuredBy(m)
    BY <2>1, <2>3 DEF VoltageInv
  <2>5. m \in Nat /\ level \in Nat
    BY FactorFacts DEF VoltageInv, SensorTyped
  <2>6. m * level \in Nat /\ m * level + offset = m * level
    BY <2>1, <2>5
  <2>7. sensor.cal = Exactly(m) /\ sensor.voltage = Exactly(m * level)
    BY <2>1, <2>4, <2>6 DEF MeasuredBy
  <2>8. m * level > 0
    BY <2>2, <2>7, ExactlyFacts
  <2>9. factor' = Exactly(Gain)
    BY <2>1, <2>5, <2>7, <2>8, CalibrationFinds
  <2> QED
    BY <2>1, <2>4, <2>9
<1>5. ASSUME AcPromised', sensor'.voltage # NotRead
      PROVE  \E m \in {Default, Gain} : MeasuredBy(m)'
  <2>1. PICK m \in {Default, Gain} : MeasuredBy(m)
    BY <1>2, <1>4, <1>5
  <2> QED
    BY <1>2, <2>1 DEF MeasuredBy
<1>6. VoltageInv'
  BY <1>2, <1>3, <1>4, <1>5 DEF VoltageInv
<1>7. SensorStep
  BY <1>2 DEF SensorStep
<1> QED
  BY <1>6, <1>7

\* A reading shows the level of its moment by the factor of its moment.
LEMMA MeasuringKeeps ==
  ASSUME VoltageInv, Measures
  PROVE  VoltageInv' /\ SensorStep
<1> DEFINE voltage == VoltageOf(sensor.cal, level)
<1>1. /\ sensor' = [cal |-> sensor.cal, voltage |-> voltage, present |-> ThresholdValue(voltage),
                    ok |-> TRUE]
  BY DEF VoltageInv, SensorTyped, Measures
<1> HIDE DEF voltage
<1>2. /\ sensor'.cal = sensor.cal /\ sensor'.voltage = voltage
      /\ sensor'.present = ThresholdValue(voltage) /\ sensor'.ok = TRUE
  BY <1>1
<1>3. /\ taken'.level = level /\ taken'.cal = sensor.cal
      /\ level' = level /\ offset' = offset /\ factor' = factor /\ trusted' = trusted
      /\ acExposed' = acExposed
  BY DEF Measures
<1>4. SensorTyped'
  <2>1. ThresholdValue(voltage) \in {"present", "absent"}
    BY DEF ThresholdValue
  <2> QED
    BY <1>1, <1>2, <1>3, <2>1 DEF VoltageInv, SensorTyped
<1>5. ASSUME AcPromised'
      PROVE  \E m \in {Default, Gain} :
               /\ sensor.cal = Exactly(m) /\ m * level + offset \in Nat
               /\ voltage = Exactly(m * level + offset)
               /\ Shows(ThresholdValue(voltage), m * level + offset)
               /\ (sensor.present # "unknown" /\ ThresholdValue(voltage) # sensor.present)
                  => \/ m * level + offset >= Threshold
                     \/ m * level + offset <= Threshold - Hysteresis
  <2>1. PICK m \in {Default, Gain} : sensor.cal = Exactly(m)
    BY <1>3, <1>5 DEF VoltageInv, AcPromised
  <2>2. /\ m \in Nat /\ level \in Nat /\ offset \in {0, 1}
        /\ sensor.present \in {"unknown", "present", "absent"}
    BY FactorFacts DEF VoltageInv, SensorTyped
  <2>3. voltage = Exactly(m * level + offset) /\ m * level + offset \in Nat
    BY <2>1, <2>2, VoltageFacts DEF voltage
  <2>4. PICK v \in Nat : v = m * level + offset
    BY <2>3
  <2>5. /\ Shows(ThresholdValue(voltage), v)
        /\ (sensor.present # "unknown" /\ ThresholdValue(voltage) # sensor.present)
           => v >= Threshold \/ v <= Threshold - Hysteresis
    BY <2>2, <2>3, <2>4, ThresholdFacts
  <2> QED
    BY <2>1, <2>3, <2>4, <2>5
<1>6. ASSUME AcPromised' PROVE \E m \in {Default, Gain} : MeasuredBy(m)'
  BY <1>2, <1>3, <1>5, <1>6 DEF MeasuredBy
<1>7. VoltageInv'
  BY <1>2, <1>3, <1>4, <1>6 DEF VoltageInv, AcPromised
<1>8. SensorStep
  <2> SUFFICES ASSUME AcPromised', trusted', sensor'.present # sensor.present,
                      sensor.present # "unknown"
               PROVE  Volts' >= Threshold \/ Volts' <= Threshold - Hysteresis
    BY DEF SensorStep
  <2>1. offset = 0 /\ sensor.cal = Exactly(Gain)
    BY <1>3 DEF VoltageInv, AcPromised
  <2>2. PICK m \in {Default, Gain} :
          /\ sensor.cal = Exactly(m)
          /\ m * level + offset >= Threshold \/ m * level + offset <= Threshold - Hysteresis
    BY <1>2, <1>5
  <2>3. m = Gain
    BY <2>1, <2>2, ExactlyFacts
  <2>4. Gain * level + offset = Gain * level
    BY <2>1, FactorFacts DEF VoltageInv, SensorTyped
  <2> QED
    BY <1>3, <2>2, <2>3, <2>4 DEF Volts
<1> QED
  BY <1>7, <1>8

\* One step per operation keeps the invariant, and changes presence beyond the threshold only.
LEMMA VoltageNext ==
  ASSUME VoltageInv, [AcNext]_acVars
  PROVE  VoltageInv' /\ SensorStep
<1>1. CASE Moves
  <2>1. level' \in Nat /\ UNCHANGED <<offset, sensor, factor, taken, trusted, acExposed>>
    BY <1>1, FactorFacts DEF Moves
  <2> QED
    BY <2>1 DEF VoltageInv, SensorTyped, MeasuredBy, AcPromised, SensorStep
<1>2. CASE Measures
  BY <1>2, MeasuringKeeps
<1>3. CASE MeasureFails
  <2>1. /\ sensor' = [cal |-> sensor.cal, voltage |-> sensor.voltage,
                      present |-> sensor.present, ok |-> FALSE]
        /\ UNCHANGED <<level, offset, factor, taken, trusted, acExposed>>
    BY <1>3 DEF MeasureFails, VoltageInv, SensorTyped
  <2>2. /\ sensor'.cal = sensor.cal /\ sensor'.voltage = sensor.voltage
        /\ sensor'.present = sensor.present /\ sensor'.ok = FALSE
    BY <2>1
  <2> QED
    BY <2>1, <2>2 DEF VoltageInv, SensorTyped, MeasuredBy, AcPromised, SensorStep
<1>4. CASE AcRestarts
  <2>1. /\ sensor' = [cal |-> factor, voltage |-> NotRead, present |-> "unknown", ok |-> TRUE]
        /\ UNCHANGED <<level, offset, factor, taken, trusted, acExposed>>
    BY <1>4 DEF AcRestarts, Started
  <2>2. /\ sensor'.cal = factor /\ sensor'.voltage = NotRead
        /\ sensor'.present = "unknown" /\ sensor'.ok = TRUE
    BY <2>1
  <2> QED
    BY <2>1, <2>2 DEF VoltageInv, SensorTyped, MeasuredBy, AcPromised, SensorStep, UpToDate
<1>5. CASE PortalCalibrates
  <2>1. PICK known \in Known :
          /\ Calibratable
          /\ factor' = Calibrated(known) /\ sensor' = [sensor EXCEPT !.cal = Calibrated(known)]
          /\ acExposed' = acExposed \cup CalibrationExposes(known)
          /\ UNCHANGED <<level, offset, taken>>
    BY <1>5 DEF PortalCalibrates
  <2>2. known \in Nat
    <3>1. level \in Nat /\ Gain \in Nat
      BY FactorFacts DEF VoltageInv, SensorTyped
    <3> QED
      BY <3>1 DEF Known
  <2> QED
    BY <2>1, <2>2, CalibrationKeeps
<1>6. CASE SaveFails
  BY <1>6 DEF SaveFails, VoltageInv, SensorTyped, MeasuredBy, AcPromised, SensorStep
<1>7. CASE CommandCalibrates
  <2>1. /\ sensor' = [cal |-> Calibrated(Gain * level), voltage |-> sensor.voltage,
                      present |-> sensor.present, ok |-> sensor.ok]
        /\ UNCHANGED <<level, offset, factor, taken>>
        /\ ~AcPromised'
    BY <1>7 DEF CommandCalibrates, VoltageInv, SensorTyped, AcPromised
  <2>2. sensor'.present = sensor.present /\ sensor'.voltage = sensor.voltage
        /\ sensor'.cal = Calibrated(Gain * level) /\ sensor'.ok = sensor.ok
    BY <2>1
  <2> QED
    BY <2>1, <2>2 DEF VoltageInv, SensorTyped, SensorStep
<1>8. CASE EditorOpens
  BY <1>8 DEF EditorOpens, VoltageInv, SensorTyped, MeasuredBy, AcPromised, SensorStep
<1>9. CASE EditorSaves
  <2>1. UNCHANGED <<level, offset, sensor, taken, trusted>>
    BY <1>9 DEF EditorSaves
  <2>2. AcPromised' => AcPromised /\ factor' = factor
    BY <1>9 DEF EditorSaves, AcPromised
  <2> QED
    BY <2>1, <2>2 DEF VoltageInv, SensorTyped, MeasuredBy, SensorStep
<1>10. CASE UNCHANGED acVars
  BY <1>10 DEF acVars, VoltageInv, SensorTyped, MeasuredBy, AcPromised, SensorStep
<1> QED
  BY <1>1, <1>2, <1>3, <1>4, <1>5, <1>6, <1>7, <1>8, <1>9, <1>10 DEF AcNext

\* Without a calibration the factor is the default one.
LEMMA VoltageBegins ==
  ASSUME AcInit
  PROVE  VoltageInv
<1>1. /\ level \in Nat /\ offset \in {0, 1} /\ taken.level = level
      /\ factor = Exactly(Default) /\ trusted = FALSE
      /\ sensor = [cal |-> factor, voltage |-> NotRead, present |-> "unknown", ok |-> TRUE]
  BY FactorFacts DEF AcInit, Started
<1>2. /\ sensor.cal = factor /\ sensor.voltage = NotRead /\ sensor.present = "unknown"
      /\ sensor.ok = TRUE
  BY <1>1
<1> QED
  BY <1>1, <1>2 DEF VoltageInv, SensorTyped

\* While nothing is exposed the factor in force is the saved one, whatever failed, was edited or
\* was restarted; a calibration finds the true one for every level, and the presence that is
\* published is then that of the mains, for any threshold and any hysteresis.
THEOREM VoltageHoldsThroughout == AcSpec => VoltageHolds
<1>1. AcInit => VoltageInv
  BY VoltageBegins
<1>2. VoltageInv /\ [AcNext]_acVars => VoltageInv' /\ SensorStep
  BY VoltageNext
<1> DEFINE A ==
      AcPromised' =>
       /\ sensor'.cal = factor'
       /\ trusted' =>
            /\ sensor'.cal = Exactly(Gain)
            /\ UpToDate' => /\ Volts' >= Threshold /\ Volts' > Threshold - Hysteresis
                               => sensor'.present = "present"
                            /\ Volts' <= Threshold - Hysteresis /\ Volts' < Threshold
                               => sensor'.present = "absent"
            /\ (/\ UpToDate' /\ sensor'.present # sensor.present /\ sensor.present # "unknown"
                /\ taken.cal = sensor.cal)
               => (Volts' >= Threshold \/ Volts' <= Threshold - Hysteresis)
<1>3. VoltageInv' /\ SensorStep => A
  <2> SUFFICES ASSUME VoltageInv', SensorStep, AcPromised' PROVE A
    OBVIOUS
  <2>1. sensor'.cal = factor' /\ (trusted' => sensor'.cal = Exactly(Gain) /\ offset' = 0)
    BY DEF VoltageInv
  <2>2. ASSUME trusted', UpToDate' PROVE Shows(sensor'.present, Volts')
    <3>1. /\ sensor'.voltage # NotRead /\ taken'.level = level' /\ taken'.cal = sensor'.cal
      BY <2>2 DEF UpToDate
    <3>2. PICK m \in {Default, Gain} : MeasuredBy(m)'
      BY <3>1 DEF VoltageInv
    <3>3. taken'.cal = Exactly(m) /\ Shows(sensor'.present, m * taken'.level + offset')
      BY <3>2 DEF MeasuredBy
    <3>4. m = Gain
      BY <2>1, <2>2, <3>1, <3>3, ExactlyFacts
    <3>5. Gain * level' + offset' = Gain * level'
      BY <2>1, <2>2, FactorFacts DEF VoltageInv, SensorTyped
    <3> QED
      BY <3>1, <3>3, <3>4, <3>5 DEF Volts
  <2> QED
    BY <2>1, <2>2 DEF Shows, SensorStep
<1> QED
  BY <1>1, <1>2, <1>3, PTL DEF AcSpec, VoltageHolds

-----------------------------------------------------------------------------
(* Division, for the clock of the intervals                                *)

\* A remainder is found by any division that leaves it.
LEMMA ModFacts ==
  ASSUME NEW x \in Int, NEW q \in Int, NEW p \in Nat \ {0}, NEW r \in Nat, r < p,
         x = q * p + r
  PROVE  x % p = r
OBVIOUS

\* The quotient and the remainder by a positive number
LEMMA QuotientFacts ==
  ASSUME NEW x \in Int, NEW p \in Int, p > 0, NEW d, d = x \div p, NEW m, m = x % p
  PROVE  d \in Int /\ m \in Int /\ 0 <= m /\ m < p /\ x = p * d + m
OBVIOUS

\* There is such a division.
LEMMA DivFacts ==
  ASSUME NEW x \in Int, NEW p \in Nat \ {0}
  PROVE  \E q \in Int, r \in Nat : r < p /\ x = q * p + r /\ x % p = r
<1>1. PICK d : d = x \div p
  OBVIOUS
<1>2. PICK m : m = x % p
  OBVIOUS
<1>3. d \in Int /\ m \in Int /\ 0 <= m /\ m < p /\ x = p * d + m
  BY <1>1, <1>2, QuotientFacts
<1>4. x = d * p + m /\ m \in Nat
  BY <1>3
<1> QED
  BY <1>2, <1>3, <1>4

\* The ticks between two readings of the clock that are less than half its period apart
LEMMA TicksDiffFacts ==
  ASSUME NEW a \in Nat, NEW s \in Nat, s < Period \div 2
  PROVE  TicksDiff((a + s) % Period, a % Period) = s
<1> DEFINE H == Period \div 2
<1>1. /\ Period \in Nat \ {0} /\ H \in Nat /\ Period = H + H
  BY WhesAssumption
<1> HIDE DEF H
<1>2. PICK q \in Int, r \in Nat : r < Period /\ a = q * Period + r /\ a % Period = r
  BY <1>1, DivFacts
<1>3. CASE r + s < Period
  <2>1. a + s = q * Period + (r + s) /\ a + s \in Int /\ r + s \in Nat
    BY <1>1, <1>2
  <2>2. (a + s) % Period = r + s
    BY <1>1, <1>3, <2>1, ModFacts
  <2>3. (r + s) - r + H = 0 * Period + (s + H) /\ s + H \in Nat /\ s + H < Period
    BY <1>1 DEF H
  <2>4. ((r + s) - r + H) % Period = s + H
    BY <1>1, <2>3, ModFacts
  <2> QED
    BY <1>1, <1>2, <2>2, <2>4 DEF TicksDiff, H
<1>4. CASE ~(r + s < Period)
  <2>1. /\ a + s = (q + 1) * Period + (r + s - Period) /\ a + s \in Int /\ q + 1 \in Int
        /\ r + s - Period \in Nat /\ r + s - Period < Period
    BY <1>1, <1>2, <1>4 DEF H
  <2>2. (a + s) % Period = r + s - Period
    BY <1>1, <2>1, ModFacts
  <2>3. /\ (r + s - Period) - r + H = (-1) * Period + (s + H) /\ s + H \in Nat
        /\ s + H < Period /\ (r + s - Period) - r + H \in Int /\ -1 \in Int
    BY <1>1 DEF H
  <2>4. ((r + s - Period) - r + H) % Period = s + H
    BY <1>1, <2>3, ModFacts
  <2> QED
    BY <1>1, <1>2, <2>2, <2>4 DEF TicksDiff, H
<1> QED
  BY <1>3, <1>4

-----------------------------------------------------------------------------
(* The energies of the inverter driver                                     *)

Energies == [Kind -> Nat]

\* What is used and what is read have their types.
Reading ==
  /\ actual \in Power /\ tick \in Nat /\ day \in Days /\ day # 0
  /\ register \in [pv : Int, grid : Int]
  /\ round.at \in 1 .. 3
  /\ totals \in Energies /\ least \in Energies /\ most \in Energies
  /\ seen.ticks \in Nat /\ seen.ticks <= tick /\ since.ticks \in Nat
  /\ seen.powers \subseteq Power /\ actual \in seen.powers

\* Of the powers since the last publication there is one with the least flow of each kind, and
\* one with the greatest.
Extremes ==
  \A kind \in Kind :
    /\ \E p \in seen.powers : \A q \in seen.powers : Flow(p)[kind] <= Flow(q)[kind]
    /\ \E p \in seen.powers : \A q \in seen.powers : Flow(q)[kind] <= Flow(p)[kind]

\* A round in which nothing went wrong has read one power.
OnePower ==
  round.faults = {} =>
    \/ round.at = 1 /\ round.powers = {}
    \/ \E p \in Power : /\ round.powers = {p} /\ register.pv = p.pv
                        /\ round.at = 3 => register.grid = Grid(p)

\* Until the first publication of a day nothing counts; from then on the energies lie between
\* the extremes, and the interval began where the history of the powers does.
Adding ==
  IF NewDay
  THEN \A kind \in Kind : least[kind] = 0
  ELSE /\ \A kind \in Kind : least[kind] <= totals[kind] /\ totals[kind] <= most[kind]
       /\ round.powers \subseteq seen.powers
       /\ since.ticks = (tick - seen.ticks) % Period

EnergyInv == Reading /\ Extremes /\ (WhesPromised => OnePower /\ Adding)

\* A flow is a natural number, and the one that is computed from what was read of one power.
LEMMA FlowFacts ==
  ASSUME NEW p \in Power, NEW kind \in Kind
  PROVE  /\ Flow(p)[kind] \in Nat
         /\ p.pv \in Nat /\ p.load \in Nat /\ Grid(p) \in Int
<1>1. p.pv \in Nat /\ p.load \in Nat
  BY WhesAssumption
<1>2. Grid(p) \in Int
  BY <1>1 DEF Grid
<1>3. \A n \in Int : Positive(n) \in Nat
  BY DEF Positive
<1>4. /\ p.pv \in Int /\ p.pv + Grid(p) \in Int /\ -Grid(p) \in Int
  BY <1>1, <1>2
<1>5. /\ Positive(p.pv) \in Nat /\ Positive(p.pv + Grid(p)) \in Nat
      /\ Positive(Grid(p)) \in Nat /\ Positive(-Grid(p)) \in Nat
  BY <1>2, <1>3, <1>4
<1>6. Flow(p)[kind] \in {Positive(p.pv), Positive(p.pv + Grid(p)), Positive(Grid(p)),
                         Positive(-Grid(p))}
  BY DEF Flow, Calculated, Kind
<1> QED
  BY <1>1, <1>2, <1>5, <1>6

\* A new interval has one power.
LEMMA AfreshFacts ==
  ASSUME actual \in Power, tick \in Nat, actual' = actual, seen' = Afresh, tick' = tick
  PROVE  /\ seen'.ticks \in Nat /\ seen'.ticks <= tick' /\ seen'.ticks = 0
         /\ seen'.powers \subseteq Power /\ actual' \in seen'.powers
         /\ seen'.powers = {actual}
         /\ Extremes'
<1>1. seen'.ticks = 0 /\ seen'.powers = {actual}
  BY DEF Afresh
<1>2. Extremes'
  <2>1. SUFFICES ASSUME NEW kind \in Kind
                 PROVE  /\ \E p \in seen'.powers : \A q \in seen'.powers :
                              Flow(p)[kind] <= Flow(q)[kind]
                        /\ \E p \in seen'.powers : \A q \in seen'.powers :
                              Flow(q)[kind] <= Flow(p)[kind]
    BY DEF Extremes
  <2>2. Flow(actual)[kind] <= Flow(actual)[kind]
    BY FlowFacts
  <2> QED
    BY <1>1, <2>2
<1> QED
  BY <1>1, <1>2

\* In the beginning nothing counts.
LEMMA EnergyBegins == WhesInit => EnergyInv
<1> SUFFICES ASSUME WhesInit PROVE EnergyInv
  OBVIOUS
<1> USE DEF WhesInit
<1>1. Reading
  BY WhesAssumption DEF Reading, Resting, Nothing, Energies, Never
<1>2. Extremes
  <2>1. \A kind \in Kind : Flow(actual)[kind] <= Flow(actual)[kind]
    BY FlowFacts
  <2> QED
    BY <2>1 DEF Extremes
<1>3. OnePower
  BY DEF OnePower, Resting
<1>4. Adding
  BY <1>1 DEF Adding, NewDay, Never, Nothing, Reading
<1> QED
  BY <1>1, <1>2, <1>3, <1>4 DEF EnergyInv

\* The extremes of the powers that are seen stay when none is added.
LEMMA ElapsesKeeps == EnergyInv /\ Elapses => EnergyInv'
<1> SUFFICES ASSUME EnergyInv, Elapses PROVE EnergyInv'
  OBVIOUS
<1> USE DEF EnergyInv, Elapses
<1>1. Reading'
  BY DEF Reading
<1>2. Extremes'
  BY DEF Extremes
<1>3. WhesPromised => OnePower'
  BY DEF OnePower
<1>4. WhesPromised => Adding'
  <2>1. tick' - seen'.ticks = tick - seen.ticks
    BY DEF Reading
  <2>2. NewDay' <=> NewDay
    BY DEF NewDay
  <2> QED
    BY <2>1, <2>2 DEF Adding
<1>5. WhesPromised' <=> WhesPromised
  BY DEF WhesPromised
<1> QED
  BY <1>1, <1>2, <1>3, <1>4, <1>5

\* Another power may be the least or the greatest.
LEMMA SwitchesKeeps == EnergyInv /\ Switches => EnergyInv'
<1> SUFFICES ASSUME EnergyInv, Switches PROVE EnergyInv'
  OBVIOUS
<1> USE DEF EnergyInv, Switches
<1>1. Reading'
  BY DEF Reading
<1>2. Extremes'
  <2>1. SUFFICES ASSUME NEW kind \in Kind
                 PROVE  /\ \E p \in seen'.powers : \A q \in seen'.powers :
                              Flow(p)[kind] <= Flow(q)[kind]
                        /\ \E p \in seen'.powers : \A q \in seen'.powers :
                              Flow(q)[kind] <= Flow(p)[kind]
    BY DEF Extremes
  <2>2. PICK low \in seen.powers : \A q \in seen.powers : Flow(low)[kind] <= Flow(q)[kind]
    BY <2>1 DEF Extremes
  <2>3. PICK high \in seen.powers : \A q \in seen.powers : Flow(q)[kind] <= Flow(high)[kind]
    BY <2>1 DEF Extremes
  <2>4. /\ \A q \in seen'.powers : Flow(q)[kind] \in Nat
        /\ seen'.powers = seen.powers \cup {actual'}
    BY <1>1, FlowFacts DEF Reading
  <2>5. \E p \in seen'.powers : \A q \in seen'.powers : Flow(p)[kind] <= Flow(q)[kind]
    <3>1. CASE Flow(low)[kind] <= Flow(actual')[kind]
      BY <2>2, <2>4, <3>1
    <3>2. CASE ~(Flow(low)[kind] <= Flow(actual')[kind])
      BY <2>2, <2>4, <3>2
    <3> QED
      BY <3>1, <3>2
  <2>6. \E p \in seen'.powers : \A q \in seen'.powers : Flow(q)[kind] <= Flow(p)[kind]
    <3>1. CASE Flow(actual')[kind] <= Flow(high)[kind]
      BY <2>3, <2>4, <3>1
    <3>2. CASE ~(Flow(actual')[kind] <= Flow(high)[kind])
      BY <2>3, <2>4, <3>2
    <3> QED
      BY <3>1, <3>2
  <2> QED
    BY <2>5, <2>6
<1>3. WhesPromised => OnePower'
  BY DEF OnePower
<1>4. WhesPromised => Adding'
  <2>1. NewDay' <=> NewDay
    BY DEF NewDay
  <2> QED
    BY <2>1 DEF Adding
<1>5. WhesPromised' <=> WhesPromised
  BY DEF WhesPromised
<1> QED
  BY <1>1, <1>2, <1>3, <1>4, <1>5

\* Another day: the interval that began on the one before will not count.
LEMMA DayChangesKeeps == EnergyInv /\ DayChanges => EnergyInv'
<1> SUFFICES ASSUME EnergyInv, DayChanges PROVE EnergyInv'
  OBVIOUS
<1> USE DEF EnergyInv, DayChanges
<1>1. Extremes'
  BY AfreshFacts DEF Reading
<1>2. Reading'
  BY AfreshFacts, WhesAssumption DEF Reading, Energies, Nothing
<1>3. WhesPromised' => WhesPromised /\ OnePower'
  BY DEF OnePower, WhesPromised
<1>4. WhesPromised' => Adding'
  <2>1. SUFFICES ASSUME WhesPromised' PROVE Adding'
    OBVIOUS
  <2>2. NewDay'
    BY <2>1 DEF WhesPromised, NewDay
  <2> QED
    BY <2>2 DEF Adding, Nothing
<1> QED
  BY <1>1, <1>2, <1>3, <1>4

\* After a restart nothing counts.
LEMMA RestartKeeps == EnergyInv /\ WhesRestarts => EnergyInv'
<1> SUFFICES ASSUME EnergyInv, WhesRestarts PROVE EnergyInv'
  OBVIOUS
<1> USE DEF EnergyInv, WhesRestarts
<1>1. Extremes'
  BY AfreshFacts DEF Reading
<1>2. Reading'
  BY AfreshFacts DEF Reading, Energies, Nothing, Resting, Never
<1>3. OnePower'
  BY DEF OnePower, Resting
<1>4. Adding'
  BY <1>2 DEF Adding, NewDay, Never, Nothing, Reading
<1> QED
  BY <1>1, <1>2, <1>3, <1>4

\* Reading a group: what was read of one power stays that, or something went wrong.
LEMMA GroupFacts ==
  ASSUME ~AllRead, round.at \in 1 .. 3
  PROVE  \/ round.at = 1 /\ Groups[round.at] = "pv"
         \/ round.at = 2 /\ Groups[round.at] = "grid"
<1>1. Len(Groups) = 2 /\ Groups[1] = "pv" /\ Groups[2] = "grid"
  BY DEF Groups
<1> QED
  BY <1>1 DEF AllRead

\* What the three ways to read a group share
Reads(group, fault) ==
  /\ ~AllRead /\ group = Groups[round.at]
  /\ \E changed : round' = After(changed, fault)
  /\ register' \in [pv : Int, grid : Int]
  /\ register' = [register EXCEPT ![group] = register'[group]]
  /\ fault = {} => register'[group] = Measured(group)
  /\ UNCHANGED <<actual, tick, day, totals, since, seen, least, most, whesExposed>>

\* A group that is read, or that fails, keeps the round of one power or spoils it.
LEMMA ReadsKeeps ==
  ASSUME EnergyInv, NEW group, NEW fault, Reads(group, fault)
  PROVE  EnergyInv'
<1> USE DEF EnergyInv, Reads
<1>1. PICK changed : round' = After(changed, fault)
  OBVIOUS
<1>2. \/ round.at = 1 /\ group = "pv"
      \/ round.at = 2 /\ group = "grid"
  BY GroupFacts DEF Reading
<1>3. /\ round'.at = round.at + 1 /\ round'.powers = round.powers \cup {actual}
      /\ round'.faults = {} =>
           round.faults = {} /\ fault = {} /\ round.powers \subseteq {actual}
  BY <1>1 DEF After
<1>4. Reading'
  BY <1>2, <1>3 DEF Reading
<1>5. Extremes'
  BY DEF Extremes
<1>6. WhesPromised' <=> WhesPromised
  BY DEF WhesPromised
<1>7. ASSUME WhesPromised
      PROVE  OnePower'
  <2>1. SUFFICES ASSUME round'.faults = {}
                 PROVE  \E p \in Power :
                          /\ round'.powers = {p} /\ register'.pv = p.pv
                          /\ round'.at = 3 => register'.grid = Grid(p)
    BY DEF OnePower
  <2>2. round.faults = {} /\ fault = {} /\ round.powers \subseteq {actual}
    BY <1>3, <2>1
  <2>3. round'.powers = {actual} /\ actual \in Power
    BY <1>3, <2>2 DEF Reading
  <2>4. register'[group] = Measured(group)
    BY <2>2
  <2>5. CASE round.at = 1 /\ group = "pv"
    BY <1>3, <2>3, <2>4, <2>5 DEF Measured
  <2>6. CASE round.at = 2 /\ group = "grid"
    <3>1. PICK p \in Power : round.powers = {p} /\ register.pv = p.pv
      BY <1>7, <2>2, <2>6 DEF OnePower
    <3>2. p = actual
      BY <2>2, <3>1
    <3>3. register'.pv = register.pv /\ register'.grid = Grid(actual)
      BY <2>4, <2>6 DEF Measured, Reading
    <3> QED
      BY <2>3, <3>1, <3>2, <3>3
  <2> QED
    BY <1>2, <2>5, <2>6
<1>8. ASSUME WhesPromised
      PROVE  Adding'
  <2>1. NewDay' <=> NewDay
    BY DEF NewDay
  <2>2. round.powers \subseteq seen.powers => round'.powers \subseteq seen'.powers
    BY <1>3 DEF Reading
  <2> QED
    BY <1>8, <2>1, <2>2 DEF Adding
<1> QED
  BY <1>4, <1>5, <1>6, <1>7, <1>8

\* What is read of a group is a number, of either sign.
LEMMA MeasuredFacts ==
  ASSUME Reading, NEW group \in {"pv", "grid"}
  PROVE  /\ Measured(group) \in Int
         /\ \A v \in Int : [register EXCEPT ![group] = v] \in [pv : Int, grid : Int]
<1>1. actual.pv \in Nat /\ Grid(actual) \in Int
  <2>1. actual \in [pv : Nat, load : Nat]
    BY WhesAssumption DEF Reading
  <2> QED
    BY <2>1 DEF Grid
<1> QED
  BY <1>1 DEF Measured, Reading

\* The three ways to read a group are readings of that kind.
LEMMA ReadingKeeps == EnergyInv /\ (Answers \/ TimesOut \/ ReadFails) => EnergyInv'
<1> SUFFICES ASSUME EnergyInv, Answers \/ TimesOut \/ ReadFails PROVE EnergyInv'
  OBVIOUS
<1> DEFINE group == Groups[round.at]
<1>1. ~AllRead
  BY DEF Answers, TimesOut, ReadFails
<1>2. group \in {"pv", "grid"}
  BY <1>1, GroupFacts DEF EnergyInv, Reading
<1>3. register \in [pv : Int, grid : Int]
  BY DEF EnergyInv, Reading
<1>4. /\ Measured(group) \in Int
      /\ \A v \in Int : [register EXCEPT ![group] = v] \in [pv : Int, grid : Int]
  BY <1>2, MeasuredFacts DEF EnergyInv
<1>5. CASE Answers
  <2>1. Reads(group, {})
    BY <1>1, <1>2, <1>3, <1>4, <1>5 DEF Answers, Reads
  <2> QED
    BY <2>1, ReadsKeeps
<1>6. CASE TimesOut
  <2>1. PICK fault : fault = IF Measured(group) # 0 THEN {"zeroed"} ELSE {}
    OBVIOUS
  <2>2. register' = [register EXCEPT ![group] = 0] /\ round' = After(TRUE, fault)
    BY <1>6, <2>1 DEF TimesOut
  <2>3. register' \in [pv : Int, grid : Int] /\ register'[group] = 0
    BY <1>2, <1>3, <1>4, <2>2
  <2>4. fault = {} => register'[group] = Measured(group)
    BY <2>1, <2>3
  <2>5. Reads(group, fault)
    BY <1>1, <1>3, <1>6, <2>2, <2>3, <2>4 DEF TimesOut, Reads
  <2> QED
    BY <2>5, ReadsKeeps
<1>7. CASE ReadFails
  <2>1. Reads(group, IF Measured(group) # register[group] THEN {"stale"} ELSE {})
    BY <1>1, <1>2, <1>3, <1>4, <1>7 DEF ReadFails, Reads
  <2> QED
    BY <2>1, ReadsKeeps
<1> QED
  BY <1>5, <1>6, <1>7

\* A round in which nothing was read is forgotten.
LEMMA RestingKeeps == EnergyInv /\ PublishesNothing => EnergyInv'
<1> SUFFICES ASSUME EnergyInv, PublishesNothing PROVE EnergyInv'
  OBVIOUS
<1> USE DEF EnergyInv, PublishesNothing
<1>1. Reading'
  BY DEF Reading, Resting
<1>2. Extremes'
  BY DEF Extremes
<1>3. OnePower'
  BY DEF OnePower, Resting
<1>4. WhesPromised => Adding'
  <2>1. NewDay' <=> NewDay
    BY DEF NewDay
  <2> QED
    BY <2>1 DEF Adding, Resting
<1>5. WhesPromised' <=> WhesPromised
  BY DEF WhesPromised
<1> QED
  BY <1>1, <1>2, <1>3, <1>4, <1>5

\* What has been used at least and at most
LEMMA FlowsFacts ==
  ASSUME EnergyInv, NEW kind \in Kind, NEW flows, flows = {Flow(p)[kind] : p \in seen.powers}
  PROVE  /\ Min(flows) \in Nat /\ Max(flows) \in Nat
         /\ \A p \in seen.powers : Min(flows) <= Flow(p)[kind] /\ Flow(p)[kind] <= Max(flows)
<1>1. \A p \in seen.powers : Flow(p)[kind] \in Nat
  BY FlowFacts DEF EnergyInv, Reading
<1>2. PICK low \in seen.powers : \A q \in seen.powers : Flow(low)[kind] <= Flow(q)[kind]
  BY DEF EnergyInv, Extremes
<1>3. PICK high \in seen.powers : \A q \in seen.powers : Flow(q)[kind] <= Flow(high)[kind]
  BY DEF EnergyInv, Extremes
<1>4. Min(flows) \in flows /\ \A x \in flows : Min(flows) <= x
  <2>1. \E m \in flows : \A x \in flows : m <= x
    BY <1>2
  <2> QED
    BY <2>1 DEF Min
<1>5. Max(flows) \in flows /\ \A x \in flows : x <= Max(flows)
  <2>1. \E m \in flows : \A x \in flows : m >= x
    BY <1>1, <1>3
  <2>2. Max(flows) \in flows /\ \A x \in flows : Max(flows) >= x
    BY <2>1 DEF Max
  <2> QED
    BY <1>1, <2>2
<1>6. Min(flows) \in Nat /\ Max(flows) \in Nat
  BY <1>1, <1>4, <1>5
<1> QED
  BY <1>4, <1>5, <1>6

\* What one power comes to in an interval lies between the extremes of the interval.
LEMMA ProductsFacts ==
  ASSUME NEW n \in Nat, NEW low \in Nat, NEW flow \in Nat, NEW high \in Nat,
         low <= flow, flow <= high
  PROVE  /\ n * low \in Nat /\ flow * n \in Nat /\ n * high \in Nat
         /\ n * low <= flow * n /\ flow * n <= n * high
OBVIOUS

\* The interval that is added is the one of the history.
LEMMA ElapsedFacts ==
  ASSUME EnergyInv, WhesPromised, ~NewDay, seen.ticks < Period \div 2
  PROVE  Positive(Elapsed) = seen.ticks
<1>1. PICK a \in Nat : a = tick - seen.ticks /\ tick = a + seen.ticks
  <2>1. tick \in Nat /\ seen.ticks \in Nat /\ seen.ticks <= tick
    BY DEF EnergyInv, Reading
  <2>2. tick - seen.ticks \in Nat /\ tick = (tick - seen.ticks) + seen.ticks
    BY <2>1
  <2> QED
    BY <2>2
<1>2. since.ticks = a % Period
  BY <1>1 DEF EnergyInv, Adding
<1>3. seen.ticks \in Nat
  BY DEF EnergyInv, Reading
<1>4. Elapsed = seen.ticks
  BY <1>1, <1>2, <1>3, TicksDiffFacts DEF Elapsed, Ticks
<1> QED
  BY <1>3, <1>4 DEF Positive

\* The interval is a number whatever the clock shows.
LEMMA ElapsedTypes ==
  ASSUME Reading
  PROVE  Elapsed \in Int /\ Ticks \in Nat
<1>1. Period \in Nat \ {0} /\ Period \div 2 \in Nat /\ tick \in Nat /\ since.ticks \in Nat
  BY WhesAssumption DEF Reading
<1>2. Ticks \in Nat
  BY <1>1 DEF Ticks
<1>3. PICK x : x = Ticks - since.ticks + Period \div 2
  OBVIOUS
<1>4. x \in Int /\ x % Period \in Int
  BY <1>1, <1>2, <1>3
<1>5. Elapsed = (x % Period) - Period \div 2
  BY <1>3 DEF Elapsed, TicksDiff
<1> QED
  BY <1>1, <1>2, <1>4, <1>5

\* An account of the day, of what a publication adds to it
LEMMA PublishingTotals ==
  ASSUME EnergyInv, Publishes, WhesPromised', NEW kind \in Kind
  PROVE  /\ totals'[kind] \in Nat /\ least'[kind] \in Nat /\ most'[kind] \in Nat
         /\ least'[kind] <= totals'[kind] /\ totals'[kind] <= most'[kind]
<1>1. PICK flows : flows = {Flow(p)[kind] : p \in seen.powers}
  OBVIOUS
<1>2. /\ Min(flows) \in Nat /\ Max(flows) \in Nat
      /\ \A p \in seen.powers : Min(flows) <= Flow(p)[kind] /\ Flow(p)[kind] <= Max(flows)
  BY <1>1, FlowsFacts
<1>3. /\ least'[kind] = least[kind] + (IF NewDay THEN 0 ELSE seen.ticks * Min(flows))
      /\ most'[kind] = most[kind] + seen.ticks * Max(flows)
  BY <1>1 DEF Publishes
<1>4. /\ least[kind] \in Nat /\ most[kind] \in Nat /\ totals[kind] \in Nat
      /\ seen.ticks \in Nat
  BY DEF EnergyInv, Reading, Energies
<1>5. WhesPromised /\ PublicationExposes = {}
  BY DEF Publishes, WhesPromised
<1>6. seen.ticks * Max(flows) \in Nat /\ seen.ticks * Min(flows) \in Nat
  BY <1>2, <1>4
<1>7. CASE NewDay
  <2>1. totals'[kind] = 0
    BY <1>7 DEF Publishes, UpdateTotals, Nothing
  <2>2. least[kind] = 0
    BY <1>5, <1>7 DEF EnergyInv, Adding
  <2> QED
    BY <1>3, <1>4, <1>6, <1>7, <2>1, <2>2
<1>8. CASE ~NewDay
  <2>1. round.faults = {} /\ seen.ticks < Period \div 2
    <3>1. Period \div 2 \in Nat
      BY WhesAssumption
    <3> QED
      BY <1>4, <1>5, <3>1 DEF PublicationExposes
  <2>2. Positive(Elapsed) = seen.ticks
    BY <1>5, <1>8, <2>1, ElapsedFacts
  <2>3. PICK p \in Power : round.powers = {p} /\ register.pv = p.pv /\ register.grid = Grid(p)
    <3>1. round.at = 3
      BY DEF Publishes, AllRead, Groups, EnergyInv, Reading
    <3> QED
      BY <1>5, <2>1, <3>1 DEF EnergyInv, OnePower
  <2>4. p \in seen.powers
    BY <1>5, <1>8, <2>3 DEF EnergyInv, Adding
  <2>5. Calculated(register)[kind] = Flow(p)[kind]
    BY <2>3 DEF Flow, Calculated
  <2>6. totals'[kind] = totals[kind] + Flow(p)[kind] * seen.ticks
    BY <1>8, <2>2, <2>5 DEF Publishes, UpdateTotals
  <2>7. /\ least[kind] <= totals[kind] /\ totals[kind] <= most[kind]
    BY <1>5, <1>8 DEF EnergyInv, Adding
  <2>8. PICK add : add = Flow(p)[kind] * seen.ticks
    OBVIOUS
  <2>9. PICK low : low = seen.ticks * Min(flows)
    OBVIOUS
  <2>10. PICK high : high = seen.ticks * Max(flows)
    OBVIOUS
  <2>11. low \in Nat /\ add \in Nat /\ high \in Nat /\ low <= add /\ add <= high
    BY <1>2, <1>4, <2>4, <2>8, <2>9, <2>10, FlowFacts, ProductsFacts
  <2>12. /\ totals'[kind] = totals[kind] + add /\ least'[kind] = least[kind] + low
         /\ most'[kind] = most[kind] + high
    BY <1>3, <1>8, <2>6, <2>8, <2>9, <2>10
  <2> QED
    BY <1>4, <2>7, <2>11, <2>12
<1> QED
  BY <1>7, <1>8

\* Whatever was read, the accounts stay natural numbers.
LEMMA PublishingTypes ==
  ASSUME EnergyInv, Publishes
  PROVE  totals' \in Energies /\ least' \in Energies /\ most' \in Energies
<1>1. /\ totals \in Energies /\ least \in Energies /\ most \in Energies /\ seen.ticks \in Nat
      /\ register \in [pv : Int, grid : Int]
  BY DEF EnergyInv, Reading
<1>2. \A kind \in Kind : Calculated(register)[kind] \in Nat
  <2>1. \A n \in Int : Positive(n) \in Nat
    BY DEF Positive
  <2>2. /\ register.pv \in Int /\ register.grid \in Int /\ register.pv + register.grid \in Int
        /\ -register.grid \in Int
    BY <1>1
  <2> QED
    BY <2>1, <2>2 DEF Calculated, Kind
<1>3. totals' \in Energies
  <2>1. CASE NewDay
    BY <2>1 DEF Publishes, UpdateTotals, Nothing, Energies
  <2>2. CASE ~NewDay
    <3>1. Elapsed \in Int
      BY ElapsedTypes DEF EnergyInv
    <3>2. PICK n : n = Positive(Elapsed)
      OBVIOUS
    <3> QED
      BY <1>1, <1>2, <2>2, <3>1, <3>2 DEF Publishes, UpdateTotals, Energies, Positive
  <2> QED
    BY <2>1, <2>2
<1>4. /\ least' = [kind \in Kind |-> least'[kind]] /\ most' = [kind \in Kind |-> most'[kind]]
  BY DEF Publishes
<1>5. ASSUME NEW kind \in Kind
      PROVE  least'[kind] \in Nat /\ most'[kind] \in Nat
  <2>1. PICK flows : flows = {Flow(p)[kind] : p \in seen.powers}
    OBVIOUS
  <2>2. Min(flows) \in Nat /\ Max(flows) \in Nat
    BY <1>5, <2>1, FlowsFacts
  <2>3. seen.ticks * Min(flows) \in Nat /\ seen.ticks * Max(flows) \in Nat
    BY <1>1, <2>2
  <2>4. /\ least'[kind] = least[kind] + (IF NewDay THEN 0 ELSE seen.ticks * Min(flows))
        /\ most'[kind] = most[kind] + seen.ticks * Max(flows)
    BY <1>5, <2>1 DEF Publishes
  <2>5. least[kind] \in Nat /\ most[kind] \in Nat
    BY <1>1, <1>5 DEF Energies
  <2> QED
    BY <2>3, <2>4, <2>5
<1> QED
  BY <1>3, <1>4, <1>5 DEF Energies

\* A publication adds what lies between the extremes, and begins a new interval.
LEMMA PublishesKeeps == EnergyInv /\ Publishes => EnergyInv'
<1> SUFFICES ASSUME EnergyInv, Publishes PROVE EnergyInv'
  OBVIOUS
<1>1. /\ actual \in Power /\ tick \in Nat /\ actual' = actual /\ seen' = Afresh /\ tick' = tick
      /\ round' = Resting /\ since' = [day |-> day, ticks |-> Ticks] /\ day' = day
  BY DEF EnergyInv, Reading, Publishes
<1>2. Extremes'
  BY <1>1, AfreshFacts
<1>3. Reading'
  <2>1. /\ seen'.ticks \in Nat /\ seen'.ticks <= tick' /\ seen'.powers \subseteq Power
        /\ actual' \in seen'.powers
    BY <1>1, AfreshFacts
  <2>2. since'.ticks \in Nat
    BY <1>1, ElapsedTypes DEF EnergyInv
  <2>3. totals' \in Energies /\ least' \in Energies /\ most' \in Energies
    BY PublishingTypes
  <2>4. /\ actual' \in Power /\ tick' \in Nat /\ day' \in Days /\ day' # 0
        /\ register' \in [pv : Int, grid : Int] /\ round'.at \in 1 .. 3
    BY <1>1 DEF EnergyInv, Reading, Publishes, Resting
  <2> QED
    BY <2>1, <2>2, <2>3, <2>4 DEF Reading
<1>4. OnePower'
  BY <1>1 DEF OnePower, Resting
<1>5. ASSUME WhesPromised'
      PROVE  Adding'
  <2>1. ~NewDay'
    BY <1>1 DEF NewDay
  <2>2. \A kind \in Kind : least'[kind] <= totals'[kind] /\ totals'[kind] <= most'[kind]
    BY <1>5, PublishingTotals
  <2>3. round'.powers \subseteq seen'.powers
    BY <1>1 DEF Resting
  <2>4. since'.ticks = (tick' - seen'.ticks) % Period
    <3>1. seen'.ticks = 0 /\ tick' - 0 = tick
      BY <1>1, AfreshFacts
    <3> QED
      BY <1>1, <3>1 DEF Ticks
  <2> QED
    BY <2>1, <2>2, <2>3, <2>4 DEF Adding
<1> QED
  BY <1>2, <1>3, <1>4, <1>5 DEF EnergyInv

\* The invariant is inductive.
THEOREM EnergyInductive == WhesSpec => []EnergyInv
<1>1. ASSUME EnergyInv, [WhesNext]_whesVars
      PROVE  EnergyInv'
  <2>1. CASE UNCHANGED whesVars
    BY <1>1, <2>1 DEF EnergyInv, whesVars, Reading, Extremes, OnePower, Adding, NewDay,
                      WhesPromised
  <2>2. CASE Elapses \/ Switches \/ DayChanges \/ WhesRestarts
    BY <1>1, <2>2, ElapsesKeeps, SwitchesKeeps, DayChangesKeeps, RestartKeeps
  <2>3. CASE Answers \/ TimesOut \/ ReadFails \/ PublishesNothing \/ Publishes
    BY <1>1, <2>3, ReadingKeeps, RestingKeeps, PublishesKeeps
  <2> QED
    BY <1>1, <2>1, <2>2, <2>3 DEF WhesNext
<1> QED
  BY <1>1, EnergyBegins, PTL DEF WhesSpec

\* The energies of the inverter that are published lie between what the installation used at
\* least and at most, whatever the powers, the period of the clock and the days.
THEOREM EnergyHoldsThroughout == WhesSpec => EnergyHolds
<1>1. ASSUME EnergyInv, [WhesNext]_whesVars
      PROVE  [(Publishes /\ WhesPromised') =>
                \A kind \in Kind : least'[kind] <= totals'[kind]
                                   /\ totals'[kind] <= most'[kind]]_whesVars
  BY <1>1, PublishingTotals
<1> QED
  BY <1>1, EnergyInductive, PTL DEF WhesSpec, EnergyHolds

-----------------------------------------------------------------------------
(* The heating bus                                                         *)

Parts == [of : Nat, part : {"head", "tail", "break", "cut"}]

\* What a driver has of the telegrams on the way
Contents == (buffer \o loop.chunk) \o uart
InHand == Numbers(buffer) \cup Numbers(loop.chunk) \cup Numbers(uart)

\* What has come of the last telegram
WhatCame ==
  IF sending THEN <<Part(Len(bus), "head")>>
  ELSE IF port.zero THEN Append(Whole(Len(bus)), Break) ELSE Whole(Len(bus))

\* A telegram that may be lost
Pardoned(n) == n \in hit \/ n - 1 \in hit

EmsTyped ==
  /\ bus \in Seq(Telegram) /\ sending \in BOOLEAN
  /\ port \in [irq : BOOLEAN, zero : BOOLEAN, silent : BOOLEAN] /\ (port.irq => port.zero)
  /\ uart \in Seq(Parts) /\ buffer \in Seq(Parts) /\ frames \in Seq(Seq(Parts))
  /\ breaks \in Seq(Nat)
  /\ loop \in [at : {"asleep", "reading", "read", "draining"}, chunk : Seq(Parts),
               swapped : BOOLEAN, changed : BOOLEAN]
  /\ hit \subseteq 1 .. Len(bus) /\ read \subseteq 1 .. Len(bus)
  /\ sending => Len(bus) >= 1

\* The breaks that wait are those of the last telegrams that are complete, and all but that of
\* the last telegram came late.
Late ==
  LET full == IF sending THEN Len(bus) - 1 ELSE Len(bus)
  IN  /\ ~port.irq => breaks = << >>
      /\ Len(breaks) <= full
      /\ \A i \in 1 .. Len(breaks) : /\ breaks[i] = full - Len(breaks) + i
                                     /\ breaks[i] < Len(bus) => breaks[i] \in hit

\* A telegram that nothing happened to finds the driver empty and comes whole; where something
\* happened, what is in hand is of telegrams that may be lost.
Coming ==
  /\ \A m \in InHand : m \in 1 .. Len(bus) /\ (m = Len(bus) \/ m \in hit)
  /\ loop.at = "reading" => loop.chunk # << >>
  /\ loop.at # "reading" => loop.chunk = << >> /\ ~loop.swapped
  /\ loop.swapped => port.irq /\ Pardoned(Len(bus))
  /\ port.irq /\ ~sending /\ breaks = << >> => Len(bus) \in hit \/ Contents = << >>
  /\ ~Pardoned(Len(bus)) =>
       \/ Contents = << >> /\ ~sending /\ breaks = << >>
       \/ /\ Contents = WhatCame /\ Len(bus) >= 1
          /\ port.irq /\ ~sending => breaks # << >>
  /\ ~port.irq /\ port.silent /\ sending => uart # << >> \/ loop.at = "reading"
  /\ loop.at = "read" => ~port.silent

\* A frame is a telegram or of telegrams that may be lost, and it is in order, or hit.
InOrder(a, i) ==
  /\ \A m \in read : m <= a
  /\ \A j \in 1 .. i - 1 : \A b \in 1 .. Len(bus) : frames[j] = Whole(b) => b <= a

Queued ==
  \A i \in 1 .. Len(frames) :
    /\ frames[i] # << >> /\ Numbers(frames[i]) \subseteq 1 .. Len(bus)
    /\ CrcOk(frames[i]) \/ \A m \in Numbers(frames[i]) : Pardoned(m)
    /\ \A a \in (1 .. Len(bus)) \ hit : frames[i] = Whole(a) => InOrder(a, i)

\* Every telegram is somewhere.
InFrames(n) == \E i \in 1 .. Len(frames) : n \in Numbers(frames[i])
Somewhere ==
  \A n \in Sent : n \in InHand \/ InFrames(n) \/ n \in read \/ n \in dropped \/ Pardoned(n)

Showing == shown = values \/ (loop.at = "draining" /\ loop.changed)

BusInv == EmsTyped /\ Late /\ Coming /\ Queued /\ Somewhere /\ ValuesAreReal /\ Showing

-----------------------------------------------------------------------------
\* The numbers of no parts, of one part, and of two sequences of parts
LEMMA NumbersFacts ==
  /\ Numbers(<< >>) = {}
  /\ \A p \in Parts : Numbers(<<p>>) = {p.of} \ {0}
  /\ \A s, t \in Seq(Parts) : Numbers(s \o t) = Numbers(s) \cup Numbers(t)
<1>1. Numbers(<< >>) = {}
  BY DEF Numbers, ToSet
<1>2. ASSUME NEW p \in Parts PROVE Numbers(<<p>>) = {p.of} \ {0}
  BY DEF Numbers, ToSet
<1>3. ASSUME NEW s \in Seq(Parts), NEW t \in Seq(Parts)
      PROVE  Numbers(s \o t) = Numbers(s) \cup Numbers(t)
  <2>1. ToSet(s \o t) = ToSet(s) \cup ToSet(t)
    <3>1. /\ s \o t \in Seq(Parts) /\ Len(s \o t) = Len(s) + Len(t)
          /\ \A i \in 1 .. Len(s) + Len(t) : (s \o t)[i] =
                 IF i <= Len(s) THEN s[i] ELSE t[i - Len(s)]
      BY <1>3, ConcatProperties
    <3>2. /\ DOMAIN (s \o t) = 1 .. Len(s) + Len(t) /\ DOMAIN s = 1 .. Len(s)
          /\ DOMAIN t = 1 .. Len(t) /\ Len(s) \in Nat /\ Len(t) \in Nat
      BY <1>3, <3>1, LenProperties
    <3>3. ASSUME NEW p \in ToSet(s \o t) PROVE p \in ToSet(s) \cup ToSet(t)
      <4>1. PICK i \in 1 .. Len(s) + Len(t) : p = (s \o t)[i]
        BY <3>2, <3>3 DEF ToSet
      <4>2. CASE i <= Len(s)
        BY <3>1, <3>2, <4>1, <4>2 DEF ToSet
      <4>3. CASE ~(i <= Len(s))
        <5>1. i - Len(s) \in 1 .. Len(t) /\ p = t[i - Len(s)]
          BY <3>1, <3>2, <4>1, <4>3
        <5> QED
          BY <3>2, <5>1 DEF ToSet
      <4> QED
        BY <4>2, <4>3
    <3>4. ASSUME NEW i \in 1 .. Len(s) PROVE s[i] \in ToSet(s \o t)
      <4>1. i \in 1 .. Len(s) + Len(t) /\ (s \o t)[i] = s[i]
        BY <3>1, <3>2, <3>4
      <4> QED
        BY <3>2, <4>1 DEF ToSet
    <3>5. ASSUME NEW i \in 1 .. Len(t) PROVE t[i] \in ToSet(s \o t)
      <4>1. /\ Len(s) + i \in 1 .. Len(s) + Len(t) /\ ~(Len(s) + i <= Len(s))
            /\ (Len(s) + i) - Len(s) = i
        BY <3>2, <3>5
      <4>2. (s \o t)[Len(s) + i] = t[i]
        BY <3>1, <4>1
      <4> QED
        BY <3>2, <4>1, <4>2 DEF ToSet
    <3> QED
      BY <3>2, <3>3, <3>4, <3>5 DEF ToSet
  <2> QED
    BY <2>1 DEF Numbers
<1> QED
  BY <1>1, <1>2, <1>3

\* A part more
LEMMA NumbersOfAppend ==
  ASSUME NEW s \in Seq(Parts), NEW p \in Parts
  PROVE  Numbers(Append(s, p)) = Numbers(s) \cup ({p.of} \ {0})
<1>1. Append(s, p) = s \o <<p>> /\ <<p>> \in Seq(Parts)
  BY AppendIsConcat
<1> QED
  BY <1>1, NumbersFacts

\* The parts of a telegram
LEMMA WholeFacts ==
  ASSUME NEW n \in Nat \ {0}
  PROVE  /\ Whole(n) \in Seq(Parts) /\ Numbers(Whole(n)) = {n} /\ Len(Whole(n)) = 2
         /\ Whole(n) # << >> /\ Whole(n)[1].of = n /\ Whole(n)[2] = Part(n, "tail")
         /\ \A m \in Nat \ {0} : Whole(m) = Whole(n) => m = n
<1>1. Part(n, "head") \in Parts /\ Part(n, "tail") \in Parts
  BY DEF Part, Parts
<1>2. /\ Whole(n) = <<Part(n, "head"), Part(n, "tail")>> /\ Len(Whole(n)) = 2
      /\ Whole(n)[1] = Part(n, "head") /\ Whole(n)[2] = Part(n, "tail")
  BY DEF Whole
<1>3. Whole(n) \in Seq(Parts) /\ Whole(n) # << >>
  BY <1>1, <1>2
<1>4. ToSet(Whole(n)) = {Part(n, "head"), Part(n, "tail")}
  BY DEF ToSet, Whole
<1>5. Numbers(Whole(n)) = {n}
  BY <1>4 DEF Numbers, Part
<1>6. \A m \in Nat \ {0} : Whole(m)[1].of = m
  BY DEF Whole, Part
<1>7. ASSUME NEW m \in Nat \ {0}, Whole(m) = Whole(n) PROVE m = n
  BY <1>6, <1>7
<1> QED
  BY <1>2, <1>3, <1>5, <1>6, <1>7

\* A sequence that one part is added to
LEMMA LastFacts ==
  ASSUME NEW s \in Seq(Parts), NEW p \in Parts
  PROVE  /\ Append(s, p) \in Seq(Parts) /\ Len(Append(s, p)) = Len(s) + 1
         /\ Append(s, p) # << >> /\ Last(Append(s, p)) = p /\ Front(Append(s, p)) = s
<1>1. PICK parts : parts = Append(s, p)
  OBVIOUS
<1>2. /\ parts \in Seq(Parts) /\ parts # << >> /\ Len(parts) = Len(s) + 1 /\ Len(s) \in Nat
      /\ \A i \in 1 .. Len(s) : parts[i] = s[i] /\ s[i] \in Parts
      /\ parts[Len(s) + 1] = p
  BY <1>1, AppendProperties, ElementOfSeq, LenProperties
<1>3. Last(parts) = p
  BY <1>2 DEF Last
<1>4. Len(parts) - 1 = Len(s)
  BY <1>2
<1>5. /\ SubSeq(parts, 1, Len(s)) \in Seq(Parts) /\ Len(SubSeq(parts, 1, Len(s))) = Len(s)
      /\ \A i \in 1 .. Len(s) : SubSeq(parts, 1, Len(s))[i] = s[i]
  BY <1>2
<1>6. Front(parts) = s
  BY <1>4, <1>5, SeqEqual DEF Front
<1> QED
  BY <1>1, <1>2, <1>3, <1>6

\* A last part taken off, or cut: no number is lost.
LEMMA StrippedFacts ==
  ASSUME NEW parts \in Seq(Parts), parts # << >>
  PROVE  /\ Stripped(parts) \in Seq(Parts) /\ Numbers(Stripped(parts)) = Numbers(parts)
         /\ Last(parts) \in Parts
         /\ Last(parts) # Break =>
              Stripped(parts) = Append(Front(parts), [Last(parts) EXCEPT !.part = "cut"])
<1>1. PICK s \in Seq(Parts), p \in Parts : parts = Append(s, p)
  BY SequenceEmptyOrAppend
<1>2. Last(parts) = p /\ Front(parts) = s
  BY <1>1, LastFacts
<1>3. Front(parts) = s
  BY <1>2
<1>4. Numbers(parts) = Numbers(s) \cup ({p.of} \ {0})
  BY <1>1, NumbersOfAppend
<1>5. CASE p = Break
  <2>1. Stripped(parts) = s
    BY <1>2, <1>3, <1>5 DEF Stripped
  <2>2. p.of = 0
    BY <1>5 DEF Break, Part
  <2> QED
    BY <1>2, <1>4, <1>5, <2>1, <2>2
<1>6. CASE p # Break
  <2>1. Stripped(parts) = Append(s, [p EXCEPT !.part = "cut"])
    BY <1>2, <1>3, <1>6 DEF Stripped
  <2>2. PICK cut : cut = [of |-> p.of, part |-> "cut"]
    OBVIOUS
  <2>4. cut \in Parts /\ cut.of = p.of
    BY <2>2 DEF Parts
  <2>5. cut = [p EXCEPT !.part = "cut"]
    BY <2>2 DEF Parts
  <2>3. Append(s, cut) \in Seq(Parts) /\ Numbers(Append(s, cut)) = Numbers(s) \cup ({p.of} \ {0})
    BY <2>4, NumbersOfAppend, AppendProperties
  <2> QED
    BY <1>2, <1>3, <1>4, <1>6, <2>1, <2>3, <2>4, <2>5
<1> QED
  BY <1>5, <1>6

-----------------------------------------------------------------------------
\* What is in hand, when nothing is and when something is
LEMMA ContentsFacts ==
  ASSUME EmsTyped
  PROVE  /\ buffer \in Seq(Parts) /\ loop.chunk \in Seq(Parts) /\ uart \in Seq(Parts)
         /\ buffer \o loop.chunk \in Seq(Parts) /\ Contents \in Seq(Parts)
         /\ Contents = << >> <=> buffer = << >> /\ loop.chunk = << >> /\ uart = << >>
         /\ Contents = << >> => InHand = {}
         /\ Numbers(Contents) = InHand
         /\ Len(buffer \o loop.chunk) <= Len(Contents)
<1>1. buffer \in Seq(Parts) /\ loop.chunk \in Seq(Parts) /\ uart \in Seq(Parts)
  BY DEF EmsTyped
<1>2. /\ buffer \o loop.chunk \in Seq(Parts) /\ Contents \in Seq(Parts)
      /\ Len(Contents) = Len(buffer \o loop.chunk) + Len(uart)
  BY <1>1, ConcatProperties DEF Contents
<1>3. Contents = << >> <=> buffer = << >> /\ loop.chunk = << >> /\ uart = << >>
  BY <1>1, <1>2, ConcatEqualIffEmpty DEF Contents
<1>4. Numbers(Contents) = InHand
  BY <1>1, <1>2, NumbersFacts DEF Contents, InHand
<1>5. Len(buffer \o loop.chunk) <= Len(Contents)
  BY <1>1, <1>2, LenProperties
<1> QED
  BY <1>1, <1>2, <1>3, <1>4, <1>5, NumbersFacts

\* Frames stay what they are when more is sent and more is hit.
LEMMA QueuedKeeps ==
  ASSUME EmsTyped, Queued, frames' = frames, read' = read, hit \subseteq hit',
         Len(bus') \in Nat, Len(bus) <= Len(bus')
  PROVE  Queued'
<1>1. SUFFICES ASSUME NEW i \in 1 .. Len(frames)
               PROVE  /\ frames[i] # << >> /\ Numbers(frames[i]) \subseteq 1 .. Len(bus')
                      /\ CrcOk(frames[i])' \/ \A m \in Numbers(frames[i]) : Pardoned(m)'
                      /\ \A a \in (1 .. Len(bus')) \ hit' :
                           frames[i] = Whole(a) => InOrder(a, i)'
  BY DEF Queued
<1>2. /\ frames[i] # << >> /\ Numbers(frames[i]) \subseteq 1 .. Len(bus)
      /\ CrcOk(frames[i]) \/ \A m \in Numbers(frames[i]) : Pardoned(m)
      /\ \A a \in (1 .. Len(bus)) \ hit : frames[i] = Whole(a) => InOrder(a, i)
  BY DEF Queued
<1>3. Len(bus) \in Nat
  BY DEF EmsTyped
<1>4. CrcOk(frames[i]) => CrcOk(frames[i])'
  BY <1>3 DEF CrcOk
<1>5. \A m : Pardoned(m) => Pardoned(m)'
  BY DEF Pardoned
<1>6. ASSUME NEW a \in (1 .. Len(bus')) \ hit', frames[i] = Whole(a)
      PROVE  InOrder(a, i)'
  <2>1. Numbers(frames[i]) = {a}
    BY <1>6, WholeFacts
  <2>2. a \in (1 .. Len(bus)) \ hit
    BY <1>2, <1>6, <2>1
  <2>3. InOrder(a, i)
    BY <1>2, <1>6, <2>2
  <2>4. ASSUME NEW j \in 1 .. i - 1, NEW b \in 1 .. Len(bus'), frames[j] = Whole(b)
        PROVE  b <= a
    <3>1. j \in 1 .. Len(frames)
      BY <1>1, <2>4 DEF EmsTyped
    <3>2. Numbers(frames[j]) \subseteq 1 .. Len(bus)
      BY <3>1 DEF Queued
    <3>3. b \in Nat \ {0}
      BY <2>4
    <3>4. Numbers(frames[j]) = {b}
      BY <2>4, <3>3, WholeFacts
    <3> QED
      BY <2>3, <2>4, <3>2, <3>4 DEF InOrder
  <2> QED
    BY <2>3, <2>4 DEF InOrder
<1> QED
  BY <1>2, <1>3, <1>4, <1>5, <1>6

\* Values stay what they are when nothing is read.
LEMMA RealKeeps ==
  ASSUME EmsTyped, ValuesAreReal, values' = values, read' = read, hit \subseteq hit',
         \A n \in read : bus'[n] = bus[n]
  PROVE  ValuesAreReal'
<1>1. \A k \in Key, n \in read : Carries(n, k)' <=> Carries(n, k)
  BY DEF Carries
<1>2. \A k \in Key : {n \in read' : Carries(n, k)'} = {n \in read : Carries(n, k)}
  BY <1>1
<1> QED
  BY <1>2 DEF ValuesAreReal

\* A frame is queued: it is there, and what made room for it is dropped.
LEMMA Enqueue ==
  ASSUME EmsTyped, Queued, NEW frame \in Seq(Parts), QueueFrame(frame),
         read' = read, bus' = bus, hit \subseteq hit', hit' \subseteq 1 .. Len(bus),
         \A m \in Numbers(frame) : m \in 1 .. Len(bus) /\ (m = Len(bus) \/ m \in hit'),
         CrcOk(frame) \/ \A m \in Numbers(frame) : Pardoned(m)'
  PROVE  /\ Queued' /\ frames' \in Seq(Seq(Parts))
         /\ \A n : InFrames(n) => InFrames(n)' \/ n \in dropped'
         /\ \A n \in Numbers(frame) : InFrames(n)'
         /\ dropped \subseteq dropped'
<1>1. /\ frames \in Seq(Seq(Parts)) /\ Len(bus) \in Nat /\ Len(frames) \in Nat
      /\ read \subseteq 1 .. Len(bus)
  BY DEF EmsTyped
<1>2. CASE frame = << >>
  <2>1. frames' = frames /\ dropped' = dropped
    BY <1>2 DEF QueueFrame
  <2>2. Numbers(frame) = {}
    BY <1>2, NumbersFacts
  <2>3. Queued'
    BY <1>1, <2>1, QueuedKeeps
  <2> QED
    BY <1>1, <2>1, <2>2, <2>3 DEF InFrames
<1>3. CASE frame # << >>
  <2>1. PICK k \in {0, 1} :
          /\ k <= Len(frames) /\ frames' \in Seq(Seq(Parts)) /\ Len(frames') = Len(frames) - k + 1
          /\ \A i \in 1 .. Len(frames) - k : frames'[i] = frames[i + k]
          /\ frames'[Len(frames')] = frame
          /\ dropped \subseteq dropped' /\ (k = 1 => Numbers(frames[1]) \subseteq dropped')
    <3>1. CASE Len(frames) < FrameLimit
      <4>1. frames' = Append(frames, frame) /\ dropped' = dropped
        BY <1>3, <3>1 DEF QueueFrame
      <4>2. /\ Append(frames, frame) \in Seq(Seq(Parts))
            /\ Len(Append(frames, frame)) = Len(frames) + 1
            /\ \A i \in 1 .. Len(frames) : Append(frames, frame)[i] = frames[i]
            /\ Append(frames, frame)[Len(frames) + 1] = frame
        BY <1>1, AppendProperties
      <4> QED
        BY <1>1, <4>1, <4>2
    <3>2. CASE ~(Len(frames) < FrameLimit)
      <4>1. /\ frames' = Append(Tail(frames), frame)
            /\ dropped' = dropped \cup Numbers(frames[1])
        BY <1>3, <3>2 DEF QueueFrame
      <4>2. frames # << >>
        BY <1>1, <3>2, EmsAssumption
      <4>3. /\ Tail(frames) \in Seq(Seq(Parts)) /\ Len(Tail(frames)) = Len(frames) - 1
            /\ \A i \in 1 .. Len(Tail(frames)) : Tail(frames)[i] = frames[i + 1]
        BY <1>1, <4>2, HeadTailProperties
      <4>4. PICK rest : rest = Tail(frames)
        OBVIOUS
      <4>5. /\ Append(rest, frame) \in Seq(Seq(Parts))
            /\ Len(Append(rest, frame)) = Len(rest) + 1
            /\ \A i \in 1 .. Len(rest) : Append(rest, frame)[i] = rest[i]
            /\ Append(rest, frame)[Len(rest) + 1] = frame
        BY <4>3, <4>4, AppendProperties
      <4>6. Len(frames) >= 1
        BY <1>1, <4>2, EmptySeq
      <4> QED
        BY <1>1, <4>1, <4>3, <4>4, <4>5, <4>6
    <3> QED
      BY <3>1, <3>2
  <2>6. k \in {0, 1}
    BY <2>1
  <2>2. \A i \in 1 .. Len(frames') :
          \/ i \in 1 .. Len(frames) - k /\ i + k \in 1 .. Len(frames) /\ frames'[i] = frames[i + k]
          \/ i = Len(frames') /\ frames'[i] = frame
    <3>1. SUFFICES ASSUME NEW i \in 1 .. Len(frames')
                   PROVE  \/ /\ i \in 1 .. Len(frames) - k /\ i + k \in 1 .. Len(frames)
                             /\ frames'[i] = frames[i + k]
                          \/ i = Len(frames') /\ frames'[i] = frame
      OBVIOUS
    <3>2. Len(frames') = Len(frames) - k + 1
      BY <2>1
    <3>3. CASE i = Len(frames')
      BY <2>1, <3>3
    <3>4. CASE i # Len(frames')
      <4>1. i \in 1 .. Len(frames) - k /\ i + k \in 1 .. Len(frames)
        <5>1. Len(frames) \in Nat /\ k \in Int /\ (k = 0 \/ k = 1) /\ i \in Int
          BY <1>1, <2>6
        <5>2. 1 <= i /\ i <= Len(frames) - k
          BY <3>2, <3>4, <5>1
        <5> QED
          BY <5>1, <5>2
      <4> QED
        BY <2>1, <4>1
    <3> QED
      BY <3>3, <3>4
  <2>3. ASSUME NEW n, InFrames(n) PROVE InFrames(n)' \/ n \in dropped'
    <3>1. PICK i \in 1 .. Len(frames) : n \in Numbers(frames[i])
      BY <2>3 DEF InFrames
    <3>2. CASE i <= k
      <4>1. k = 1 /\ i = 1
        BY <2>1, <3>2
      <4> QED
        BY <2>1, <3>1, <4>1
    <3>3. CASE ~(i <= k)
      <4>1. /\ i - k \in 1 .. Len(frames) - k /\ (i - k) + k = i
            /\ i - k \in 1 .. Len(frames')
        BY <1>1, <2>1, <3>3
      <4>2. frames'[i - k] = frames[i]
        BY <2>1, <4>1
      <4> QED
        BY <3>1, <4>1, <4>2 DEF InFrames
    <3> QED
      BY <3>2, <3>3
  <2>4. ASSUME NEW n \in Numbers(frame) PROVE InFrames(n)'
    <3>1. Len(frames') \in 1 .. Len(frames')
      BY <1>1, <2>1
    <3> QED
      BY <2>1, <2>4, <3>1 DEF InFrames
  <2>5. Queued'
    <3>1. SUFFICES ASSUME NEW i \in 1 .. Len(frames')
                   PROVE  /\ frames'[i] # << >> /\ Numbers(frames'[i]) \subseteq 1 .. Len(bus)
                          /\ CrcOk(frames'[i]) \/ \A m \in Numbers(frames'[i]) : Pardoned(m)'
                          /\ \A a \in (1 .. Len(bus)) \ hit' :
                               frames'[i] = Whole(a) => InOrder(a, i)'
      BY DEF Queued, CrcOk
    <3>2. \A m : Pardoned(m) => Pardoned(m)'
      BY DEF Pardoned
    <3>3. CASE i \in 1 .. Len(frames) - k /\ i + k \in 1 .. Len(frames)
               /\ frames'[i] = frames[i + k]
      <4>1. /\ frames[i + k] # << >> /\ Numbers(frames[i + k]) \subseteq 1 .. Len(bus)
            /\ CrcOk(frames[i + k]) \/ \A m \in Numbers(frames[i + k]) : Pardoned(m)
            /\ \A a \in (1 .. Len(bus)) \ hit : frames[i + k] = Whole(a) => InOrder(a, i + k)
        BY <3>3 DEF Queued
      <4>2. ASSUME NEW a \in (1 .. Len(bus)) \ hit', frames'[i] = Whole(a)
            PROVE  InOrder(a, i)'
        <5>1. InOrder(a, i + k)
          BY <3>3, <4>1, <4>2
        <5>2. \A j \in 1 .. i - 1 : /\ frames'[j] = frames[j + k] /\ j + k \in 1 .. (i + k) - 1
          <6>1. TAKE j \in 1 .. i - 1
          <6>2. j \in 1 .. Len(frames) - k /\ j + k \in 1 .. (i + k) - 1
            BY <1>1, <2>6, <3>3
          <6> QED
            BY <2>1, <6>2
        <5>3. ASSUME NEW j \in 1 .. i - 1, NEW b \in 1 .. Len(bus), frames'[j] = Whole(b)
              PROVE  b <= a
          BY <5>1, <5>2, <5>3 DEF InOrder
        <5> QED
          BY <5>1, <5>3 DEF InOrder
      <4> QED
        BY <3>2, <3>3, <4>1, <4>2
    <3>4. CASE i = Len(frames') /\ frames'[i] = frame
      <4>1. ASSUME NEW a \in (1 .. Len(bus)) \ hit', frame = Whole(a)
            PROVE  InOrder(a, i)'
        <5>1. Numbers(frame) = {a}
          BY <4>1, WholeFacts
        <5>2. a = Len(bus)
          BY <4>1, <5>1
        <5> QED
          BY <1>1, <5>2 DEF InOrder
      <4> QED
        BY <1>3, <3>4, <4>1
    <3> QED
      BY <2>2, <3>3, <3>4
  <2> QED
    BY <2>1, <2>3, <2>4, <2>5
<1> QED
  BY <1>2, <1>3

-----------------------------------------------------------------------------
\* Parts may be put together in any order of the joints.
LEMMA JoinFacts ==
  ASSUME NEW s \in Seq(Parts), NEW t \in Seq(Parts), NEW u \in Seq(Parts)
  PROVE  s \o (t \o u) = (s \o t) \o u
BY ConcatAssociative

\* A queue of numbers that one is added to
LEMMA QueueFacts ==
  ASSUME NEW s \in Seq(Nat), NEW e \in Nat
  PROVE  Append(s, e) # << >>
BY AppendProperties

\* The boiler begins a telegram: what is in hand then may be lost.
LEMMA BeginsKeeps ==
  ASSUME BusInv, Begins
  PROVE  BusInv'
<1>0. PICK n : n = Len(bus)
  OBVIOUS
<1>1. /\ n = Len(bus) /\ n \in Nat /\ bus \in Seq(Telegram) /\ ~sending /\ sending'
      /\ EmsTyped /\ Late /\ Coming /\ Queued /\ Somewhere /\ ValuesAreReal /\ Showing
  BY <1>0 DEF BusInv, EmsTyped, Begins
<1>2. /\ bus' \in Seq(Telegram) /\ Len(bus') = n + 1 /\ \A i \in 1 .. n : bus'[i] = bus[i]
  <2>1. PICK t \in Telegram : bus' = Append(bus, t)
    BY DEF Begins
  <2> QED
    BY <1>1, <2>1, AppendProperties
<1>3. /\ uart' = Append(uart, Part(n + 1, "head"))
      /\ hit \subseteq hit' /\ ToSet(breaks) \subseteq hit'
      /\ hit' = (hit \cup ToSet(breaks)) \cup (IF ~port.irq /\ Unread THEN {n} ELSE {})
      /\ UNCHANGED <<port, breaks, buffer, frames, loop, values, shown, read, dropped>>
  BY <1>1, <1>2 DEF Begins
<1>4. Part(n + 1, "head") \in Parts /\ Part(n + 1, "head").of = n + 1
  BY <1>1 DEF Part, Parts
<1>5. /\ uart' \in Seq(Parts) /\ uart' # << >> /\ Numbers(uart') = Numbers(uart) \cup {n + 1}
  <2>1. PICK head \in Parts : head = Part(n + 1, "head") /\ head.of = n + 1
    BY <1>4
  <2>2. uart \in Seq(Parts) /\ uart' = Append(uart, head)
    BY <1>1, <1>3, <2>1 DEF EmsTyped
  <2>3. Numbers(uart') = Numbers(uart) \cup ({n + 1} \ {0})
    BY <2>1, <2>2, NumbersOfAppend
  <2> QED
    BY <1>1, <2>2, <2>3, AppendProperties
<1>6. \A i \in 1 .. Len(breaks) : breaks[i] \in hit' /\ breaks[i] \in 1 .. n
  <2>1. Len(breaks) <= n /\ Len(breaks) \in Nat
    BY <1>1 DEF Late, EmsTyped
  <2>2. \A i \in 1 .. Len(breaks) : breaks[i] = n - Len(breaks) + i
    BY <1>1 DEF Late
  <2>3. \A i \in 1 .. Len(breaks) : breaks[i] \in ToSet(breaks)
    BY <1>1, LenProperties DEF EmsTyped, ToSet
  <2> QED
    BY <1>1, <1>3, <2>1, <2>2, <2>3
<1>7. n \in hit' \/ Contents = << >>
  <2>1. CASE ~port.irq
    <3>1. Unread => n \in hit'
      BY <1>3, <2>1
    <3>2. ~Unread => Contents = << >>
      BY <1>1, ContentsFacts DEF Unread
    <3> QED
      BY <3>1, <3>2
  <2>2. CASE port.irq /\ breaks = << >>
    BY <1>1, <1>3, <2>2 DEF Coming
  <2>3. CASE port.irq /\ breaks # << >>
    <3>1. Len(breaks) \in Nat \ {0}
      BY <1>1, <2>3, EmptySeq DEF EmsTyped
    <3>2. breaks[Len(breaks)] = n - Len(breaks) + Len(breaks)
      BY <1>1, <3>1 DEF Late
    <3>3. breaks[Len(breaks)] = n
      BY <1>1, <3>1, <3>2
    <3> QED
      BY <1>6, <3>1, <3>3
  <2> QED
    BY <2>1, <2>2, <2>3
<1>8. n = 0 => Contents = << >>
  <2>1. SUFFICES ASSUME n = 0 PROVE Contents = << >>
    OBVIOUS
  <2>2. ~Pardoned(Len(bus))
    BY <1>1, <2>1 DEF Pardoned, EmsTyped
  <2> QED
    BY <1>1, <2>1, <2>2 DEF Coming
<1>9. hit' \subseteq 1 .. n
  <2>1. ToSet(breaks) \subseteq 1 .. n
    BY <1>1, <1>6, LenProperties DEF ToSet, EmsTyped
  <2>2. Unread => n # 0
    BY <1>1, <1>8, ContentsFacts DEF Unread
  <2>3. hit \subseteq 1 .. n
    BY <1>1 DEF EmsTyped
  <2>4. (IF ~port.irq /\ Unread THEN {n} ELSE {}) \subseteq 1 .. n
    <3>1. n # 0 => n \in 1 .. n
      BY <1>1
    <3> QED
      BY <2>2, <3>1
  <2> QED
    BY <1>3, <2>1, <2>3, <2>4
<1>10. EmsTyped'
  <2>1. hit' \subseteq 1 .. n + 1 /\ read' \subseteq 1 .. n + 1 /\ n + 1 >= 1
    BY <1>1, <1>3, <1>9 DEF EmsTyped
  <2> QED
    BY <1>1, <1>2, <1>3, <1>5, <2>1 DEF EmsTyped
<1>11. Late'
  <2>1. n + 1 - 1 = n
    BY <1>1
  <2> QED
    BY <1>1, <1>2, <1>3, <1>6, <2>1 DEF Late
<1>12. InHand' = InHand \cup {n + 1}
  BY <1>3, <1>5 DEF InHand
<1>13. Pardoned(n + 1)' <=> n \in hit'
  <2>1. n + 1 - 1 = n /\ n + 1 \notin 1 .. n
    BY <1>1
  <2> QED
    BY <1>1, <1>9, <2>1 DEF Pardoned
<1>14. Coming'
  <2>1. ASSUME NEW m \in InHand' PROVE m \in 1 .. n + 1 /\ (m = n + 1 \/ m \in hit')
    <3>1. CASE m = n + 1
      BY <1>1, <3>1
    <3>2. CASE m \in InHand
      <4>1. m \in 1 .. n /\ (m = n \/ m \in hit)
        BY <1>1, <3>2 DEF Coming
      <4>2. Contents # << >>
        BY <1>1, <3>2, ContentsFacts
      <4> QED
        BY <1>1, <1>3, <1>7, <4>1, <4>2
    <3> QED
      BY <1>12, <2>1, <3>1, <3>2
  <2>2. loop'.swapped => port'.irq /\ n \in hit'
    <3>1. SUFFICES ASSUME loop.swapped PROVE port.irq /\ n \in hit'
      BY <1>3
    <3>2. port.irq /\ loop.chunk # << >>
      BY <1>1, <3>1 DEF Coming
    <3>3. Contents # << >>
      BY <1>1, <3>2, ContentsFacts
    <3> QED
      BY <1>7, <3>2, <3>3
  <2>3. ASSUME n \notin hit' PROVE Contents' = WhatCame'
    <3>1. buffer = << >> /\ loop.chunk = << >> /\ uart = << >>
      BY <1>1, <1>7, <2>3, ContentsFacts
    <3>2. Contents' = (<< >> \o << >>) \o uart'
      BY <1>3, <3>1 DEF Contents
    <3>3. << >> \o << >> = << >> /\ << >> \o uart' = uart'
      BY <1>5, ConcatEmptySeq, EmptySeq
    <3>4. uart' = <<Part(n + 1, "head")>>
      BY <1>3, <3>1
    <3> QED
      BY <1>1, <1>2, <3>2, <3>3, <3>4 DEF WhatCame
  <2>4. ~Pardoned(n + 1)' => Contents' = WhatCame'
    BY <1>13, <2>3
  <2>5. Pardoned(Len(bus))' <=> Pardoned(n + 1)'
    BY <1>2
  <2>6. n + 1 >= 1
    BY <1>1
  <2> QED
    BY <1>1, <1>2, <1>3, <1>5, <1>13, <2>1, <2>2, <2>4, <2>5, <2>6 DEF Coming
<1>15. Queued'
  <2>1. Len(bus') \in Nat /\ Len(bus) <= Len(bus')
    BY <1>1, <1>2
  <2> QED
    BY <1>1, <1>3, <2>1, QueuedKeeps
<1>16. Somewhere'
  <2>1. \A m : Pardoned(m) => Pardoned(m)'
    BY <1>3 DEF Pardoned
  <2>2. \A m : InFrames(m) => InFrames(m)'
    BY <1>3 DEF InFrames
  <2>3. Sent' = Sent \cup {n + 1}
    BY <1>1, <1>2 DEF Sent
  <2> QED
    BY <1>1, <1>3, <1>12, <2>1, <2>2, <2>3 DEF Somewhere
<1>17. ValuesAreReal'
  BY <1>1, <1>2, <1>3, RealKeeps DEF EmsTyped
<1>18. Showing'
  BY <1>1, <1>3 DEF Showing
<1> QED
  BY <1>10, <1>11, <1>14, <1>15, <1>16, <1>17, <1>18 DEF BusInv

\* The boiler completes it: the tail, a zero of the break, and its interrupt.
LEMMA CompletesKeeps ==
  ASSUME BusInv, Completes
  PROVE  BusInv'
<1>0. PICK n : n = Len(bus)
  OBVIOUS
<1>1. /\ n = Len(bus) /\ n \in Nat /\ n >= 1 /\ sending /\ ~sending' /\ sending' = FALSE
      /\ EmsTyped /\ Late /\ Coming /\ Queued /\ Somewhere /\ ValuesAreReal /\ Showing
  BY <1>0 DEF BusInv, EmsTyped, Completes
<1>2. /\ breaks' = (IF port.irq THEN Append(breaks, n) ELSE breaks)
      /\ UNCHANGED <<bus, port, buffer, frames, loop, values, shown, read, dropped, hit>>
  BY <1>1 DEF Completes
<1>3. Part(n, "tail") \in Parts /\ Part(n, "tail").of = n /\ Break \in Parts /\ Break.of = 0
  BY <1>1 DEF Part, Parts, Break
<1>4. PICK tail : tail = <<Part(n, "tail")>>
  OBVIOUS
<1>5. PICK z : z = IF port.zero THEN <<Break>> ELSE << >>
  OBVIOUS
<1>6. /\ tail \in Seq(Parts) /\ z \in Seq(Parts) /\ Numbers(tail) = {n} /\ Numbers(z) = {}
  <2>1. tail \in Seq(Parts) /\ z \in Seq(Parts)
    BY <1>3, <1>4, <1>5
  <2>2. Numbers(tail) = {Part(n, "tail").of} \ {0} /\ Numbers(<<Break>>) = {Break.of} \ {0}
    BY <1>3, <1>4, NumbersFacts
  <2>3. Numbers(z) = {}
    BY <1>3, <1>5, <2>2, NumbersFacts
  <2> QED
    BY <1>1, <1>3, <2>1, <2>2, <2>3
<1>7. /\ uart' = (uart \o tail) \o z /\ uart \in Seq(Parts) /\ uart \o tail \in Seq(Parts)
      /\ uart' \in Seq(Parts) /\ Numbers(uart') = Numbers(uart) \cup {n}
  <2>1. uart' = (uart \o tail) \o z /\ uart \in Seq(Parts)
    BY <1>1, <1>4, <1>5 DEF EmsTyped, Completes
  <2>2. PICK ut : ut = uart \o tail
    OBVIOUS
  <2>3. ut \in Seq(Parts) /\ Numbers(ut) = Numbers(uart) \cup {n}
    BY <1>6, <2>1, <2>2, ConcatProperties, NumbersFacts
  <2>4. ut \o z \in Seq(Parts) /\ Numbers(ut \o z) = Numbers(ut) \cup Numbers(z)
    BY <1>6, <2>3, ConcatProperties, NumbersFacts
  <2> QED
    BY <1>6, <2>1, <2>2, <2>3, <2>4
<1>8. breaks' \in Seq(Nat)
  <2>1. Append(breaks, n) \in Seq(Nat) /\ breaks \in Seq(Nat)
    BY <1>1, AppendProperties DEF EmsTyped
  <2> QED
    BY <1>2, <2>1
<1>9. EmsTyped'
  BY <1>1, <1>2, <1>7, <1>8 DEF EmsTyped
<1>10. Late'
  <2>1. /\ Len(breaks) <= n - 1 /\ Len(breaks) \in Nat /\ breaks \in Seq(Nat)
        /\ \A i \in 1 .. Len(breaks) : /\ breaks[i] = n - 1 - Len(breaks) + i
                                       /\ breaks[i] < n => breaks[i] \in hit
        /\ ~port.irq => breaks = << >>
    BY <1>1 DEF Late, EmsTyped
  <2>2. CASE port.irq
    <3>1. /\ Len(breaks') = Len(breaks) + 1 /\ breaks'[Len(breaks) + 1] = n
          /\ \A i \in 1 .. Len(breaks) : breaks'[i] = breaks[i]
      BY <1>1, <1>2, <2>1, <2>2, AppendProperties
    <3>2. ASSUME NEW i \in 1 .. Len(breaks')
          PROVE  breaks'[i] = n - Len(breaks') + i /\ (breaks'[i] < n => breaks'[i] \in hit)
      <4>1. CASE i \in 1 .. Len(breaks)
        BY <1>1, <2>1, <3>1, <4>1
      <4>2. CASE i \notin 1 .. Len(breaks)
        <5>1. i = Len(breaks) + 1
          BY <2>1, <3>1, <3>2, <4>2
        <5> QED
          BY <1>1, <2>1, <3>1, <5>1
      <4> QED
        BY <4>1, <4>2
    <3>3. Len(breaks') <= n
      BY <1>1, <2>1, <3>1
    <3> QED
      BY <1>1, <1>2, <2>2, <3>2, <3>3 DEF Late
  <2>3. CASE ~port.irq
    <3>1. breaks' = << >> /\ Len(<< >>) = 0
      BY <1>2, <2>1, <2>3
    <3> QED
      BY <1>1, <1>2, <3>1, <2>3 DEF Late
  <2> QED
    BY <2>2, <2>3
<1>11. InHand' = InHand \cup {n}
  BY <1>2, <1>7 DEF InHand
<1>12. ASSUME Contents = WhatCame
       PROVE  Contents' = WhatCame'
  <2>1. PICK both : both = buffer \o loop.chunk
    OBVIOUS
  <2>2. both \in Seq(Parts) /\ Contents = both \o uart /\ both \o uart \in Seq(Parts)
    BY <1>1, <2>1, ContentsFacts DEF Contents
  <2>3. Contents' = both \o ((uart \o tail) \o z)
    BY <1>2, <1>7, <2>1 DEF Contents
  <2>12. PICK ut : ut = uart \o tail /\ ut \in Seq(Parts)
    BY <1>7
  <2>13. both \o (ut \o z) = (both \o ut) \o z
    BY <1>6, <2>2, <2>12, JoinFacts
  <2>4. both \o ((uart \o tail) \o z) = (both \o (uart \o tail)) \o z
    BY <2>12, <2>13
  <2>5. both \o (uart \o tail) = (both \o uart) \o tail
    BY <1>6, <1>7, <2>2, JoinFacts
  <2>6. Contents' = (WhatCame \o tail) \o z
    BY <1>12, <2>2, <2>3, <2>4, <2>5
  <2>7. WhatCame \o tail = Whole(n)
    <3>1. PICK a \in Parts : a = Part(n, "head")
      BY <1>1 DEF Part, Parts
    <3>2. PICK b \in Parts : b = Part(n, "tail")
      BY <1>3
    <3>3. /\ <<a>> \in Seq(Parts) /\ Len(<<a>>) = 1 /\ <<a>>[1] = a
          /\ <<b>> \in Seq(Parts) /\ Len(<<b>>) = 1 /\ <<b>>[1] = b
          /\ <<a, b>> \in Seq(Parts) /\ Len(<<a, b>>) = 2 /\ <<a, b>>[1] = a /\ <<a, b>>[2] = b
      OBVIOUS
    <3>6. PICK one \in Seq(Parts), two \in Seq(Parts) : one = <<a>> /\ two = <<b>>
      BY <3>3
    <3>7. /\ one \o two \in Seq(Parts) /\ Len(one \o two) = 2
          /\ (one \o two)[1] = a /\ (one \o two)[2] = b
      BY <3>3, <3>6, ConcatProperties
    <3>4. <<a>> \o <<b>> = <<a, b>>
      <4>1. PICK pair \in Seq(Parts) : pair = <<a, b>>
        BY <3>3
      <4>2. PICK join \in Seq(Parts) : join = one \o two
        BY <3>7
      <4>3. Len(join) = 2 /\ Len(pair) = 2 /\ join[1] = pair[1] /\ join[2] = pair[2]
        BY <3>3, <3>7, <4>1, <4>2
      <4>4. \A i \in 1 .. Len(join) : join[i] = pair[i]
        BY <4>3
      <4>5. join = pair
        BY <4>3, <4>4, SeqEqual
      <4> QED
        BY <3>6, <4>1, <4>2, <4>5
    <3>5. WhatCame = <<a>>
      BY <1>1, <3>1 DEF WhatCame
    <3> QED
      BY <1>4, <3>1, <3>2, <3>3, <3>4, <3>5 DEF Whole
  <2>8. Contents' = Whole(n) \o z
    BY <2>6, <2>7
  <2>9. Whole(n) \in Seq(Parts)
    BY <1>1, WholeFacts
  <2>10. CASE port.zero
    <3>1. z = <<Break>>
      BY <1>5, <2>10
    <3>2. Whole(n) \o <<Break>> = Append(Whole(n), Break)
      BY <1>3, <2>9, AppendIsConcat
    <3> QED
      BY <1>1, <1>2, <2>8, <2>10, <3>1, <3>2 DEF WhatCame
  <2>11. CASE ~port.zero
    <3>1. z = << >>
      BY <1>5, <2>11
    <3> QED
      BY <1>1, <1>2, <2>8, <2>9, <2>11, <3>1, ConcatEmptySeq DEF WhatCame
  <2> QED
    BY <2>10, <2>11
<1>13. Coming'
  <2>1. ASSUME NEW m \in InHand' PROVE m \in 1 .. n /\ (m = n \/ m \in hit)
    BY <1>1, <1>11, <2>1 DEF Coming
  <2>2. port.irq => breaks' # << >>
    <3>1. Append(breaks, n) # << >>
      BY <1>1, QueueFacts DEF EmsTyped
    <3> QED
      BY <1>2, <3>1
  <2>3. Pardoned(Len(bus))' <=> Pardoned(Len(bus))
    BY <1>2 DEF Pardoned
  <2>4. ~Pardoned(Len(bus)) => Contents = WhatCame
    BY <1>1 DEF Coming
  <2> QED
    BY <1>1, <1>2, <1>12, <2>1, <2>2, <2>3, <2>4 DEF Coming
<1>14. Queued'
  BY <1>1, <1>2, QueuedKeeps
<1>15. Somewhere'
  <2>1. \A m : (Pardoned(m) => Pardoned(m)') /\ (InFrames(m) => InFrames(m)')
    BY <1>2 DEF Pardoned, InFrames
  <2> QED
    BY <1>1, <1>2, <1>11, <2>1 DEF Somewhere, Sent
<1>16. ValuesAreReal'
  BY <1>1, <1>2, RealKeeps
<1>17. Showing'
  BY <1>1, <1>2 DEF Showing
<1> QED
  BY <1>9, <1>10, <1>13, <1>14, <1>15, <1>16, <1>17 DEF BusInv

\* What the steps that move parts, and do not look at them, keep
LEMMA RestKeeps ==
  ASSUME BusInv, UNCHANGED <<bus, frames, values, read, dropped>>, hit \subseteq hit',
         \A m \in InHand : m \in InHand' \/ Pardoned(m)'
  PROVE  Queued' /\ Somewhere' /\ ValuesAreReal'
<1>1. EmsTyped /\ Queued /\ Somewhere /\ ValuesAreReal /\ Len(bus) \in Nat
  BY DEF BusInv, EmsTyped
<1>2. Queued'
  BY <1>1, QueuedKeeps
<1>3. Somewhere'
  <2>1. \A m : (Pardoned(m) => Pardoned(m)') /\ (InFrames(m) => InFrames(m)')
    BY DEF Pardoned, InFrames
  <2> QED
    BY <1>1, <2>1 DEF Somewhere, Sent
<1>4. ValuesAreReal'
  BY <1>1, RealKeeps
<1> QED
  BY <1>2, <1>3, <1>4

\* The line is silent for a while.
LEMMA FallsSilentKeeps ==
  ASSUME BusInv, FallsSilent
  PROVE  BusInv'
<1>1. /\ EmsTyped /\ Late /\ Coming /\ Showing
      /\ ~sending /\ loop.at # "reading" /\ loop.at # "read"
      /\ port' = [port EXCEPT !.silent = TRUE]
      /\ UNCHANGED <<bus, sending, uart, breaks, buffer, frames, loop, values, shown, read,
                     dropped, hit>>
  BY DEF BusInv, FallsSilent, Asleep
<1>2. /\ port'.irq = port.irq /\ port'.zero = port.zero
      /\ port' \in [irq : BOOLEAN, zero : BOOLEAN, silent : BOOLEAN]
  BY <1>1 DEF EmsTyped
<1>3. EmsTyped'
  BY <1>1, <1>2 DEF EmsTyped
<1>4. Late'
  BY <1>1, <1>2 DEF Late
<1>5. InHand' = InHand /\ Contents' = Contents /\ WhatCame' = WhatCame
  BY <1>1, <1>2 DEF InHand, Contents, WhatCame
<1>6. Coming'
  <2>1. Pardoned(Len(bus))' <=> Pardoned(Len(bus))
    BY <1>1 DEF Pardoned
  <2> QED
    BY <1>1, <1>2, <1>5, <2>1 DEF Coming
<1>7. Queued' /\ Somewhere' /\ ValuesAreReal'
  BY <1>1, <1>5, RestKeeps
<1>8. Showing'
  BY <1>1 DEF Showing
<1> QED
  BY <1>3, <1>4, <1>6, <1>7, <1>8 DEF BusInv

\* The loop takes what has come.
LEMMA LoopReadsKeeps ==
  ASSUME BusInv, LoopReads
  PROVE  BusInv'
<1>1. /\ EmsTyped /\ Late /\ Coming /\ Showing
      /\ loop.at = "asleep" /\ uart # << >> /\ uart' = << >>
      /\ loop' = [loop EXCEPT !.at = "reading", !.chunk = uart]
      /\ UNCHANGED <<bus, sending, port, breaks, buffer, frames, values, shown, read, dropped,
                     hit>>
  BY DEF BusInv, LoopReads
<1>2. /\ loop.chunk = << >> /\ ~loop.swapped /\ buffer \in Seq(Parts) /\ uart \in Seq(Parts)
  BY <1>1 DEF Coming, EmsTyped
<1>3. /\ loop'.at = "reading" /\ loop'.chunk = uart /\ loop'.swapped = loop.swapped
      /\ loop'.changed = loop.changed
      /\ loop' \in [at : {"asleep", "reading", "read", "draining"}, chunk : Seq(Parts),
                    swapped : BOOLEAN, changed : BOOLEAN]
  BY <1>1, <1>2 DEF EmsTyped
<1>4. EmsTyped'
  BY <1>1, <1>3, EmptySeq DEF EmsTyped
<1>5. Late'
  BY <1>1 DEF Late
<1>6. InHand' = InHand
  BY <1>1, <1>2, <1>3, NumbersFacts DEF InHand
<1>7. Contents' = Contents
  <2>1. buffer \o << >> = buffer
    BY <1>2, ConcatEmptySeq
  <2>2. PICK all : all = buffer \o uart
    OBVIOUS
  <2>3. all \in Seq(Parts) /\ all \o << >> = all
    BY <1>2, <2>2, ConcatProperties, ConcatEmptySeq
  <2> QED
    BY <1>1, <1>2, <1>3, <2>1, <2>2, <2>3 DEF Contents
<1>8. Coming'
  <2>1. Pardoned(Len(bus))' <=> Pardoned(Len(bus))
    BY <1>1 DEF Pardoned
  <2>2. WhatCame' = WhatCame
    BY <1>1 DEF WhatCame
  <2> QED
    BY <1>1, <1>2, <1>3, <1>6, <1>7, <2>1, <2>2 DEF Coming
<1>9. Queued' /\ Somewhere' /\ ValuesAreReal'
  BY <1>1, <1>6, RestKeeps
<1>10. Showing'
  BY <1>1, <1>3 DEF Showing
<1> QED
  BY <1>4, <1>5, <1>8, <1>9, <1>10 DEF BusInv

\* A telegram that nothing happened to is no longer than the buffer.
LEMMA WhatCameFacts ==
  ASSUME EmsTyped, Len(bus) >= 1
  PROVE  WhatCame \in Seq(Parts) /\ Len(WhatCame) <= 3
<1>1. PICK n \in Nat \ {0} : n = Len(bus)
  BY DEF EmsTyped
<1>2. Whole(n) \in Seq(Parts) /\ Len(Whole(n)) = 2
  BY WholeFacts
<1>3. Break \in Parts /\ Part(n, "head") \in Parts
  BY DEF Break, Part, Parts
<1>4. Append(Whole(n), Break) \in Seq(Parts) /\ Len(Append(Whole(n), Break)) = 3
  <2>1. PICK whole \in Seq(Parts) : whole = Whole(n) /\ Len(whole) = 2
    BY <1>2
  <2>2. PICK zero \in Parts : zero = Break
    BY <1>3
  <2>3. Append(whole, zero) \in Seq(Parts) /\ Len(Append(whole, zero)) = 2 + 1
    BY <2>1, LastFacts
  <2> QED
    BY <2>1, <2>2, <2>3
<1>5. <<Part(n, "head")>> \in Seq(Parts) /\ Len(<<Part(n, "head")>>) = 1
  BY <1>3
<1> QED
  BY <1>1, <1>2, <1>4, <1>5 DEF WhatCame

\* The loop adds what it took to the buffer, or to the one that is gone.
LEMMA LoopExtendsKeeps ==
  ASSUME BusInv, LoopExtends, BufferLimit >= 3
  PROVE  BusInv'
<1>1. /\ EmsTyped /\ Late /\ Coming /\ Showing /\ loop.at = "reading"
      /\ buffer' = Extended(buffer \o loop.chunk) \/ (loop.swapped /\ buffer' = buffer)
      /\ port' = [port EXCEPT !.silent = FALSE] /\ loop' = [Asleep EXCEPT !.at = "read"]
      /\ UNCHANGED <<bus, sending, uart, breaks, frames, values, shown, read, dropped, hit>>
  BY DEF BusInv, LoopExtends
<1>2. /\ port'.irq = port.irq /\ port'.zero = port.zero /\ ~port'.silent
      /\ port' \in [irq : BOOLEAN, zero : BOOLEAN, silent : BOOLEAN]
  BY <1>1 DEF EmsTyped
<1>3. /\ loop'.at = "read" /\ loop'.chunk = << >> /\ ~loop'.swapped /\ ~loop'.changed
      /\ loop' \in [at : {"asleep", "reading", "read", "draining"}, chunk : Seq(Parts),
                    swapped : BOOLEAN, changed : BOOLEAN]
  BY <1>1, EmptySeq DEF Asleep
<1>4. PICK both : both = buffer \o loop.chunk
  OBVIOUS
<1>5. /\ buffer \in Seq(Parts) /\ loop.chunk \in Seq(Parts) /\ uart \in Seq(Parts)
      /\ both \in Seq(Parts) /\ Contents = both \o uart /\ Len(both) <= Len(Contents)
      /\ Contents # << >> /\ loop.chunk # << >>
  BY <1>1, <1>4, ContentsFacts DEF Coming, Contents
<1>6. Numbers(both) = Numbers(buffer) \cup Numbers(loop.chunk)
  BY <1>4, <1>5, NumbersFacts
<1>7. \/ buffer' = both
      \/ buffer' \in {<< >>, buffer} /\ Pardoned(Len(bus))
  <2>1. CASE buffer' = Extended(both)
    <3>1. CASE Len(both) > BufferLimit
      <4>1. SUFFICES ASSUME ~Pardoned(Len(bus)) PROVE FALSE
        BY <2>1, <3>1 DEF Extended
      <4>2. Contents = WhatCame /\ Len(bus) >= 1
        BY <1>1, <1>5, <4>1 DEF Coming
      <4>3. Len(Contents) <= 3
        BY <1>1, <4>2, WhatCameFacts
      <4>4. Len(both) \in Nat /\ Len(Contents) \in Nat /\ BufferLimit \in Nat
        BY <1>1, <1>5, ContentsFacts, LenProperties, EmsAssumption
      <4> QED
        BY <1>5, <3>1, <4>3, <4>4
    <3>2. CASE ~(Len(both) > BufferLimit)
      BY <2>1, <3>2 DEF Extended
    <3> QED
      BY <3>1, <3>2
  <2>2. CASE loop.swapped /\ buffer' = buffer
    BY <1>1, <2>2 DEF Coming
  <2> QED
    BY <1>1, <1>4, <2>1, <2>2
<1>8. buffer' \in Seq(Parts)
  BY <1>5, <1>7, EmptySeq
<1>9. EmsTyped'
  BY <1>1, <1>2, <1>3, <1>8 DEF EmsTyped
<1>10. Late'
  BY <1>1, <1>2 DEF Late
<1>11. InHand' \subseteq InHand /\ (buffer' = both => InHand' = InHand)
  <2>1. InHand' = Numbers(buffer') \cup Numbers(uart)
    BY <1>1, <1>3, NumbersFacts DEF InHand
  <2>2. Numbers(buffer') \subseteq Numbers(buffer) \cup Numbers(loop.chunk)
    BY <1>6, <1>7, NumbersFacts
  <2> QED
    BY <1>6, <2>1, <2>2 DEF InHand
<1>12. buffer' = both => Contents' = Contents
  <2>1. both \o << >> = both
    BY <1>5, ConcatEmptySeq
  <2> QED
    BY <1>1, <1>3, <1>5, <2>1 DEF Contents
<1>13. Pardoned(Len(bus))' <=> Pardoned(Len(bus))
  BY <1>1 DEF Pardoned
<1>14. Coming'
  <2>1. WhatCame' = WhatCame
    BY <1>1, <1>2 DEF WhatCame
  <2>2. ~Pardoned(Len(bus)) => Contents' = Contents
    BY <1>7, <1>12, <1>13
  <2>3. port.irq /\ ~sending /\ breaks = << >> => Len(bus) \in hit
    BY <1>1, <1>5 DEF Coming
  <2> QED
    BY <1>1, <1>2, <1>3, <1>11, <1>13, <2>1, <2>2, <2>3 DEF Coming
<1>15. Queued' /\ Somewhere' /\ ValuesAreReal'
  <2>1. ASSUME NEW m \in InHand PROVE m \in InHand' \/ Pardoned(m)'
    <3>1. CASE buffer' = both
      BY <1>11, <2>1, <3>1
    <3>2. CASE Pardoned(Len(bus))
      <4>1. m = Len(bus) \/ m \in hit
        BY <1>1, <2>1 DEF Coming
      <4> QED
        BY <1>1, <3>2, <4>1 DEF Pardoned
    <3> QED
      BY <1>7, <3>1, <3>2
  <2> QED
    BY <1>1, <2>1, RestKeeps
<1>16. Showing'
  BY <1>1 DEF Showing
<1> QED
  BY <1>9, <1>10, <1>14, <1>15, <1>16 DEF BusInv

\* A pass ends: what has changed is published.
LEMMA LoopPublishesKeeps ==
  ASSUME BusInv, LoopPublishes
  PROVE  BusInv'
<1>1. /\ EmsTyped /\ Late /\ Coming /\ Showing /\ loop.at = "draining"
      /\ loop' = Asleep /\ shown' = (IF loop.changed THEN values ELSE shown)
      /\ UNCHANGED <<bus, sending, port, uart, breaks, buffer, frames, values, read, dropped, hit>>
  BY DEF BusInv, LoopPublishes
<1>2. /\ loop.chunk = << >> /\ ~loop.swapped
  BY <1>1 DEF Coming
<1>3. /\ loop'.at = "asleep" /\ loop'.chunk = << >> /\ ~loop'.swapped
      /\ loop' \in [at : {"asleep", "reading", "read", "draining"}, chunk : Seq(Parts),
                    swapped : BOOLEAN, changed : BOOLEAN]
  BY <1>1, EmptySeq DEF Asleep
<1>4. EmsTyped'
  BY <1>1, <1>3 DEF EmsTyped
<1>5. Late'
  BY <1>1 DEF Late
<1>6. InHand' = InHand /\ Contents' = Contents /\ WhatCame' = WhatCame
  BY <1>1, <1>2, <1>3 DEF InHand, Contents, WhatCame
<1>7. Coming'
  <2>1. Pardoned(Len(bus))' <=> Pardoned(Len(bus))
    BY <1>1 DEF Pardoned
  <2> QED
    BY <1>1, <1>2, <1>3, <1>6, <2>1 DEF Coming
<1>8. Queued' /\ Somewhere' /\ ValuesAreReal'
  BY <1>1, <1>6, RestKeeps
<1>9. Showing'
  BY <1>1 DEF Showing
<1> QED
  BY <1>4, <1>5, <1>7, <1>8, <1>9 DEF BusInv

\* Stripped of the break, a whole telegram is what it is; of the last byte of its own, it is not.
LEMMA DelimitedFacts ==
  ASSUME EmsTyped, NEW n \in 1 .. Len(bus)
  PROVE  /\ Stripped(Append(Whole(n), Break)) = Whole(n)
         /\ IsZero(Last(Append(Whole(n), Break)))
         /\ CrcOk(Whole(n))
         /\ Delimited(Append(Whole(n), Break)) = Whole(n)
         /\ Delimited(Whole(n)) = Whole(n)
<1>1. n \in Nat \ {0} /\ Len(bus) \in Nat
  BY DEF EmsTyped
<1>2. Break \in Parts /\ Part(n, "tail") \in Parts /\ Part(n, "head") \in Parts
  BY <1>1 DEF Break, Part, Parts
<1>3. /\ Whole(n) \in Seq(Parts) /\ Whole(n) # << >>
      /\ Len(Whole(n)) = 2 /\ Whole(n)[2] = Part(n, "tail")
  BY <1>1, WholeFacts
<1>4. CrcOk(Whole(n))
  BY DEF CrcOk
<1>5. /\ Last(Append(Whole(n), Break)) = Break /\ Front(Append(Whole(n), Break)) = Whole(n)
  BY <1>2, <1>3, LastFacts
<1>6. Stripped(Append(Whole(n), Break)) = Whole(n) /\ IsZero(Last(Append(Whole(n), Break)))
  BY <1>5 DEF Stripped, IsZero
<1>7. ~CrcOk(Stripped(Whole(n)))
  <2>1. Last(Whole(n)) = Part(n, "tail") /\ Part(n, "tail") # Break
    BY <1>3 DEF Last, Part, Break
  <2>2. PICK front, cut : front = Front(Whole(n)) /\ cut = [Part(n, "tail") EXCEPT !.part = "cut"]
    OBVIOUS
  <2>3. Stripped(Whole(n)) = Append(front, cut)
    BY <2>1, <2>2 DEF Stripped
  <2>4. Stripped(Whole(n)) \in Seq(Parts)
    BY <1>3, StrippedFacts
  <2>5. SUFFICES ASSUME NEW k \in 1 .. Len(bus), Append(front, cut) = Whole(k) PROVE FALSE
    BY <2>3 DEF CrcOk
  <2>6. k \in Nat \ {0}
    BY <1>1
  <2>7. /\ Len(Append(front, cut)) = 2 /\ Append(front, cut)[2] = Part(k, "tail")
    BY <2>5, <2>6, WholeFacts
  <2>8. front \in Seq(Parts) /\ Len(front) = 1
    BY <1>3, <2>2 DEF Front
  <2>9. cut = [of |-> n, part |-> "cut"] /\ cut \in Parts
    BY <1>1, <2>2 DEF Part, Parts
  <2>10. Append(front, cut)[2] = cut
    <3>1. Append(front, cut)[Len(front) + 1] = cut
      BY <2>8, <2>9, AppendProperties
    <3>2. Len(front) + 1 = 2
      BY <2>8
    <3> QED
      BY <3>1, <3>2
  <2> QED
    BY <2>7, <2>9, <2>10 DEF Part
<1>8. Delimited(Whole(n)) = Whole(n)
  BY <1>7 DEF Delimited
<1>9. Delimited(Append(Whole(n), Break)) = Whole(n)
  BY <1>4, <1>6 DEF Delimited
<1> QED
  BY <1>4, <1>6, <1>8, <1>9

\* What is queued without an interrupt: a telegram, or what was in the buffer.
LEMMA LoopDelimitsKeeps ==
  ASSUME BusInv, LoopDelimits
  PROVE  BusInv'
<1>0. PICK n : n = Len(bus)
  OBVIOUS
<1>1. /\ EmsTyped /\ Late /\ Coming /\ Queued /\ Somewhere /\ ValuesAreReal /\ Showing
      /\ loop.at = "read" \/ (loop.at = "asleep" /\ uart = << >>)
      /\ loop' = [loop EXCEPT !.at = "draining"]
      /\ UNCHANGED <<bus, sending, port, uart, breaks, values, shown, read, hit>>
      /\ n = Len(bus) /\ n \in Nat
  BY <1>0 DEF BusInv, LoopDelimits, EmsTyped
<1>2. /\ loop.at # "reading" /\ loop.chunk = << >> /\ ~loop.swapped
  BY <1>1 DEF Coming
<1>3. /\ loop'.at = "draining" /\ loop'.chunk = << >> /\ ~loop'.swapped
      /\ loop'.changed = loop.changed
      /\ loop' \in [at : {"asleep", "reading", "read", "draining"}, chunk : Seq(Parts),
                    swapped : BOOLEAN, changed : BOOLEAN]
  BY <1>1, <1>2 DEF EmsTyped
<1>4. Late'
  BY <1>1 DEF Late
<1>5. Showing'
  BY <1>1, <1>3 DEF Showing
<1>6. /\ WhatCame' = WhatCame /\ (Pardoned(Len(bus))' <=> Pardoned(Len(bus)))
  BY <1>1 DEF WhatCame, Pardoned
<1>7. CASE ~(~port.irq /\ buffer # << >> /\ port.silent)
  <2>1. UNCHANGED <<buffer, frames, dropped>>
    BY <1>7 DEF LoopDelimits
  <2>2. EmsTyped'
    BY <1>1, <1>3, <2>1 DEF EmsTyped
  <2>3. InHand' = InHand /\ Contents' = Contents
    BY <1>1, <1>2, <1>3, <2>1 DEF InHand, Contents
  <2>4. Coming'
    BY <1>1, <1>2, <1>3, <1>6, <2>3 DEF Coming
  <2>5. Queued' /\ Somewhere' /\ ValuesAreReal'
    BY <1>1, <2>1, <2>3, RestKeeps
  <2> QED
    BY <1>4, <1>5, <2>2, <2>4, <2>5 DEF BusInv
<1>8. CASE ~port.irq /\ buffer # << >> /\ port.silent
  <2>1. PICK frame : frame = Delimited(buffer)
    OBVIOUS
  <2>2. buffer' = << >> /\ QueueFrame(frame)
    BY <1>8, <2>1 DEF LoopDelimits
  <2>3. uart = << >> /\ ~sending /\ breaks = << >>
    BY <1>1, <1>2, <1>8 DEF Coming, Late
  <2>4. buffer \in Seq(Parts) /\ Contents = buffer /\ InHand = Numbers(buffer)
    <3>1. buffer \in Seq(Parts)
      BY <1>1 DEF EmsTyped
    <3>2. buffer \o << >> = buffer
      BY <3>1, ConcatEmptySeq
    <3> QED
      BY <1>2, <2>3, <3>1, <3>2, NumbersFacts DEF Contents, InHand
  <2>5. frame \in Seq(Parts) /\ Numbers(frame) = Numbers(buffer)
    BY <1>8, <2>1, <2>4, StrippedFacts DEF Delimited
  <2>6. CrcOk(frame) \/ Pardoned(Len(bus))
    <3>1. SUFFICES ASSUME ~Pardoned(Len(bus)) PROVE CrcOk(frame)
      OBVIOUS
    <3>2. buffer = WhatCame /\ n \in 1 .. Len(bus)
      BY <1>1, <1>8, <2>4, <3>1 DEF Coming
    <3>3. buffer = Append(Whole(n), Break) \/ buffer = Whole(n)
      BY <1>1, <2>3, <3>2 DEF WhatCame
    <3>4. frame = Whole(n)
      BY <1>1, <2>1, <3>2, <3>3, DelimitedFacts
    <3> QED
      BY <1>1, <3>2, <3>4, DelimitedFacts
  <2>7. \A m \in Numbers(frame) : m \in 1 .. Len(bus) /\ (m = Len(bus) \/ m \in hit')
    BY <1>1, <2>4, <2>5 DEF Coming
  <2>8. CrcOk(frame) \/ \A m \in Numbers(frame) : Pardoned(m)'
    BY <1>1, <2>6, <2>7 DEF Pardoned
  <2>9. /\ Queued' /\ frames' \in Seq(Seq(Parts)) /\ dropped \subseteq dropped'
        /\ \A m : InFrames(m) => InFrames(m)' \/ m \in dropped'
        /\ \A m \in Numbers(frame) : InFrames(m)'
    <3>1. hit \subseteq hit' /\ hit' \subseteq 1 .. Len(bus)
      BY <1>1 DEF EmsTyped
    <3> QED
      BY <1>1, <2>2, <2>5, <2>7, <2>8, <3>1, Enqueue
  <2>10. EmsTyped'
    BY <1>1, <1>3, <2>2, <2>9, EmptySeq DEF EmsTyped
  <2>11. Contents' = << >> /\ InHand' = {}
    <3>1. << >> \o << >> = << >>
      BY ConcatEmptySeq, EmptySeq
    <3> QED
      BY <1>1, <1>3, <2>2, <2>3, <3>1, NumbersFacts DEF Contents, InHand
  <2>12. Coming'
    BY <1>1, <1>3, <1>6, <1>8, <2>3, <2>11 DEF Coming
  <2>13. Somewhere'
    <3>1. \A m : Pardoned(m) => Pardoned(m)'
      BY <1>1 DEF Pardoned
    <3> QED
      BY <1>1, <2>4, <2>5, <2>9, <3>1 DEF Somewhere, Sent
  <2>14. ValuesAreReal'
    BY <1>1, RealKeeps
  <2> QED
    BY <1>4, <1>5, <2>9, <2>10, <2>12, <2>13, <2>14 DEF BusInv
<1> QED
  BY <1>7, <1>8

\* A value of bytes that are all there is that of the telegram.
LEMMA AssembledFacts ==
  ASSUME EmsTyped, NEW n \in 1 .. Len(bus), NEW k \in Key, FragmentHas(n, k)
  PROVE  Assembled(n, k) = n
<1>1. bus[n] \in Telegram
  BY ElementOfSeq DEF EmsTyped
<1>2. Layout[bus[n].type] \in [Key -> (SUBSET Nat) \ {{}}]
  BY <1>1, EmsAssumption
<1>3. PICK bytes : bytes = Layout[bus[n].type][k]
  OBVIOUS
<1>4. bytes # {} /\ bytes \subseteq bus[n].first .. bus[n].last
  BY <1>2, <1>3 DEF FragmentHas
<1>5. {Byte(n, at) : at \in bytes} = {n}
  BY <1>4 DEF Byte
<1>6. Cardinality({n}) = 1
  BY FS_Singleton
<1> QED
  BY <1>3, <1>5, <1>6 DEF Assembled

\* A frame is decoded: the values of a telegram that came whole, or nothing.
LEMMA LoopDecodesKeeps ==
  ASSUME BusInv, LoopDecodes
  PROVE  BusInv'
<1>1. /\ EmsTyped /\ Late /\ Coming /\ Queued /\ Somewhere /\ ValuesAreReal /\ Showing
      /\ loop.at = "draining" /\ frames # << >> /\ frames' = Tail(frames)
      /\ UNCHANGED <<bus, sending, port, uart, breaks, buffer, shown, dropped, hit>>
  BY DEF BusInv, LoopDecodes
<1>2. PICK frame : frame = Head(frames)
  OBVIOUS
<1>3. /\ frames \in Seq(Seq(Parts)) /\ Len(frames) \in Nat \ {0} /\ frame = frames[1]
      /\ frames' \in Seq(Seq(Parts)) /\ Len(frames') = Len(frames) - 1
      /\ \A i \in 1 .. Len(frames') : frames'[i] = frames[i + 1]
  <2>1. frames \in Seq(Seq(Parts))
    BY <1>1 DEF EmsTyped
  <2> QED
    BY <1>1, <1>2, <2>1, HeadTailProperties, EmptySeq
<1>4. /\ Numbers(frame) \subseteq 1 .. Len(bus)
      /\ CrcOk(frame) \/ \A m \in Numbers(frame) : Pardoned(m)
      /\ \A a \in (1 .. Len(bus)) \ hit : frame = Whole(a) => InOrder(a, 1)
  BY <1>1, <1>3 DEF Queued
<1>5. \/ \E n \in 1 .. Len(bus) :
           /\ frame = Whole(n) /\ read' = read \cup {n}
           /\ values' = [k \in Key |-> IF k \in Decodes(n) THEN Assembled(n, k) ELSE values[k]]
           /\ loop' = [loop EXCEPT !.changed = @ \/ values' # values]
      \/ ~CrcOk(frame) /\ UNCHANGED <<values, loop, read>>
  <2>1. CASE CrcOk(frame)
    <3>1. PICK n \in 1 .. Len(bus) : frame = Whole(n)
      BY <2>1 DEF CrcOk
    <3>2. n \in Nat \ {0}
      BY <1>1, <3>1 DEF EmsTyped
    <3>3. frame[1].of = n /\ n # 0
      BY <3>1, <3>2, WholeFacts
    <3> QED
      BY <1>2, <2>1, <3>1, <3>3 DEF LoopDecodes
  <2>2. CASE ~CrcOk(frame)
    BY <1>2, <2>2 DEF LoopDecodes
  <2> QED
    BY <2>1, <2>2
<1>6. /\ loop'.at = loop.at /\ loop'.chunk = loop.chunk /\ loop'.swapped = loop.swapped
      /\ loop' \in [at : {"asleep", "reading", "read", "draining"}, chunk : Seq(Parts),
                    swapped : BOOLEAN, changed : BOOLEAN]
      /\ read' \subseteq 1 .. Len(bus)
  BY <1>1, <1>5 DEF EmsTyped
<1>7. EmsTyped'
  BY <1>1, <1>3, <1>6 DEF EmsTyped
<1>8. Late'
  BY <1>1 DEF Late
<1>9. /\ InHand' = InHand /\ Contents' = Contents /\ WhatCame' = WhatCame
      /\ (Pardoned(Len(bus))' <=> Pardoned(Len(bus)))
  BY <1>1, <1>6 DEF InHand, Contents, WhatCame, Pardoned
<1>10. Coming'
  BY <1>1, <1>6, <1>9 DEF Coming
<1>11. Showing'
  BY <1>1, <1>5 DEF Showing, EmsTyped
<1>12. \A m : Pardoned(m) => Pardoned(m)'
  BY <1>1 DEF Pardoned
<1>13. ASSUME NEW n \in 1 .. Len(bus), frame = Whole(n)
       PROVE  Numbers(frame) = {n}
  <2>1. n \in Nat \ {0}
    BY <1>1 DEF EmsTyped
  <2> QED
    BY <1>13, <2>1, WholeFacts
<1>14. Somewhere'
  <2>1. ASSUME NEW m \in Sent, InFrames(m)
        PROVE  InFrames(m)' \/ m \in read' \/ Pardoned(m)'
    <3>1. PICK i \in 1 .. Len(frames) : m \in Numbers(frames[i])
      BY <2>1 DEF InFrames
    <3>2. CASE i = 1
      BY <1>3, <1>4, <1>5, <1>12, <1>13, <3>1, <3>2
    <3>3. CASE i # 1
      <4>1. PICK j : j = i - 1
        OBVIOUS
      <4>2. j \in 1 .. Len(frames') /\ j + 1 = i
        BY <1>3, <3>3, <4>1
      <4> QED
        BY <1>3, <3>1, <4>2 DEF InFrames
    <3> QED
      BY <3>2, <3>3
  <2>2. read \subseteq read'
    BY <1>5
  <2> QED
    BY <1>1, <1>9, <1>12, <2>1, <2>2 DEF Somewhere, Sent
<1>15. Queued'
  <2>1. SUFFICES ASSUME NEW i \in 1 .. Len(frames')
                 PROVE  /\ frames'[i] # << >> /\ Numbers(frames'[i]) \subseteq 1 .. Len(bus)
                        /\ CrcOk(frames'[i]) \/ \A m \in Numbers(frames'[i]) : Pardoned(m)'
                        /\ \A a \in (1 .. Len(bus)) \ hit :
                             frames'[i] = Whole(a) => InOrder(a, i)'
    BY <1>1 DEF Queued, CrcOk
  <2>2. i \in Nat /\ i + 1 \in 1 .. Len(frames) /\ frames'[i] = frames[i + 1]
    BY <1>3
  <2>3. /\ frames[i + 1] # << >> /\ Numbers(frames[i + 1]) \subseteq 1 .. Len(bus)
        /\ CrcOk(frames[i + 1]) \/ \A m \in Numbers(frames[i + 1]) : Pardoned(m)
        /\ \A a \in (1 .. Len(bus)) \ hit : frames[i + 1] = Whole(a) => InOrder(a, i + 1)
    BY <1>1, <2>2 DEF Queued
  <2>4. ASSUME NEW a \in (1 .. Len(bus)) \ hit, frames'[i] = Whole(a)
        PROVE  InOrder(a, i)'
    <3>1. InOrder(a, i + 1)
      BY <2>2, <2>3, <2>4
    <3>2. ASSUME NEW m \in read' PROVE m <= a
      <4>1. CASE m \in read
        BY <3>1, <4>1 DEF InOrder
      <4>2. CASE m \notin read
        <5>1. m \in 1 .. Len(bus) /\ frames[1] = Whole(m)
          BY <1>3, <1>5, <3>2, <4>2
        <5>2. 1 \in 1 .. (i + 1) - 1
          BY <2>2, <2>1
        <5> QED
          BY <3>1, <5>1, <5>2 DEF InOrder
      <4> QED
        BY <4>1, <4>2
    <3>3. ASSUME NEW j \in 1 .. i - 1, NEW b \in 1 .. Len(bus), frames'[j] = Whole(b)
          PROVE  b <= a
      <4>1. j \in 1 .. Len(frames') /\ j + 1 \in 1 .. (i + 1) - 1
        BY <1>3, <2>2, <2>1
      <4>2. frames[j + 1] = Whole(b)
        BY <1>3, <3>3, <4>1
      <4> QED
        BY <3>1, <4>1, <4>2 DEF InOrder
    <3> QED
      BY <1>1, <3>2, <3>3 DEF InOrder
  <2> QED
    BY <1>12, <2>2, <2>3, <2>4
<1>16. ValuesAreReal'
  <2>1. CASE ~CrcOk(frame) /\ UNCHANGED <<values, loop, read>>
    BY <1>1, <2>1, RealKeeps
  <2>2. ASSUME NEW n \in 1 .. Len(bus), frame = Whole(n), read' = read \cup {n},
               values' = [k \in Key |-> IF k \in Decodes(n) THEN Assembled(n, k) ELSE values[k]]
        PROVE  ValuesAreReal'
    <3>0. \A k \in Key : {m \in read' : Carries(m, k)'} = {m \in read \cup {n} : Carries(m, k)}
      BY <1>1, <2>2 DEF Carries
    <3>1. SUFFICES ASSUME NEW k \in Key, NEW carriers,
                          carriers = {m \in read \cup {n} : Carries(m, k)}
                   PROVE  IF carriers = {} THEN values'[k] = 0
                          ELSE /\ values'[k] \in carriers
                               /\ \A m \in carriers : m > values'[k] => values'[k] \in hit
      BY <1>1, <3>0 DEF ValuesAreReal
    <3>2. Carries(n, k) <=> k \in Decodes(n)
      BY <3>1 DEF Carries, Decodes, FragmentHas
    <3>3. CASE k \in Decodes(n)
      <4>1. values'[k] = n
        BY <1>1, <2>2, <3>1, <3>3, AssembledFacts DEF Decodes
      <4>2. n \in carriers
        BY <3>1, <3>2, <3>3
      <4>3. n \notin hit => \A m \in read : m <= n
        BY <1>4, <2>2 DEF InOrder
      <4>4. \A m \in carriers : m > n => n \in hit
        <5>1. TAKE m \in carriers
        <5>2. CASE m \in read
          <6>1. m \in Int /\ n \in Int
            BY <1>1, <2>2, <5>2 DEF EmsTyped
          <6> QED
            BY <4>3, <5>2, <6>1
        <5>3. CASE m = n
          <6>1. n \in Int
            BY <1>1, <2>2 DEF EmsTyped
          <6> QED
            BY <5>3, <6>1
        <5> QED
          BY <3>1, <5>2, <5>3
      <4> QED
        BY <4>1, <4>2, <4>4
    <3>4. CASE k \notin Decodes(n)
      <4>1. values'[k] = values[k]
        BY <2>2, <3>1, <3>4
      <4>2. carriers = {m \in read : Carries(m, k)}
        BY <3>1, <3>2, <3>4
      <4> QED
        BY <1>1, <3>1, <4>1, <4>2 DEF ValuesAreReal
    <3> QED
      BY <3>3, <3>4
  <2> QED
    BY <1>5, <2>1, <2>2
<1> QED
  BY <1>7, <1>8, <1>10, <1>11, <1>14, <1>15, <1>16 DEF BusInv

\* Counting to one
LEMMA CountFacts ==
  ASSUME NEW k \in Nat
  PROVE  /\ k # 0 /\ k # 1 => k - 1 \in 1 .. k
         /\ k - 1 = 0 => k = 1
OBVIOUS

\* The interrupt queues what the buffer holds: a telegram, or what may be lost.
LEMMA BreakHandledKeeps ==
  ASSUME BusInv, BreakHandled, BufferLimit >= 3
  PROVE  BusInv'
<1>0. PICK n : n = Len(bus)
  OBVIOUS
<1>1. /\ EmsTyped /\ Late /\ Coming /\ Queued /\ Somewhere /\ ValuesAreReal /\ Showing
      /\ n = Len(bus) /\ n \in Nat /\ breaks # << >> /\ breaks' = Tail(breaks)
      /\ uart' = << >> /\ buffer' = << >>
      /\ hit' = hit \cup (IF loop.at = "reading" THEN {Head(breaks)} ELSE {})
      /\ UNCHANGED <<bus, sending, port, values, shown, read>>
  BY <1>0 DEF BusInv, BreakHandled, EmsTyped
<1>2. PICK raw : raw = buffer \o uart
  OBVIOUS
<1>3. PICK parts : parts = Extended(raw)
  OBVIOUS
<1>4. PICK frame : frame = IF parts # << >> /\ IsZero(Last(parts)) THEN Stripped(parts) ELSE parts
  OBVIOUS
<1>5. /\ buffer \in Seq(Parts) /\ uart \in Seq(Parts) /\ loop.chunk \in Seq(Parts)
      /\ raw \in Seq(Parts) /\ Numbers(raw) \subseteq InHand
  <2>1. buffer \in Seq(Parts) /\ uart \in Seq(Parts) /\ loop.chunk \in Seq(Parts)
    BY <1>1 DEF EmsTyped
  <2> QED
    BY <1>2, <2>1, ConcatProperties, NumbersFacts DEF InHand
<1>6. /\ frame \in Seq(Parts) /\ Numbers(frame) \subseteq InHand /\ QueueFrame(frame)
  <2>1. parts \in Seq(Parts) /\ Numbers(parts) \subseteq InHand
    BY <1>3, <1>5, NumbersFacts, EmptySeq DEF Extended
  <2>2. CASE parts = << >>
    <3>1. frame = << >> /\ UNCHANGED <<frames, dropped>>
      BY <1>2, <1>3, <1>4, <2>2 DEF BreakHandled
    <3> QED
      BY <2>1, <2>2, <3>1 DEF QueueFrame
  <2>3. CASE parts # << >>
    <3>1. QueueFrame(frame)
      BY <1>2, <1>3, <1>4, <2>3 DEF BreakHandled
    <3> QED
      BY <1>4, <2>1, <2>3, <3>1, StrippedFacts
  <2> QED
    BY <2>2, <2>3
<1>7. /\ loop'.at = loop.at /\ loop'.chunk = loop.chunk /\ loop'.changed = loop.changed
      /\ loop'.swapped => loop.swapped \/ loop.at = "reading"
      /\ loop' \in [at : {"asleep", "reading", "read", "draining"}, chunk : Seq(Parts),
                    swapped : BOOLEAN, changed : BOOLEAN]
  <2>1. loop' = [loop EXCEPT !.swapped = loop.swapped \/ (loop.at = "reading" /\ raw # << >>)]
    BY <1>2 DEF BreakHandled
  <2> QED
    BY <1>1, <2>1 DEF EmsTyped
<1>8. PICK full \in Nat : full = IF sending THEN n - 1 ELSE n
  <2>1. sending => n >= 1
    BY <1>1 DEF EmsTyped
  <2>2. (IF sending THEN n - 1 ELSE n) \in Nat
    BY <1>1, <2>1
  <2> QED
    BY <2>2
<1>9. /\ port.irq /\ port.zero /\ breaks \in Seq(Nat) /\ Len(breaks) \in Nat \ {0}
      /\ Len(breaks) <= full
      /\ \A i \in 1 .. Len(breaks) : /\ breaks[i] = full - Len(breaks) + i
                                     /\ breaks[i] < n => breaks[i] \in hit
  <2>1. breaks \in Seq(Nat)
    BY <1>1 DEF EmsTyped
  <2> QED
    BY <1>1, <1>8, <2>1, EmptySeq DEF Late, EmsTyped
<1>10. Head(breaks) = breaks[1] /\ Head(breaks) \in 1 .. n
  BY <1>1, <1>8, <1>9
<1>11. hit \subseteq hit' /\ hit' \subseteq 1 .. Len(bus) /\ (\A m : Pardoned(m) => Pardoned(m)')
  BY <1>1, <1>10 DEF EmsTyped, Pardoned
<1>12. /\ Tail(breaks) \in Seq(Nat) /\ Len(Tail(breaks)) = Len(breaks) - 1
       /\ \A i \in 1 .. Len(Tail(breaks)) : Tail(breaks)[i] = breaks[i + 1]
  BY <1>1, <1>9, HeadTailProperties
<1>13. Late'
  <2>1. ASSUME NEW i \in 1 .. Len(breaks')
        PROVE  breaks'[i] = full - Len(breaks') + i /\ (breaks'[i] < n => breaks'[i] \in hit')
    <3>1. i + 1 \in 1 .. Len(breaks) /\ breaks'[i] = breaks[i + 1]
      BY <1>1, <1>9, <1>12
    <3>2. breaks[i + 1] = full - Len(breaks) + (i + 1)
      BY <1>9, <3>1
    <3>3. Len(breaks') = Len(breaks) - 1 /\ i \in Int
      BY <1>1, <1>12
    <3>4. full - Len(breaks) + (i + 1) = full - Len(breaks') + i
      <4>1. full \in Int /\ Len(breaks) \in Int
        BY <1>8, <1>9
      <4> QED
        BY <3>3, <4>1
    <3> QED
      BY <1>9, <1>11, <3>1, <3>2, <3>4
  <2>2. Len(breaks') <= full
    BY <1>1, <1>8, <1>9, <1>12
  <2> QED
    BY <1>1, <1>8, <1>9, <2>1, <2>2 DEF Late
<1>14. EmsTyped' \/ frames' \notin Seq(Seq(Parts))
  BY <1>1, <1>7, <1>11, <1>12, EmptySeq DEF EmsTyped
\* When the last telegram is not to be lost, it has come whole.
<1>15. ASSUME ~Pardoned(n)'
       PROVE  /\ ~sending /\ breaks' = << >> /\ loop.chunk = << >> /\ ~loop.swapped
              /\ loop.at # "reading" /\ CrcOk(frame) /\ Numbers(frame) = InHand
  <2>1. n \notin hit' /\ n - 1 \notin hit' /\ n \notin hit /\ n - 1 \notin hit /\ ~Pardoned(n)
    BY <1>1, <1>11, <1>15 DEF Pardoned
  <2>2. ~sending /\ Len(breaks) = 1
    <3>1. CASE sending
      <4>1. full = n - 1 /\ breaks[Len(breaks)] = n - 1
        BY <1>8, <1>9, <3>1
      <4>2. n - 1 \in hit
        BY <1>1, <1>9, <4>1
      <4> QED
        BY <2>1, <4>2
    <3>2. CASE ~sending /\ Len(breaks) # 1
      <4>1. /\ full = n /\ Len(breaks) - 1 \in 1 .. Len(breaks)
        <5>1. Len(breaks) \in Nat \ {0} /\ Len(breaks) # 1
          BY <1>9, <3>2
        <5>2. Len(breaks) - 1 \in 1 .. Len(breaks)
          BY <5>1, CountFacts
        <5> QED
          BY <1>8, <3>2, <5>2
      <4>2. breaks[Len(breaks) - 1] = n - 1
        BY <1>1, <1>9, <4>1
      <4>3. n - 1 \in hit
        BY <1>1, <1>9, <4>1, <4>2
      <4> QED
        BY <2>1, <4>3
    <3> QED
      BY <3>1, <3>2
  <2>3. Head(breaks) = n
    BY <1>1, <1>8, <1>9, <1>10, <2>2
  <2>4. loop.at # "reading"
    BY <1>1, <2>1, <2>3
  <2>5. loop.chunk = << >> /\ ~loop.swapped
    BY <1>1, <2>4 DEF Coming
  <2>6. Contents = WhatCame /\ n \in 1 .. Len(bus)
    BY <1>1, <2>1 DEF Coming
  <2>7. Contents = raw
    <3>1. buffer \o << >> = buffer
      BY <1>5, ConcatEmptySeq
    <3> QED
      BY <1>2, <2>5, <3>1 DEF Contents
  <2>8. raw = Append(Whole(n), Break)
    BY <1>1, <1>9, <2>2, <2>6, <2>7 DEF WhatCame
  <2>9. Len(raw) <= 3 /\ Len(raw) \in Nat /\ BufferLimit \in Nat
    BY <1>1, <1>5, <2>6, <2>7, WhatCameFacts, LenProperties, EmsAssumption
  <2>10. parts = raw
    BY <1>3, <2>9 DEF Extended
  <2>11. raw # << >>
    <3>1. Break \in Parts /\ Whole(n) \in Seq(Parts)
      <4>1. n \in Nat \ {0}
        BY <1>1, <2>6
      <4> QED
        BY <4>1, WholeFacts DEF Break, Part, Parts
    <3> QED
      BY <2>8, <3>1, LastFacts
  <2>12. frame = Whole(n)
    BY <1>1, <1>4, <2>6, <2>8, <2>10, <2>11, DelimitedFacts
  <2>13. CrcOk(frame)
    BY <1>1, <2>6, <2>12, DelimitedFacts
  <2>14. Numbers(frame) = InHand
    <3>1. Numbers(raw) = InHand
      BY <1>1, <2>7, ContentsFacts
    <3>2. Numbers(Stripped(raw)) = Numbers(raw) /\ Stripped(raw) = Whole(n)
      BY <1>1, <1>5, <2>6, <2>8, <2>11, StrippedFacts, DelimitedFacts
    <3> QED
      BY <2>12, <3>1, <3>2
  <2>15. breaks' = << >>
    BY <1>1, <1>12, <2>2, EmptySeq
  <2> QED
    BY <2>2, <2>4, <2>5, <2>13, <2>14, <2>15
<1>16. \A m \in InHand : m \in 1 .. Len(bus) /\ (m = Len(bus) \/ m \in hit')
  BY <1>1, <1>11 DEF Coming
<1>17. Pardoned(n)' => \A m \in InHand : Pardoned(m)'
  BY <1>1, <1>16 DEF Pardoned
<1>18. /\ Queued' /\ frames' \in Seq(Seq(Parts)) /\ dropped \subseteq dropped'
       /\ \A m : InFrames(m) => InFrames(m)' \/ m \in dropped'
       /\ \A m \in Numbers(frame) : InFrames(m)'
  <2>1. \A m \in Numbers(frame) : m \in 1 .. Len(bus) /\ (m = Len(bus) \/ m \in hit')
    BY <1>6, <1>16
  <2>2. CrcOk(frame) \/ \A m \in Numbers(frame) : Pardoned(m)'
    BY <1>6, <1>15, <1>17
  <2> QED
    BY <1>1, <1>6, <1>11, <2>1, <2>2, Enqueue
<1>19. EmsTyped'
  BY <1>14, <1>18
<1>20. InHand' \subseteq InHand /\ Contents' = loop.chunk
  <2>1. << >> \o loop.chunk = loop.chunk /\ loop.chunk \o << >> = loop.chunk
    BY <1>5, ConcatEmptySeq
  <2> QED
    BY <1>1, <1>7, <2>1, NumbersFacts DEF InHand, Contents
<1>21. Coming'
  <2>1. \A m \in InHand' : m \in 1 .. Len(bus) /\ (m = Len(bus) \/ m \in hit')
    BY <1>16, <1>20
  <2>2. loop'.swapped => Pardoned(n)'
    BY <1>7, <1>15
  <2>3. ~sending /\ breaks' = << >> => n \in hit' \/ Contents' = << >>
    <3>1. SUFFICES ASSUME ~sending, breaks' = << >> PROVE n \in hit' \/ Contents' = << >>
      OBVIOUS
    <3>2. Len(breaks) = 1
      <4>1. Len(Tail(breaks)) = 0
        BY <1>1, <3>1, EmptySeq
      <4>2. Len(breaks) - 1 = 0 /\ Len(breaks) \in Nat
        BY <1>9, <1>12, <4>1
      <4> QED
        BY <4>2, CountFacts
    <3>3. Head(breaks) = n
      BY <1>8, <1>9, <1>10, <3>1, <3>2
    <3>4. CASE loop.at = "reading"
      BY <1>1, <3>3, <3>4
    <3>5. CASE loop.at # "reading"
      BY <1>1, <1>20, <3>5 DEF Coming
    <3> QED
      BY <3>4, <3>5
  <2>4. ~Pardoned(n)' => Contents' = << >> /\ ~sending /\ breaks' = << >>
    BY <1>15, <1>20
  <2>5. loop'.at # "reading" => ~loop'.swapped
    BY <1>1, <1>7 DEF Coming
  <2>6. Pardoned(n)' <=> Pardoned(Len(bus))'
    BY <1>1
  <2> QED
    BY <1>1, <1>7, <1>9, <2>1, <2>2, <2>3, <2>4, <2>5, <2>6 DEF Coming
<1>22. Somewhere'
  <2>1. \A m \in InHand : Pardoned(m)' \/ InFrames(m)'
    BY <1>15, <1>17, <1>18
  <2> QED
    BY <1>1, <1>11, <1>18, <2>1 DEF Somewhere, Sent
<1>23. ValuesAreReal'
  BY <1>1, <1>11, RealKeeps
<1>24. Showing'
  BY <1>1, <1>7 DEF Showing
<1> QED
  BY <1>13, <1>18, <1>19, <1>21, <1>22, <1>23, <1>24 DEF BusInv

\* In the beginning nothing has been sent.
LEMMA EmsBegins == EmsInit => BusInv
<1> SUFFICES ASSUME EmsInit PROVE BusInv
  OBVIOUS
<1>1. /\ bus = << >> /\ ~sending /\ sending = FALSE /\ uart = << >> /\ breaks = << >>
      /\ buffer = << >> /\ frames = << >> /\ loop = Asleep
      /\ read = {} /\ dropped = {} /\ hit = {} /\ Len(<< >>) = 0
      /\ port \in [irq : BOOLEAN, zero : BOOLEAN, silent : BOOLEAN] /\ (port.irq => port.zero)
      /\ ~port.silent
      /\ values = [k \in Key |-> 0] /\ shown = values
  BY DEF EmsInit
<1>2. loop.at = "asleep" /\ loop.chunk = << >> /\ ~loop.swapped
      /\ loop \in [at : {"asleep", "reading", "read", "draining"}, chunk : Seq(Parts),
                   swapped : BOOLEAN, changed : BOOLEAN]
  BY <1>1, EmptySeq DEF Asleep
<1>3. EmsTyped
  BY <1>1, <1>2, EmptySeq DEF EmsTyped
<1>4. Late
  BY <1>1 DEF Late
<1>5. InHand = {} /\ Contents = << >>
  BY <1>1, <1>2, <1>3, NumbersFacts, ContentsFacts DEF InHand
<1>6. Coming
  BY <1>1, <1>2, <1>5 DEF Coming
<1>7. Queued /\ Somewhere
  BY <1>1 DEF Queued, Somewhere, Sent
<1>8. ValuesAreReal
  <2>1. \A k \in Key : {m \in read : Carries(m, k)} = {} /\ values[k] = 0
    BY <1>1
  <2> QED
    BY <2>1 DEF ValuesAreReal
<1>9. Showing
  BY <1>1 DEF Showing
<1> QED
  BY <1>3, <1>4, <1>6, <1>7, <1>8, <1>9 DEF BusInv

\* Every telegram is somewhere, so it is in hand or settled.
LEMMA BusFacts == BusInv => ReadsTheBus
<1> SUFFICES ASSUME BusInv PROVE ReadsTheBus
  OBVIOUS
<1>1. EmsTyped /\ Somewhere /\ ValuesAreReal /\ Showing
  BY DEF BusInv
<1>2. LosesTwo
  <2>1. SUFFICES ASSUME NEW n \in Sent, n \notin Held, n \notin read, n \notin dropped
                 PROVE  n \in hit \/ n - 1 \in hit
    BY DEF LosesTwo
  <2>2. n \notin InHand
    BY <2>1 DEF InHand, Held
  <2>3. ASSUME NEW i \in 1 .. Len(frames) PROVE n \notin Numbers(frames[i])
    <3>1. frames[i] \in ToSet(frames)
      <4>1. DOMAIN frames = 1 .. Len(frames)
        BY <1>1, LenProperties DEF EmsTyped
      <4> QED
        BY <4>1 DEF ToSet
    <3> QED
      BY <2>1, <3>1 DEF Held
  <2> QED
    BY <1>1, <2>1, <2>2, <2>3 DEF Somewhere, InFrames, Pardoned
<1>3. IsShown
  BY <1>1 DEF Showing, IsShown
<1> QED
  BY <1>1, <1>2, <1>3 DEF ReadsTheBus

\* The invariant is inductive.
THEOREM BusInductive == ASSUME BufferLimit >= 3 PROVE EmsSpec => []BusInv
<1>1. ASSUME BusInv, [EmsNext]_emsVars
      PROVE  BusInv'
  <2>1. CASE UNCHANGED emsVars
    <3>1. /\ bus' = bus /\ sending' = sending /\ port' = port /\ uart' = uart
          /\ breaks' = breaks /\ buffer' = buffer /\ frames' = frames /\ loop' = loop
          /\ values' = values /\ shown' = shown /\ read' = read /\ dropped' = dropped
          /\ hit' = hit
      BY <2>1 DEF emsVars
    <3>2. EmsTyped' /\ Late' /\ Showing'
      BY <1>1, <3>1 DEF BusInv, EmsTyped, Late, Showing
    <3>3. InHand' = InHand /\ Contents' = Contents /\ WhatCame' = WhatCame
          /\ (Pardoned(Len(bus))' <=> Pardoned(Len(bus)))
      BY <3>1 DEF InHand, Contents, WhatCame, Pardoned
    <3>4. Coming'
      BY <1>1, <3>1, <3>3 DEF BusInv, Coming
    <3>5. Queued' /\ Somewhere' /\ ValuesAreReal'
      BY <1>1, <3>1, <3>3, RestKeeps
    <3> QED
      BY <3>2, <3>4, <3>5 DEF BusInv
  <2>2. CASE Begins \/ Completes \/ FallsSilent \/ BreakHandled
    BY <1>1, <2>2, BeginsKeeps, CompletesKeeps, FallsSilentKeeps, BreakHandledKeeps
  <2>3. CASE Loop
    BY <1>1, <2>3, LoopReadsKeeps, LoopExtendsKeeps, LoopDelimitsKeeps, LoopDecodesKeeps,
       LoopPublishesKeeps DEF Loop
  <2> QED
    BY <1>1, <2>1, <2>2, <2>3 DEF EmsNext
<1> QED
  BY <1>1, EmsBegins, PTL DEF EmsSpec

\* Whatever is on the bus, whenever the interrupt comes and however long the queue is, with a
\* buffer for a telegram and its break: a value is that of one telegram that carried it whole,
\* what happens to a telegram costs that one and the next, and what was published last is what
\* the driver has.
THEOREM ReadsTheBusHolds == ASSUME BufferLimit >= 3 PROVE EmsSpec => []ReadsTheBus
<1>1. BusInv => ReadsTheBus
  BY BusFacts
<1> QED
  BY <1>1, BusInductive, PTL
==============================================================================
