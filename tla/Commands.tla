------------------------------- MODULE Commands -------------------------------
(***************************************************************************)
(* A command from its submission over HTTPS or MQTT to its outcome: the    *)
(* ModuleBroker (message_broker.py), which runs the commands of all        *)
(* modules one after another, and the Modbus driver                        *)
(* (device_modules/modbus_transport.py), which answers later, from a task  *)
(* that shares the bus with the poll loop.  Every other driver has         *)
(* finished when set() returns.                                            *)
(*                                                                         *)
(* The program runs on one asyncio loop: an action is what happens between *)
(* two awaits.  The slaves (external) take requests in the order they were *)
(* sent, and may refuse, lose or answer one long after the driver's        *)
(* patience has ended.                                                     *)
(***************************************************************************)
EXTENDS Naturals, Sequences, FiniteSets

CONSTANTS
  Register,        \* addresses on the bus
  Polled,          \* those the poll loop reads
  Value,           \* what a command may write
  Command,         \* the commands that are submitted
  QueueLimit,      \* queue_limit
  OperationLimit,  \* operation_limit
  MaxCommands,     \* a bound of the model: commands submitted
  MaxLine,         \* a bound of the model: requests a slave holds
  Excused          \* the exposures after which nothing is guaranteed

Frame == [kind : {"read", "write"}, reg : Register, value : Value]

\* The module a command is for: the Modbus driver's, or one that has finished
\* when set() returns.
ModuleKind == {"bus", "plain"}

\* No register, no answer, no step of a task yet.
Absent == "none"

ASSUME CommandAssumption ==
  /\ Command \subseteq [module : ModuleKind, frame : Frame]
  /\ Absent \notin Register
  /\ Polled \subseteq Register /\ Value # {}
\* iotmd_runtime.py:416 keeps the defaults, 16 and 32.
ASSUME QueueAssumption ==
  /\ QueueLimit \in Nat \ {0} /\ OperationLimit \in Nat /\ OperationLimit > QueueLimit
  /\ MaxCommands \in Nat /\ MaxLine \in Nat

VARIABLES
  ops,       \* the operations, in the order of their submission
  table,     \* _operations: the operation an identifier stands for, 0 when none
  order,     \* _operation_order
  queue,     \* _queue
  current,   \* the operation ModuleBroker.run is at, 0 before the first
  task,      \* how far the driver's task for an operation is
  poll,      \* the poll loop: the register it reads, those still to be read
  busy,      \* _bus_busy
  reading,   \* entity['value'] of the polled registers: where it came from
  line,      \* the requests a slave has not answered yet (external)
  rx,        \* the UART's receive buffer (external)
  executed,  \* history: the operations whose effect has happened, in order
  exposed    \* history: the uncovered events that have happened

operations  == <<ops, table, order, queue, current>>
driver      == <<task, poll, busy, reading>>
wire        == <<line, rx, executed>>
commandVars == <<ops, table, order, queue, current, task, poll, busy, reading, line,
                 rx, executed, exposed>>

(***************************************************************************)
(* What the code does not cover (README, Exposures):                       *)
(*   reused  a request_id is submitted again before the operation that has *)
(*           it is settled, as a redelivery of QoS 1 does                  *)
(*   late    the driver goes on with an operation the broker has given up  *)
(*   slow    a request is sent while a slave still has an older one        *)
(***************************************************************************)
Exposure == {"reused", "late", "slow"}

Final      == {"complete", "failed"}
Unfinished == {"queued", "processing"}
\* A reply that fits no request: an exception, a CRC error, another slave's.
Garbled == [kind |-> Absent, reg |-> Absent, value |-> Absent]
Rest    == [at |-> Absent, left |-> {}]

CommandTypeOK ==
  /\ \A n \in DOMAIN ops :
       ops[n] \in [id : 1 .. MaxCommands, command : Command,
                   status : Unfinished \cup Final, answer : Register \cup {Absent}]
  /\ Len(ops) <= MaxCommands
  /\ table \in [1 .. MaxCommands -> 0 .. Len(ops)]
  /\ \A k \in DOMAIN order : order[k] \in 1 .. MaxCommands
  /\ Len(order) <= OperationLimit /\ Len(queue) <= QueueLimit
  /\ \A k \in DOMAIN queue : queue[k] \in DOMAIN ops
  /\ current \in 0 .. Len(ops)
  /\ task \in [1 .. MaxCommands -> {Absent, "wait", "wire", "done"}]
  /\ poll.at \in Polled \cup {Absent} /\ poll.left \subseteq Polled
  /\ busy = (poll.at # Absent \/ \E n \in DOMAIN ops : task[n] = "wire")
  /\ reading \in [Polled -> Register \cup {"zero"}]
  /\ Len(line) <= MaxLine
  /\ \A k \in DOMAIN line : line[k].by \in 0 .. Len(ops) /\ line[k].frame \in Frame
  /\ \A k \in DOMAIN rx : rx[k] \in Frame \cup {Garbled}
  /\ \A k \in DOMAIN executed : executed[k] \in DOMAIN ops
  /\ exposed \subseteq Exposure

-----------------------------------------------------------------------------
CommandInit ==
  /\ ops = <<>> /\ order = <<>> /\ queue = <<>> /\ current = 0
  /\ table = [i \in 1 .. MaxCommands |-> 0]
  /\ task = [n \in 1 .. MaxCommands |-> Absent]
  /\ poll = Rest /\ busy = FALSE
  /\ reading = [r \in Polled |-> "zero"]
  /\ line = <<>> /\ rx = <<>> /\ executed = <<>>
  /\ exposed = {}

Expose(e, happened) == exposed' = IF happened THEN exposed \cup {e} ELSE exposed

-----------------------------------------------------------------------------
(* The broker.                                                             *)

\* submit() refuses a command when the queue is full.
Room == Len(queue) < QueueLimit

\* What the retention of operations forgets: t is the table, o the order with
\* the new identifier, s the operations.
Forgotten(t, o, s) ==
  IF Len(o) <= OperationLimit \/ (t[o[1]] # 0 /\ s[t[o[1]]].status \in Unfinished)
  THEN t ELSE [t EXCEPT ![o[1]] = 0]

Kept(o) == IF Len(o) > OperationLimit THEN Tail(o) ELSE o

\* An operation whose outcome may still change.
Unsettled(n) == ops[n].status \in Unfinished \/ task[n] \in {"wait", "wire"}

\* An identifier is the client's, who may send it again, or a fresh one.
Submit(c, id) ==
  LET n == Len(ops) + 1
  IN /\ n <= MaxCommands
     /\ Room
     /\ id <= n
     /\ ops' = Append(ops, [id |-> id, command |-> c, status |-> "queued", answer |-> Absent])
     /\ LET o == Append(order, id)
        IN /\ order' = Kept(o)
           /\ table' = Forgotten([table EXCEPT ![id] = n], o, ops')
     /\ queue' = Append(queue, n)
     /\ Expose("reused", \E m \in DOMAIN ops : ops[m].id = id /\ Unsettled(m))
     /\ UNCHANGED <<current, driver, wire>>

\* run() takes the next command when the operation it is at has an outcome.
Free == current # 0 => ops[current].status # "processing"

Deferred(n) == ops[n].command.module = "bus"

Ended(n, status) == [ops EXCEPT ![n].status = status]

\* A command of a driver that answers later: set() starts its task.
TakeDeferred ==
  /\ Free /\ queue # <<>>
  /\ LET n == Head(queue)
     IN /\ Deferred(n)
        /\ ops' = Ended(n, "processing")
        /\ current' = n
        /\ task' = [task EXCEPT ![n] = "wait"]
  /\ queue' = Tail(queue)
  /\ UNCHANGED <<table, order, poll, busy, reading, wire, exposed>>

\* Any other: set() has done it, or raised.
TakePlain ==
  /\ Free /\ queue # <<>>
  /\ LET n == Head(queue)
     IN /\ ~Deferred(n)
        /\ current' = n
        /\ \/ ops' = Ended(n, "complete") /\ executed' = Append(executed, n)
           \/ ops' = Ended(n, "failed") /\ UNCHANGED executed
  /\ queue' = Tail(queue)
  /\ UNCHANGED <<table, order, driver, line, rx, exposed>>

\* Mutant: a timeout is noted nowhere.
GivenUpUnmarked(n) == ops
GivenUp(n) == Ended(n, "failed")

\* command_timeout_ms have passed; the driver is not told.
TimeOut ==
  /\ current # 0 /\ ops[current].status = "processing"
  /\ ops' = GivenUp(current)
  /\ UNCHANGED <<table, order, queue, current, driver, wire, exposed>>

\* Mutant: a response is booked on the module's last command.
AddresseeLatest(n) ==
  LET mine == {m \in DOMAIN ops : ops[m].command.module = "bus"}
  IN CHOOSE m \in mine : \A k \in mine : k <= m
\* complete_external: the operation a response of the driver is booked on.
Addressee(n) ==
  LET m == table[ops[n].id]
  IN IF m # 0 /\ ops[m].command.module = "bus" THEN m ELSE 0

Booked(n, ok, answer) ==
  LET m == Addressee(n)
  IN IF m = 0 THEN ops
     ELSE [ops EXCEPT ![m].status = IF ok THEN "complete" ELSE "failed",
                      ![m].answer = IF ok THEN answer ELSE Absent]

-----------------------------------------------------------------------------
(* The bus.  by is the operation a request belongs to, 0 for the poll loop.*)

IsLate(n)  == ops[n].status \in Final
FrameOf(n) == ops[n].command.frame
PollFrame(r) == [kind |-> "read", reg |-> r, value |-> CHOOSE v \in Value : TRUE]

Drained == <<>>

\* A request is written to the UART; the slave may not hear it.
Sends(by, frame) ==
  /\ rx' = Drained
  /\ line' \in {line} \cup
       IF Len(line) < MaxLine THEN {Append(line, [by |-> by, frame |-> frame])} ELSE {}
  /\ exposed' = exposed \cup (IF line # <<>> THEN {"slow"} ELSE {})
                       \cup (IF by # 0 /\ IsLate(by) THEN {"late"} ELSE {})
  /\ UNCHANGED executed

\* _acquire_bus and _modbus_read or _modbus_write up to the first await.
TaskSends(n) ==
  /\ task[n] = "wait" /\ ~busy
  /\ busy' = TRUE
  /\ task' = [task EXCEPT ![n] = "wire"]
  /\ Sends(n, FrameOf(n))
  /\ UNCHANGED <<operations, poll, reading>>

\* A reply carries the register and value of an echo, but of a read only data.
Fits(reply, frame) ==
  /\ reply.kind = frame.kind
  /\ frame.kind = "write" => reply = frame

\* The task's reply is there; whatever it is, the response is published.
TaskReply(n) ==
  /\ task[n] = "wire" /\ rx # <<>>
  /\ LET ok == Fits(Head(rx), FrameOf(n))
     IN ops' = Booked(n, ok, IF ok THEN Head(rx).reg ELSE Absent)
  /\ rx' = Tail(rx)
  /\ busy' = FALSE
  /\ task' = [task EXCEPT ![n] = "done"]
  /\ Expose("late", IsLate(n))
  /\ UNCHANGED <<table, order, queue, current, poll, reading, line, executed>>

TaskTimeout(n) ==
  /\ task[n] = "wire" /\ rx = <<>>
  /\ ops' = Booked(n, FALSE, Absent)
  /\ busy' = FALSE
  /\ task' = [task EXCEPT ![n] = "done"]
  /\ Expose("late", IsLate(n))
  /\ UNCHANGED <<table, order, queue, current, poll, reading, wire>>

\* A round of the poll loop over the entities that are due.
PollStarts ==
  /\ poll = Rest /\ ~busy
  /\ \E due \in SUBSET Polled : \E r \in due :
       /\ poll' = [at |-> r, left |-> due \ {r}]
       /\ Sends(0, PollFrame(r))
  /\ busy' = TRUE
  /\ UNCHANGED <<operations, task, reading>>

\* From one group to the next there is no await: nobody else gets the bus.
PollGoesOn ==
  \/ /\ poll.left = {}
     /\ poll' = Rest
     /\ busy' = FALSE
     /\ rx' = IF rx = <<>> THEN rx ELSE Tail(rx)
     /\ UNCHANGED <<line, executed, exposed>>
  \/ /\ \E r \in poll.left :
          /\ poll' = [at |-> r, left |-> poll.left \ {r}]
          /\ Sends(0, PollFrame(r))
     /\ UNCHANGED busy

PollReply ==
  /\ poll # Rest /\ rx # <<>>
  /\ reading' = IF Fits(Head(rx), PollFrame(poll.at))
                THEN [reading EXCEPT ![poll.at] = Head(rx).reg] ELSE reading
  /\ PollGoesOn
  /\ UNCHANGED <<operations, task>>

\* A register that does not answer reads 0.
PollTimeout ==
  /\ poll # Rest /\ rx = <<>>
  /\ reading' = [reading EXCEPT ![poll.at] = "zero"]
  /\ PollGoesOn
  /\ UNCHANGED <<operations, task>>

-----------------------------------------------------------------------------
(* The slaves: a request is carried out or not, and answered, refused,     *)
(* garbled or left without an answer.                                      *)

SlaveAnswers ==
  /\ line # <<>>
  /\ line' = Tail(line)
  /\ LET r == Head(line)
     IN \E done \in BOOLEAN :
          /\ executed' = IF done /\ r.by # 0 /\ r.frame.kind = "write"
                         THEN Append(executed, r.by) ELSE executed
          /\ rx' \in {rx, Append(rx, IF done THEN r.frame ELSE Garbled)}
  /\ UNCHANGED <<operations, driver, exposed>>

-----------------------------------------------------------------------------
CommandNext ==
  \/ \E c \in Command, id \in 1 .. MaxCommands : Submit(c, id)
  \/ TakeDeferred \/ TakePlain \/ TimeOut
  \/ \E n \in DOMAIN ops : TaskSends(n) \/ TaskReply(n) \/ TaskTimeout(n)
  \/ PollStarts \/ PollReply \/ PollTimeout
  \/ SlaveAnswers

\* The broker's loop runs and its clock goes on.  Nothing is asked of the bus:
\* the lock is polled, and who waits for it may never find it free.
CommandFairness == WF_commandVars(TakeDeferred \/ TakePlain) /\ WF_commandVars(TimeOut)

CommandSpec == CommandInit /\ [][CommandNext]_commandVars /\ CommandFairness

-----------------------------------------------------------------------------
(* Correctness, up to the first excused exposure.                          *)

Promised == exposed \cap Excused = {}

\* A command reported complete has happened, and what a read returns is the
\* register it asked for, whoever else was on the bus.
CompletedIsExecuted ==
  Promised => \A n \in DOMAIN ops :
    ops[n].status = "complete" =>
      IF Deferred(n) /\ FrameOf(n).kind = "read"
      THEN ops[n].answer = FrameOf(n).reg
      ELSE \E k \in DOMAIN executed : executed[k] = n

\* The poll loop never stores another register's reading under an entity.
ReadingIsOwn ==
  Promised => \A r \in Polled : reading[r] \in {"zero", r}

\* The commands of a module take effect in the order of their submission.
InOrder ==
  Promised => \A j, k \in DOMAIN executed :
    (j < k /\ Deferred(executed[j]) = Deferred(executed[k])) => executed[j] < executed[k]

\* An operation that was accepted and has no outcome yet can be polled under
\* its identifier.
Pollable ==
  Promised => \A n \in DOMAIN ops :
    ops[n].status \in Unfinished => table[ops[n].id] = n

\* Who has read complete or failed has read the outcome.
OutcomeIsFinal ==
  Promised' => \A n \in DOMAIN ops : ops[n].status \in Final => ops'[n] = ops[n]

\* Every command that was accepted gets an outcome: once no more are submitted
\* (MaxCommands), none is left without one.
Answered == []<>(\A n \in DOMAIN ops : ops[n].status \in Final)

\* An outcome that can be polled is what happened, in the order in which it was asked for.
OutcomesAreTrue == CommandTypeOK /\ CompletedIsExecuted /\ ReadingIsOwn /\ InOrder /\ Pollable

\* An outcome is true, and whoever has read it has read the last of it.
OutcomesStand == [][OutcomesAreTrue' /\ OutcomeIsFinal]_commandVars

=============================================================================
