------------------------------ MODULE EventHistory ------------------------------
(***************************************************************************)
(* What the device remembers of what happened: the numbered events and     *)
(* their checkpoints (runtime_health.py), the pages a fleet server reads   *)
(* them in by cursor, and the syslog queue the same events are written to  *)
(* (event_service.py, event_sinks.py, remote_logging.py).                  *)
(*                                                                         *)
(* The history is written to flash in batches, unless a caller forces it.  *)
(* A crash loses what was not written, and numbering goes on from what     *)
(* was.  The syslog queue lives in memory only; its worker awaits the      *)
(* server with the head of the queue still in it.                          *)
(***************************************************************************)
EXTENDS Integers, FiniteSets, SequencesExt

CONSTANTS
  MaxEvents,   \* MAX_EVENTS
  Changes,     \* DEFAULT_CHECKPOINT_CHANGES
  PageLimit,   \* events a page holds at most
  QueueLimit,  \* queue_limit of the syslog queue
  ApiExcused      \* the exposures after which nothing is guaranteed

ASSUME HistoryAssumption ==
  /\ MaxEvents \in Nat \ {0} /\ Changes \in 1 .. MaxEvents
  /\ PageLimit \in 1 .. MaxEvents /\ QueueLimit \in Nat \ {0}

VARIABLES
  up,        \* the application runs
  health,    \* HealthHistory, and the file it is checkpointed to
  number,    \* history: events ever recorded; an event's number is its own for ever
  cursor,    \* the cursor the reader was last given
  owed,      \* history: the numbers of the events the reader has not been told of
  forced,    \* history: the events whose forced checkpoint succeeded
  queue,     \* RemoteSyslog.queue, of message numbers
  sending,   \* the message the worker awaits the server with, 0 for none
  sent,      \* history: the messages that reached the server
  messages,  \* history: messages queued since the start
  apiExposed

historyVars == <<health, number, cursor, owed, forced>>
syslogVars  == <<queue, sending, sent, messages>>

(***************************************************************************)
(* What the code does not cover (README, Exposures):                       *)
(*   reused   a crash takes the numbering back behind the reader's cursor  *)
(*   cleared  the history is reset while a reader holds a cursor           *)
(*   torn     power fails between the removal of the old file and the      *)
(*            renaming of the new one                                      *)
(***************************************************************************)
HistoryExposure == {"reused", "cleared", "torn"}

Nothing == [events |-> <<>>, sequence |-> 0]

InitHistory ==
  /\ health = [events |-> <<>>, sequence |-> 0, dirty |-> 0, file |-> Nothing]
  /\ number = 0 /\ cursor = 0 /\ owed = {} /\ forced = {}
  /\ queue = <<>> /\ sending = 0 /\ sent = {} /\ messages = 0

\* events[-max_events:]
Newest(s) == IF Len(s) > MaxEvents THEN SubSeq(s, Len(s) - MaxEvents + 1, Len(s)) ELSE s

-----------------------------------------------------------------------------
(* HealthHistory.  works: the file system takes the write.  A checkpoint   *)
(* that fails is tried again at the next change; nobody asks for its       *)
(* result.                                                                 *)

\* Mutant: a forced checkpoint waits for its batch like any other.
CheckpointInBatches(h, force, works) ==
  IF works /\ h.dirty >= Changes
  THEN [h EXCEPT !.dirty = 0, !.file = [events |-> h.events, sequence |-> h.sequence]]
  ELSE h

Checkpoint(h, force, works) ==
  IF works /\ (force \/ h.dirty >= Changes)
  THEN [h EXCEPT !.dirty = 0, !.file = [events |-> h.events, sequence |-> h.sequence]]
  ELSE h

Dirty(h) == [h EXCEPT !.dirty = IF @ < Changes THEN @ + 1 ELSE @]

\* increment() and observe(): a counter or an observation changes
Increment(h, works) == Checkpoint(Dirty(h), FALSE, works)

\* record_event(), of the event with number n
Record(h, n, force, works) ==
  LET event == [id |-> h.sequence + 1, n |-> n]
  IN Checkpoint([Dirty(h) EXCEPT !.sequence = @ + 1, !.events = Newest(Append(@, event))],
                force, works)

\* record_boot(): the boot count, the reset cause, then the event
RecordBoot(h, n, works) ==
  Record(Increment(Increment(h, works), works), n, TRUE, works)

\* _load()
Loaded(file) == [events |-> Newest(file.events), sequence |-> file.sequence,
                 dirty |-> 0, file |-> file]

\* clear(), which raises when it could not write but has emptied the memory then
Cleared(h, works) ==
  Checkpoint([h EXCEPT !.events = <<>>, !.sequence = 0, !.dirty = Changes], TRUE, works)

\* cursor_gap
Gap(events) ==
  events # <<>> /\ cursor # 0 /\ cursor < events[1].id - 1

\* The events events_since() selects for the reader's cursor, in their order, and the cursor
\* it answers with
Page(events) ==
  LET after  == {i \in DOMAIN events : events[i].id > cursor}
      Nth(k) == CHOOSE i \in after : Cardinality({j \in after : j < i}) = k - 1
      size   == Cardinality(after)
  IN [k \in 1 .. (IF size < PageLimit THEN size ELSE PageLimit) |-> events[Nth(k)]]

NextCursor(page, sequence) ==
  IF page # <<>> THEN page[Len(page)].id
  ELSE IF cursor < sequence THEN cursor ELSE sequence

Numbers(s) == {s[i].n : i \in 1 .. Len(s)}

-----------------------------------------------------------------------------
(* The syslog queue.                                                       *)

\* Mutant: a full queue gives up its newest message.
RoomAtTheEnd(q) == IF Len(q) >= QueueLimit THEN Front(q) ELSE q

\* A full queue gives up its head, whether or not it is being sent.
Room(q) == IF Len(q) >= QueueLimit THEN Tail(q) ELSE q

\* enqueue(), reached by logOutput(): of an event through LegacyLogSink, or of a plain line
Enqueue ==
  /\ messages' = messages + 1
  /\ queue' = Append(Room(queue), messages + 1)
  /\ UNCHANGED <<sending, sent>>

SendBegins ==
  /\ up /\ sending = 0 /\ queue # <<>>
  /\ sending' = queue[1]
  /\ UNCHANGED <<up, historyVars, queue, sent, messages, apiExposed>>

\* The head is removed, which an overflow may have made another message than the one sent.
Sent ==
  /\ up /\ sending # 0
  /\ sent' = sent \cup {sending}
  /\ queue' = Tail(queue) /\ sending' = 0
  /\ UNCHANGED <<up, historyVars, messages, apiExposed>>

\* The connection breaks or cannot be made: what was written may have arrived.  The worker
\* closes it, sleeps and takes the head again.
SendFails ==
  /\ up /\ sending # 0
  /\ \/ sent' = sent \cup {sending}
     \/ UNCHANGED sent
  /\ sending' = 0
  /\ UNCHANGED <<up, historyVars, queue, messages, apiExposed>>

-----------------------------------------------------------------------------
(* What is recorded, read and lost.                                        *)

\* The history becomes h, with or without a new event.
Recorded(h, force) ==
  /\ health' = h
  /\ number' = number + 1
  /\ owed' = owed \cup {number + 1}
  /\ forced' = IF force THEN forced \cup {number + 1} ELSE forced
  /\ UNCHANGED cursor

\* EventService.emit() and the direct callers of record_event()
Happens ==
  /\ up
  /\ \E force, works, emitted \in BOOLEAN :
       /\ Recorded(Record(health, number + 1, force, works), force /\ works)
       /\ IF emitted THEN Enqueue ELSE UNCHANGED syslogVars
  /\ UNCHANGED <<up, apiExposed>>

\* A line of the log that is no event
Logs == up /\ Enqueue /\ UNCHANGED <<up, historyVars, apiExposed>>

\* The portal's reset-health-history
ClearHistory ==
  /\ up
  /\ \E works \in BOOLEAN : health' = Cleared(health, works)
  /\ owed' = {} /\ forced' = {}
  /\ apiExposed' = apiExposed \cup {"cleared"}
  /\ UNCHANGED <<up, number, cursor, syslogVars>>

\* events_since(), for the reader: whoever is told of a gap, or starts at nothing, knows that
\* it has not seen what is older than the page.
Told(page) ==
  Numbers(page) \cup
  IF Gap(health.events) \/ cursor = 0
  THEN {n \in owed : \A e \in ToSet(health.events) : e.n > n} ELSE {}

ReadPage(h) ==
  LET page == Page(h.events)
  IN /\ cursor' = NextCursor(page, h.sequence)
     /\ owed' = owed \ Told(page)

\* The device goes down and leaves this file.  What was recorded after it nobody knows any more.
CrashHistory(saved) ==
  /\ health' = [Loaded(saved) EXCEPT !.events = <<>>, !.sequence = 0]
  /\ owed' = {n \in owed : \E e \in ToSet(saved.events) : e.n >= n}
  /\ queue' = <<>> /\ sending' = 0 /\ sent' = {} /\ messages' = 0
  /\ UNCHANGED <<number, cursor, forced>>

CrashExposes(saved) ==
  (IF saved # health.file THEN {"torn"} ELSE {})
  \cup IF cursor > saved.sequence THEN {"reused"} ELSE {}

BootHistory(works) ==
  /\ Recorded(RecordBoot(Loaded(health.file), number + 1, works), works)
  /\ UNCHANGED syslogVars

-----------------------------------------------------------------------------
ApiTypeOK ==
  /\ health.sequence \in 0 .. number /\ health.dirty \in 0 .. Changes
  /\ Len(health.events) <= MaxEvents /\ Len(health.file.events) <= MaxEvents
  /\ cursor \in 0 .. number
  /\ owed \subseteq 1 .. number /\ forced \subseteq 1 .. number
  /\ Len(queue) <= QueueLimit /\ sending \in 0 .. messages
  /\ sent \subseteq 1 .. messages

\* The reader will be told of event n by a page to come: as one of its events, or as a gap.
WillBeTold(n) ==
  \/ cursor = 0
  \/ \E e \in ToSet(health.events) : e.n = n /\ e.id > cursor
  \/ Gap(health.events) /\ \A e \in ToSet(health.events) : e.n > n

\* Whatever happened, and was not forgotten in a crash, a reader that polls has seen or will
\* be told of: as an event, or by cursor_gap (docs/FLEET_PROTOCOL.md:38).
NothingMissed ==
  (up /\ apiExposed \cap ApiExcused = {}) => \A n \in owed : WillBeTold(n)

Displaced(n, events) ==
  \/ n \in Numbers(events)
  \/ Len(events) = MaxEvents /\ \A e \in ToSet(events) : e.n > n

\* An event whose caller forced the checkpoint survives a restart (runtime_health.py:3-5):
\* it is on file and in memory until MaxEvents newer ones have displaced it.
ForcedSurvives ==
  apiExposed \cap {"cleared", "torn"} = {} =>
    \A n \in forced : /\ Displaced(n, health.file.events)
                      /\ up => Displaced(n, health.events)

\* The queue gives up its oldest messages: one that was neither sent nor kept has all but one
\* of a full queue's messages behind it.  All but one, because a send that ends after an
\* overflow removes a message that was never sent.
KeepsNewest ==
  \A m \in 1 .. messages :
    \/ m \in sent \cup ToSet(queue)
    \/ messages - m >= QueueLimit - 1

\* A reader learns of every event, the forced ones survive a restart, and the queue of the
\* remote log keeps its newest messages.
HistoryKept == NothingMissed /\ ForcedSurvives /\ KeepsNewest
=============================================================================
