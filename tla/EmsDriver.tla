------------------------------- MODULE EmsDriver --------------------------------
(***************************************************************************)
(* The boiler driver (device_modules/ems.py): telegrams of a heating bus,  *)
(* which it only listens to, become the values it publishes.               *)
(*                                                                         *)
(* Two actors share the receive buffer.  The interrupt of the break that   *)
(* ends every telegram reads the UART and queues what the buffer holds;    *)
(* the read loop reads the same UART every few milliseconds, and decodes   *)
(* what is queued.  MicroPython runs the handler of an interrupt between   *)
(* two bytecodes of the loop, sooner or later.  Without that interrupt a   *)
(* telegram ends where the line was silent.                                *)
(*                                                                         *)
(* A telegram arrives as its head, its tail and the zero byte a UART makes *)
(* of the break.  A value is the telegram it was read from, and the CRC of *)
(* anything but a whole telegram is taken to be wrong.                     *)
(***************************************************************************)
EXTENDS Integers, Sequences, FiniteSets, SequencesExt

CONSTANTS
  Telegram,      \* what may be on the bus (type, first and last byte, zero CRC, values missing)
  Key,           \* values the device is configured to publish
  Layout,        \* type of telegram -> value -> the bytes that carry it
  BufferLimit,   \* max_frame_bytes, in parts of a telegram
  FrameLimit,    \* frame_queue
  MaxTelegrams   \* a bound of the model

ASSUME EmsAssumption ==
  /\ \A t \in Telegram : /\ t.zeroCrc \in BOOLEAN /\ t.first \in Nat /\ t.last \in Nat
                         /\ t.missing \subseteq Key /\ t.type \in DOMAIN Layout
  /\ \A type \in DOMAIN Layout : Layout[type] \in [Key -> (SUBSET Nat) \ {{}}]
  /\ BufferLimit \in Nat \ {0} /\ FrameLimit \in Nat \ {0} /\ MaxTelegrams \in Nat

VARIABLES
  bus,       \* the telegrams sent so far
  sending,   \* the last of them is not complete
  port,      \* [irq |-> the break raises an interrupt, zero |-> it leaves a byte, silent |-> for
             \* longer than frame_gap_ms]
  uart,      \* parts that were received and not yet read
  breaks,    \* telegrams whose break waits for its handler
  buffer,    \* _rx_buffer
  frames,    \* _rx_frames
  loop,      \* the read loop: where it is, the chunk it has read, and whether the buffer it
             \* belongs to was taken away meanwhile, or a value has changed
  values,    \* _values, by the number of the telegram
  shown,     \* what was published last
  read,      \* telegrams that were decoded (history)
  dropped,   \* telegrams of frames that made room for others (history)
  hit        \* telegrams something happened to (history)

emsVars == <<bus, sending, port, uart, breaks, buffer, frames, loop, values, shown, read,
             dropped, hit>>

Part(n, part) == [of |-> n, part |-> part]
Break == Part(0, "break")
Whole(n) == <<Part(n, "head"), Part(n, "tail")>>
Asleep == [at |-> "asleep", chunk |-> << >>, swapped |-> FALSE, changed |-> FALSE]

EmsInit ==
  /\ bus = << >> /\ sending = FALSE
  /\ port \in {w \in [irq : BOOLEAN, zero : BOOLEAN, silent : {FALSE}] : w.irq => w.zero}
  /\ uart = << >> /\ breaks = << >> /\ buffer = << >> /\ frames = << >> /\ loop = Asleep
  /\ values = [k \in Key |-> 0] /\ shown = [k \in Key |-> 0]
  /\ read = {} /\ dropped = {} /\ hit = {}

-----------------------------------------------------------------------------
(* The bus.                                                                *)

Unread == buffer # << >> \/ uart # << >> \/ loop.chunk # << >>

\* The interrupt of a break is late when the next telegram begins before its handler ran, and
\* without interrupts silence is not noticed between two telegrams that follow closely.
Begins ==
  /\ ~sending /\ Len(bus) < MaxTelegrams
  /\ \E t \in Telegram : bus' = Append(bus, t)
  /\ sending' = TRUE
  /\ uart' = Append(uart, Part(Len(bus'), "head"))
  /\ hit' = hit \cup ToSet(breaks)
                \cup (IF ~port.irq /\ Unread THEN {Len(bus)} ELSE {})
  /\ UNCHANGED <<port, breaks, buffer, frames, loop, values, shown, read, dropped>>

Completes ==
  /\ sending /\ sending' = FALSE
  /\ uart' = uart \o <<Part(Len(bus), "tail")>> \o (IF port.zero THEN <<Break>> ELSE << >>)
  /\ breaks' = IF port.irq THEN Append(breaks, Len(bus)) ELSE breaks
  /\ UNCHANGED <<bus, port, buffer, frames, loop, values, shown, read, dropped, hit>>

\* frame_gap_ms since the loop read last: the loop reads what has come before it looks.
FallsSilent ==
  /\ ~sending /\ loop = Asleep /\ port' = [port EXCEPT !.silent = TRUE]
  /\ UNCHANGED <<bus, sending, uart, breaks, buffer, frames, loop, values, shown, read,
                 dropped, hit>>

-----------------------------------------------------------------------------
(* Frames.                                                                 *)

\* A last byte that is zero: that of the break, or the CRC
IsZero(part) == part = Break \/ (part.part = "tail" /\ bus[part.of].zeroCrc)

\* The last byte taken off
Stripped(parts) ==
  IF Last(parts) = Break THEN Front(parts)
  ELSE Append(Front(parts), [Last(parts) EXCEPT !.part = "cut"])

\* _frame_crc_ok()
CrcOk(frame) == \E n \in 1 .. Len(bus) : frame = Whole(n)

Numbers(parts) == {p.of : p \in ToSet(parts)} \ {0}

\* _queue_frame(): the oldest frame makes room.
QueueFrame(frame) ==
  IF frame = << >> THEN UNCHANGED <<frames, dropped>>
  ELSE IF Len(frames) < FrameLimit THEN frames' = Append(frames, frame) /\ UNCHANGED dropped
  ELSE /\ frames' = Append(Tail(frames), frame)
       /\ dropped' = dropped \cup Numbers(frames[1])

\* _read_uart(), once the bytes are read: a buffer that is too long starts anew.
Extended(parts) == IF Len(parts) > BufferLimit THEN << >> ELSE parts

\* _on_uart_break(): what the loop has read and not yet added is not in the buffer.
BreakHandled ==
  LET parts == Extended(buffer \o uart) IN
  /\ breaks # << >> /\ breaks' = Tail(breaks)
  /\ uart' = << >>
  /\ IF parts = << >> THEN buffer' = << >> /\ UNCHANGED <<frames, dropped>>
     ELSE /\ buffer' = << >>
          /\ QueueFrame(IF IsZero(Last(parts)) THEN Stripped(parts) ELSE parts)
  /\ loop' = [loop EXCEPT !.swapped = @ \/ (loop.at = "reading" /\ buffer \o uart # << >>)]
  /\ hit' = hit \cup (IF loop.at = "reading" THEN {Head(breaks)} ELSE {})
  /\ UNCHANGED <<bus, sending, port, values, shown, read>>

-----------------------------------------------------------------------------
(* The read loop.                                                          *)

\* uart.any() and uart.read(): what comes between the two is left for the next pass.
LoopReads ==
  /\ loop.at = "asleep" /\ uart # << >>
  /\ loop' = [loop EXCEPT !.at = "reading", !.chunk = uart] /\ uart' = << >>
  /\ UNCHANGED <<bus, sending, port, breaks, buffer, frames, values, shown, read, dropped, hit>>

\* self._rx_buffer.extend(chunk): of the buffer that is there now, or of the one that was
\* queued when it is looked up before the interrupt.
LoopExtends ==
  /\ loop.at = "reading"
  /\ \/ buffer' = Extended(buffer \o loop.chunk)
     \/ loop.swapped /\ UNCHANGED buffer
  /\ port' = [port EXCEPT !.silent = FALSE]
  /\ loop' = [Asleep EXCEPT !.at = "read"]
  /\ UNCHANGED <<bus, sending, uart, breaks, frames, values, shown, read, dropped, hit>>

\* Mutant: the zero is always taken for that of the break.
StrippedAlways(parts) == IF IsZero(Last(parts)) THEN Stripped(parts) ELSE parts

\* _queue_idle_buffer(): a zero is that of the break when the CRC is right without it.
Delimited(parts) ==
  IF IsZero(Last(parts)) /\ CrcOk(Stripped(parts)) THEN Stripped(parts) ELSE parts

LoopDelimits ==
  /\ loop.at = "read" \/ (loop.at = "asleep" /\ uart = << >>)
  /\ loop' = [loop EXCEPT !.at = "draining"]
  /\ IF ~port.irq /\ buffer # << >> /\ port.silent
       THEN buffer' = << >> /\ QueueFrame(Delimited(buffer))
       ELSE UNCHANGED <<buffer, frames, dropped>>
  /\ UNCHANGED <<bus, sending, port, uart, breaks, values, shown, read, hit>>

\* The bytes of a telegram; those before its first are filled with the missing marker.
Filler == 0
Byte(n, at) == IF at \in bus[n].first .. bus[n].last THEN n ELSE Filler

\* _fragment_has()
FragmentHas(n, key) == Layout[bus[n].type][key] \subseteq bus[n].first .. bus[n].last

\* A value put together of its bytes; one of bytes of two origins is nobody's.
Assembled(n, key) ==
  LET origins == {Byte(n, at) : at \in Layout[bus[n].type][key]}
  IN  IF Cardinality(origins) = 1 THEN CHOOSE o \in origins : TRUE ELSE -1

\* _decode_values(): a missing marker is no value.
Decodes(n) == {k \in Key : FragmentHas(n, k) /\ k \notin bus[n].missing}

\* _process_frame() and _update_values()
LoopDecodes ==
  /\ loop.at = "draining" /\ frames # << >> /\ frames' = Tail(frames)
  /\ LET frame == Head(frames)
         n == frame[1].of
     IN  IF n # 0 /\ CrcOk(frame)
           THEN /\ values' = [k \in Key |-> IF k \in Decodes(n) THEN Assembled(n, k) ELSE values[k]]
                /\ loop' = [loop EXCEPT !.changed = @ \/ values' # values]
                /\ read' = read \cup {n}
           ELSE UNCHANGED <<values, loop, read>>
  /\ UNCHANGED <<bus, sending, port, uart, breaks, buffer, shown, dropped, hit>>

\* publish_state(), once per pass, and sleep_ms()
LoopPublishes ==
  /\ loop.at = "draining" /\ frames = << >> /\ loop' = Asleep
  /\ shown' = IF loop.changed THEN values ELSE shown
  /\ UNCHANGED <<bus, sending, port, uart, breaks, buffer, frames, values, read, dropped, hit>>

Loop == LoopReads \/ LoopExtends \/ LoopDelimits \/ LoopDecodes \/ LoopPublishes

-----------------------------------------------------------------------------
EmsNext == Begins \/ Completes \/ FallsSilent \/ BreakHandled \/ Loop

EmsSpec == EmsInit /\ [][EmsNext]_emsVars

-----------------------------------------------------------------------------
(* Properties.                                                             *)

Sent == 1 .. Len(bus)

Carries(n, k) ==
  Layout[bus[n].type][k] \subseteq bus[n].first .. bus[n].last /\ k \notin bus[n].missing

\* Each value is that of one telegram that was read and carried it whole: it is put together
\* neither of two telegrams nor of a part of one.  An older one replaces it only when the
\* interrupt came in the middle of a read (_fragment_has(), the order of _rx_frames).
ValuesAreReal ==
  \A k \in Key :
    LET carriers == {n \in read : Carries(n, k)} IN
    IF carriers = {} THEN values[k] = 0
    ELSE /\ values[k] \in carriers
         /\ \A n \in carriers : n > values[k] => values[k] \in hit

\* The parts the driver still has
Held ==
  UNION {Numbers(parts) : parts \in {buffer, uart, loop.chunk} \cup ToSet(frames)}

\* Whatever goes wrong with a telegram, an interrupt in the middle of a read or after the next
\* telegram began included, costs that telegram and the next, and no more (the buffer starts
\* anew at each break).
LosesTwo ==
  \A n \in Sent \ (Held \cup read \cup dropped) :
    n \in hit \/ n - 1 \in hit 

\* Between two passes what was published last is what the driver has, however many frames the
\* pass decoded (publish_state(), once for all of them).
IsShown == loop.at # "draining" => shown = values

\* What the driver says of the boiler is the boiler's.
ReadsTheBus == ValuesAreReal /\ LosesTwo /\ IsShown
=============================================================================
