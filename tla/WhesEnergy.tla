------------------------------- MODULE WhesEnergy -------------------------------
(***************************************************************************)
(* The inverter driver (device_modules/whes.py) on the polling loop of the *)
(* Modbus driver (device_modules/modbus_transport.py): powers are read in  *)
(* groups of registers, and each publication adds what they came to since  *)
(* the one before to the energies of the day.                              *)
(*                                                                         *)
(* The two groups here are the PV power and the meter's; the power of the  *)
(* home is computed from both.  The battery is idle, and power is measured *)
(* so that a tick of it is a unit of energy.  Time passes between any two  *)
(* steps; the clock of the intervals wraps, the calendar may be set.       *)
(***************************************************************************)
EXTENDS Integers, Sequences, FiniteSetsExt

CONSTANTS
  Power,         \* what an installation may do: records of pv and load
  Period,        \* ticks after which ticks_ms begins again
  Days,          \* local days
  MaxTicks,      \* bounds of the model
  MaxTroubles

ASSUME WhesAssumption ==
  /\ Power \subseteq [pv : Nat, load : Nat] /\ Power # {} /\ 0 \notin Days
  /\ Period \in Nat \ {0} /\ Period % 2 = 0 /\ MaxTicks \in Nat /\ MaxTroubles \in Nat

VARIABLES
  actual,      \* the power at this moment
  tick,        \* ticks that have passed
  day,         \* the local day
  register,    \* the value of each group, as it was read last
  round,        \* the loop: the group it reads next, whether a value has changed, what went wrong,
               \* and the powers when it read
  totals,      \* _energy_totals
  since,       \* [day |-> _energy_day, ticks |-> _energy_ticks]
  seen,        \* powers since the last publication, and how many ticks (history)
  least,       \* what was used of each kind since midnight at least ... (history)
  most,        \* ... and at most (history)
  troubles,    \* restarts, failed reads and settings of the clock
  whesExposed  \* what the code does not promise and has happened (history)

whesVars == <<actual, tick, day, register, round, totals, since, seen, least, most, troubles,
              whesExposed>>

WhesPromised == whesExposed = {}
Kind == {"pv", "home", "import", "export"}
Nothing == [kind \in Kind |-> 0]

\* _poll_groups: registers that adjoin are read at once, the others in the order of addresses
Groups == <<"pv", "grid">>

Never == [day |-> 0, ticks |-> 0]
Resting == [at |-> 1, changed |-> FALSE, faults |-> {}, powers |-> {}]
Grid(p) == p.load - p.pv
Positive(n) == IF n > 0 THEN n ELSE 0

\* _calculated_values, with the negative left out of what is integrated
Calculated(r) ==
  [pv |-> Positive(r.pv), home |-> Positive(r.pv + r.grid),
   import |-> Positive(r.grid), export |-> Positive(-r.grid)]

\* What the installation really does
Flow(p) == Calculated([pv |-> p.pv, grid |-> Grid(p)])

\* The ticks, and time.ticks_diff of two of them
Ticks == tick % Period
TicksDiff(end, start) == ((end - start + Period \div 2) % Period) - Period \div 2

\* What is read of a group that answers
Measured(group) == IF group = "pv" THEN actual.pv ELSE Grid(actual)

\* A new interval that begins in the middle of nothing
Afresh == [powers |-> {actual'}, ticks |-> 0]

WhesInit ==
  /\ actual \in Power /\ tick = 0 /\ day \in Days
  /\ register = [pv |-> 0, grid |-> 0] /\ round = Resting
  /\ totals = Nothing /\ since = Never /\ seen = [powers |-> {actual}, ticks |-> 0]
  /\ least = Nothing /\ most = Nothing /\ troubles = 0 /\ whesExposed = {}

Elapses ==
  /\ tick < MaxTicks /\ tick' = tick + 1
  /\ seen' = [powers |-> seen.powers, ticks |-> seen.ticks + 1]
  /\ UNCHANGED <<actual, day, register, round, totals, since, least, most, troubles, whesExposed>>

Switches ==
  /\ actual' \in Power \ {actual}
  /\ seen' = [powers |-> seen.powers \cup {actual'}, ticks |-> seen.ticks]
  /\ UNCHANGED <<tick, day, register, round, totals, since, least, most, troubles, whesExposed>>

\* Midnight, or a clock that is set to another day; the energy of the day begins again.
DayChanges ==
  /\ troubles < MaxTroubles /\ troubles' = troubles + 1
  /\ day' \in Days \ {day} /\ least' = Nothing /\ most' = Nothing
  /\ actual' = actual /\ seen' = Afresh
  /\ whesExposed' = whesExposed \cup (IF day' = since.day THEN {"set back"} ELSE {})
  /\ UNCHANGED <<tick, register, round, totals, since>>

AllRead == round.at > Len(Groups)

\* The loop after a group, and what went wrong with it; the power may have changed meanwhile
After(changed, fault) ==
  [at |-> round.at + 1, changed |-> changed,
   powers |-> round.powers \cup {actual},
   faults |-> round.faults \cup fault \cup
              (IF round.powers \subseteq {actual} THEN {} ELSE {"mixed"})]

\* _read_entity_group of a group that answers
Answers ==
  LET group == Groups[round.at]
  IN  /\ ~AllRead
      /\ register' = [register EXCEPT ![group] = Measured(group)]
      /\ round' = After(TRUE, {})
      /\ UNCHANGED <<actual, tick, day, totals, since, seen, least, most, troubles, whesExposed>>

\* One that does not answer is taken to be zero.
TimesOut ==
  LET group == Groups[round.at]
  IN  /\ ~AllRead /\ troubles < MaxTroubles /\ troubles' = troubles + 1
      /\ register' = [register EXCEPT ![group] = 0]
      /\ round' = After(TRUE, IF Measured(group) # 0 THEN {"zeroed"} ELSE {})
      /\ UNCHANGED <<actual, tick, day, totals, since, seen, least, most, whesExposed>>

\* Another error leaves the value as it was.
ReadFails ==
  LET group == Groups[round.at]
  IN  /\ ~AllRead /\ troubles < MaxTroubles /\ troubles' = troubles + 1
      /\ round' = After(round.changed, IF Measured(group) # register[group] THEN {"stale"} ELSE {})
      /\ UNCHANGED <<actual, tick, day, register, totals, since, seen, least, most, whesExposed>>

\* Nothing was read: nothing is published.
PublishesNothing ==
  /\ AllRead /\ ~round.changed /\ round' = Resting
  /\ UNCHANGED <<actual, tick, day, register, totals, since, seen, least, most, troubles,
                 whesExposed>>

NewDay == since.day # day
Elapsed == TicksDiff(Ticks, since.ticks)

\* _update_energy_totals
\* Mutant: the interval over midnight counts for the new day.
CountsAcross ==
  LET power == Calculated(register)
      kept  == IF NewDay THEN Nothing ELSE totals
  IN  totals' = [kind \in Kind |-> kept[kind] + power[kind] *
                                   (IF since = Never THEN 0 ELSE Positive(Elapsed))]

UpdateTotals ==
  LET power == Calculated(register)
  IN  totals' = IF NewDay THEN Nothing
                ELSE [kind \in Kind |-> totals[kind] + power[kind] * Positive(Elapsed)]

PublicationExposes ==
  round.faults \cup (IF seen.ticks >= Period \div 2 THEN {"wrapped"} ELSE {})

Publishes ==
  LET flows(kind) == {Flow(p)[kind] : p \in seen.powers}
  IN  /\ AllRead /\ round.changed /\ round' = Resting
      /\ UpdateTotals /\ since' = [day |-> day, ticks |-> Ticks]
      /\ least' = [kind \in Kind |-> least[kind] +
                     (IF NewDay THEN 0 ELSE seen.ticks * Min(flows(kind)))]
      /\ most' = [kind \in Kind |-> most[kind] + seen.ticks * Max(flows(kind))]
      /\ actual' = actual /\ seen' = Afresh /\ whesExposed' = whesExposed \cup PublicationExposes
      /\ UNCHANGED <<tick, day, register, troubles>>

\* Energies start from zero.
WhesRestarts ==
  /\ troubles < MaxTroubles /\ troubles' = troubles + 1
  /\ register' = [pv |-> 0, grid |-> 0] /\ round' = Resting /\ totals' = Nothing /\ since' = Never
  /\ actual' = actual /\ seen' = Afresh /\ least' = Nothing /\ most' = Nothing
  /\ UNCHANGED <<tick, day, whesExposed>>

WhesNext ==
  \/ Elapses \/ Switches \/ DayChanges \/ WhesRestarts
  \/ Answers \/ TimesOut \/ ReadFails \/ PublishesNothing \/ Publishes

WhesSpec == WhesInit /\ [][WhesNext]_whesVars
-----------------------------------------------------------------------------
(* Properties                                                              *)

\* The energies that are published lie between what the installation used at least, of the
\* intervals that lie within this local day and after the last start, and at most: no interval
\* counts twice, or for two days, or for another kind of energy.
EnergyHolds ==
  [][(Publishes /\ WhesPromised') =>
       \A kind \in Kind : least'[kind] <= totals'[kind] /\ totals'[kind] <= most'[kind]]_whesVars
=============================================================================
