--------------------------------- MODULE Schedule ---------------------------------
(***************************************************************************)
(* The local clock and what is done by it: the daylight-saving rules of    *)
(* timezone_rules.py, the automatic release check (automatic_check_slot()  *)
(* and release_monitor()) and the maintenance window of a fleet policy     *)
(* (within_maintenance_window()).                                          *)
(*                                                                         *)
(* The device counts UTC.  Time is counted here in half hours since 1970:  *)
(* every offset of ZONES and every transition is a whole number of them.   *)
(* Beside the arithmetic of the code there is a wall clock that is moved   *)
(* on half hour by half hour and set by hand twice a year: what the code   *)
(* computes is compared with it.                                           *)
(***************************************************************************)
EXTENDS Integers, FiniteSets

CONSTANTS
  Starts,    \* where the clock starts: a zone, a UTC date and half hour, summer or not, and
             \* the maintenance window of the policy: weekdays, start, duration
  Settings,  \* release_check_schedule, release_check_time, release_check_weekday
  Years,     \* the years the clock can reach
  Horizon,   \* a bound of the model: half hours that pass
  MaxTurns   \* a bound of the model: restarts and changes of the preferences

ASSUME ScheduleAssumption ==
  /\ \A s \in Starts : s.window.start \in 0 .. 47 /\ s.window.duration \in 1 .. 48
  /\ Horizon \in Nat /\ MaxTurns \in Nat

VARIABLES
  zone,      \* the entry of ZONES: rule family, standard and daylight offset
  now,       \* UTC, in half hours since 1970
  wall,      \* history: the clock on the wall
  window,    \* the maintenance window
  prefs,  \* the preferences of the automatic check
  running,   \* release_monitor() runs
  lastSlot,  \* its last_slot: the date of the last check, or NoSlot
  checks,    \* history: automatic checks on the wall's date
  steady,    \* history: on all of this date the monitor ran, with these preferences
  open,      \* history: half hours of the wall's date in the maintenance window
  shifted,   \* history: the wall clock was set by hand on its date, or began on it
  left,      \* half hours left of Horizon
  turns      \* turns left of MaxTurns

clockVars == <<zone, now, wall, window, prefs, running, lastSlot, checks, steady, open, shifted,
          left, turns>>

NoSlot == <<>>

-----------------------------------------------------------------------------
(* timezone_rules.py.  Months and days count from 1, Monday is 0.          *)

Leap(y) == (y % 4 = 0) /\ ((y % 100 # 0) \/ (y % 400 = 0))

MonthDays(y, m) ==
  CASE m = 2 -> IF Leap(y) THEN 29 ELSE 28
    [] m \in {4, 6, 9, 11} -> 30
    [] OTHER -> 31

DaysBeforeYear(y) ==
  LET p == y - 1
  IN 365 * (y - 1970) + (p \div 4 - 1969 \div 4) - (p \div 100 - 1969 \div 100)
       + (p \div 400 - 1969 \div 400)

DaysBeforeMonth(y, m) ==
  LET before == <<0, 31, 59, 90, 120, 151, 181, 212, 243, 273, 304, 334>>
  IN before[m] + (IF m > 2 /\ Leap(y) THEN 1 ELSE 0)

Day(y, m, d) == DaysBeforeYear(y) + DaysBeforeMonth(y, m) + d - 1

\* _epoch(), at half hour h of the day
Epoch(y, m, d, h) == 48 * Day(y, m, d) + h

Weekday(y, m, d) == (Day(y, m, d) + 3) % 7

NthSunday(y, m, n) == 1 + ((6 - Weekday(y, m, 1)) % 7) + (n - 1) * 7

LastSunday(y, m) ==
  LET last == MonthDays(y, m) IN last - ((Weekday(y, m, last) - 6) % 7)

\* _utc_tuple(): year, month, day, half hour of the day, weekday
Tuple(e) ==
  LET days == e \div 48
      y == CHOOSE x \in Years : DaysBeforeYear(x) <= days /\ days < DaysBeforeYear(x + 1)
      rest == days - DaysBeforeYear(y)
      m == CHOOSE x \in 1 .. 12 : /\ DaysBeforeMonth(y, x) <= rest
                                  /\ rest < DaysBeforeMonth(y, x) + MonthDays(y, x)
  IN [year |-> y, month |-> m, day |-> rest - DaysBeforeMonth(y, m) + 1,
      half |-> e % 48, weekday |-> (days + 3) % 7]

\* _local_transition_utc()
Transition(y, m, d, hour, prior) == Epoch(y, m, d, 2 * hour) - prior

\* Mutant: the end of daylight saving is taken for a standard time.
DaylightTillStandard(z, e) ==
  LET y == Tuple(e).year
  IN CASE z.rule = "eu" -> /\ Epoch(y, 3, LastSunday(y, 3), 2) <= e
                           /\ e < Epoch(y, 10, LastSunday(y, 10), 2)
       [] z.rule = "us" -> /\ Transition(y, 3, NthSunday(y, 3, 2), 2, z.standard) <= e
                           /\ e < Transition(y, 11, NthSunday(y, 11, 1), 2, z.standard)
       [] OTHER -> FALSE

\* Does daylight saving apply?  In the south it lasts from one year into the next.
Daylight(z, e) ==
  LET y == Tuple(e).year
  IN CASE z.rule = "eu" -> /\ Epoch(y, 3, LastSunday(y, 3), 2) <= e
                           /\ e < Epoch(y, 10, LastSunday(y, 10), 2)
       [] z.rule = "us" -> /\ Transition(y, 3, NthSunday(y, 3, 2), 2, z.standard) <= e
                           /\ e < Transition(y, 11, NthSunday(y, 11, 1), 2, z.daylight)
       [] z.rule = "au" -> \/ e >= Transition(y, 10, NthSunday(y, 10, 1), 2, z.standard)
                           \/ e < Transition(y, 4, NthSunday(y, 4, 1), 3, z.daylight)
       [] z.rule = "nz" -> \/ e >= Transition(y, 9, LastSunday(y, 9), 2, z.standard)
                           \/ e < Transition(y, 4, NthSunday(y, 4, 1), 3, z.daylight)
       [] OTHER -> FALSE

\* _offset_minutes_unix(), localtime()
Offset(z, e) == IF Daylight(z, e) THEN z.daylight ELSE z.standard
Local(z, e)  == Tuple(e + Offset(z, e))

-----------------------------------------------------------------------------
(* The wall clock.                                                         *)

Sunday(w) == w.weekday = 6
Nth(w, n) == w.day > 7 * (n - 1) /\ w.day <= 7 * n
Final(w)  == w.day > MonthDays(w.year, w.month) - 7

\* The hands are put forward by an hour when they reach this.
Forward(z, w) ==
  /\ ~w.summer /\ Sunday(w)
  /\ CASE z.rule = "eu" -> w.month = 3 /\ Final(w) /\ w.half = 2 + z.standard
       [] z.rule = "us" -> w.month = 3 /\ Nth(w, 2) /\ w.half = 4
       [] z.rule = "au" -> w.month = 10 /\ Nth(w, 1) /\ w.half = 4
       [] z.rule = "nz" -> w.month = 9 /\ Final(w) /\ w.half = 4
       [] OTHER -> FALSE

\* And put back by an hour when they reach this.
Back(z, w) ==
  /\ w.summer /\ Sunday(w)
  /\ CASE z.rule = "eu" -> w.month = 10 /\ Final(w) /\ w.half = 2 + z.daylight
       [] z.rule = "us" -> w.month = 11 /\ Nth(w, 1) /\ w.half = 4
       [] z.rule \in {"au", "nz"} -> w.month = 4 /\ Nth(w, 1) /\ w.half = 6
       [] OTHER -> FALSE

Tomorrow(w) ==
  LET next == [w EXCEPT !.half = 0, !.weekday = (@ + 1) % 7, !.day = @ + 1]
  IN IF w.day < MonthDays(w.year, w.month) THEN next
     ELSE IF w.month < 12 THEN [next EXCEPT !.day = 1, !.month = @ + 1]
     ELSE [next EXCEPT !.day = 1, !.month = 1, !.year = @ + 1]

\* Half an hour later, with the hands set as the rule says
Later(z, w) ==
  LET next == IF w.half < 47 THEN [w EXCEPT !.half = @ + 1] ELSE Tomorrow(w)
  IN IF Forward(z, next) THEN [next EXCEPT !.half = @ + 2, !.summer = TRUE]
     ELSE IF Back(z, next) THEN [next EXCEPT !.half = @ - 2, !.summer = FALSE]
     ELSE next

Date(w) == <<w.year, w.month, w.day>>

-----------------------------------------------------------------------------
(* release_update.py, fleet_management.py.                                 *)

\* automatic_check_slot(): the local date, at the configured time
Slot(s, t) ==
  IF s.schedule = "disabled" \/ t.half # s.time THEN NoSlot
  ELSE IF s.schedule = "weekly" /\ t.weekday # s.weekday THEN NoSlot
  ELSE <<t.year, t.month, t.day>>

\* within_maintenance_window()
Within(t) ==
  /\ t.weekday \in window.weekdays
  /\ window.start <= t.half /\ t.half < window.start + window.duration

-----------------------------------------------------------------------------
\* The wall clock is right to begin with.
StartsAt(s, choice) ==
  /\ zone = s.zone
  /\ now = Epoch(s.year, s.month, s.day, s.half)
  /\ prefs = choice /\ window = s.window
  /\ wall = [year |-> s.year, month |-> s.month, day |-> s.day,
             half |-> s.half + (IF s.summer THEN s.zone.daylight ELSE s.zone.standard),
             weekday |-> s.weekday, summer |-> s.summer]
  /\ running = FALSE /\ lastSlot = NoSlot /\ checks = 0 /\ steady = FALSE
  /\ open = 0 /\ shifted = TRUE /\ left = Horizon /\ turns = MaxTurns

ClockInit == \E s \in Starts, choice \in Settings : StartsAt(s, choice)

\* release_monitor(): the slot it has not checked in yet
DueSlot == LET slot == Slot(prefs, Local(zone, now))
       IN IF slot # lastSlot THEN slot ELSE NoSlot

\* It looks at the clock every thirty seconds and waits for the check, at every half hour
\* that strikes and as often as it likes.
Checks ==
  /\ running /\ DueSlot # NoSlot
  /\ lastSlot' = DueSlot /\ checks' = checks + 1
  /\ UNCHANGED <<zone, now, wall, window, prefs, running, steady, open, shifted, left,
                 turns>>

\* Half an hour passes.
Passes ==
  LET next == Later(zone, wall)
      struck == wall.half = 47
  IN /\ left > 0 /\ left' = left - 1
     /\ running => DueSlot = NoSlot
     /\ now' = now + 1 /\ wall' = next
     /\ checks' = IF struck THEN 0 ELSE checks
     /\ steady' = IF struck THEN running ELSE steady
     /\ open' = (IF struck THEN 0 ELSE open)
                + (IF Within(Local(zone, now + 1)) THEN 1 ELSE 0)
     /\ shifted' = \/ next.summer # wall.summer
                   \/ shifted /\ ~struck
     /\ UNCHANGED <<zone, window, prefs, running, lastSlot, turns>>

Turns == turns > 0 /\ turns' = turns - 1

\* update_release_preferences(): the running monitor reads the new ones at its next look.
ChangePreferences ==
  /\ Turns
  /\ prefs' \in Settings \ {prefs} /\ steady' = FALSE
  /\ UNCHANGED <<zone, now, wall, window, running, lastSlot, checks, open, shifted, left>>

\* main() starts the monitor, which knows of no slot.
StartsAgain ==
  /\ ~running /\ running' = TRUE
  /\ lastSlot' = NoSlot
  /\ UNCHANGED <<zone, now, wall, window, prefs, checks, steady, open, shifted, left,
                 turns>>

\* The device goes down.
Stops ==
  /\ Turns
  /\ running /\ running' = FALSE /\ steady' = FALSE
  /\ UNCHANGED <<zone, now, wall, window, prefs, lastSlot, checks, open, shifted, left>>

ClockNext == Checks \/ Passes \/ ChangePreferences \/ StartsAgain \/ Stops

ClockSpec == ClockInit /\ [][ClockNext]_clockVars

-----------------------------------------------------------------------------
\* The date and time the code computes from UTC are those of a clock that is put forward
\* and back by the rule of the zone (timezone_rules.py), at every half hour.
WallAgrees ==
  Local(zone, now) = [year |-> wall.year, month |-> wall.month, day |-> wall.day,
                      half |-> wall.half, weekday |-> wall.weekday]

Skipped(w, time) ==
  shifted /\ w.summer /\ LET gap == IF zone.rule = "eu" THEN 2 + zone.standard ELSE 4
                        IN time \in gap .. gap + 1

\* A date that calls for a check gets it, and once, also when the clock is put back over the
\* configured time, if the monitor ran for all of the date with these preferences: unless its
\* clock was put forward over that time ("Return the local-date slot", release_update.py:130).
CheckedThatDay ==
  (wall'.day # wall.day /\ steady) =>
    \/ checks = 1
    \/ prefs.schedule = "disabled"
    \/ prefs.schedule = "weekly" /\ wall.weekday # prefs.weekday
    \/ Skipped(wall, prefs.time)

\* On a date of the window it is open for its duration, or to midnight when that is earlier:
\* it never reaches into the next date (fleet_management.py:219).  On others it stays shut.
WindowLasts ==
  (wall'.day # wall.day /\ ~shifted) =>
    open = IF wall.weekday \notin window.weekdays THEN 0
           ELSE IF window.start + window.duration > 48 THEN 48 - window.start
           ELSE window.duration

\* The local clock is right at every half hour that passes, over the weekends that set it, and
\* dates get their check and their window by it.
ClockHolds == [][WallAgrees /\ CheckedThatDay /\ WindowLasts]_clockVars
=============================================================================
