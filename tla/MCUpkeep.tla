-------------------------------- MODULE MCUpkeep ---------------------------------
(***************************************************************************)
(* What a device keeps up over months and years, for TLC: its boot record, *)
(* its local clock, and its certificates.  The three have no variable in   *)
(* common, so one moves while the others stay as they began: their states  *)
(* are added up and not multiplied.                                        *)
(***************************************************************************)
EXTENDS BootState, Schedule, Enrolment

Zone(rule, standard, daylight) == [rule |-> rule, standard |-> standard, daylight |-> daylight]
From(z, y, m, d, h, weekday, summer, w) ==
  [zone |-> z, year |-> y, month |-> m, day |-> d, half |-> h, weekday |-> weekday,
   summer |-> summer, window |-> w]

Paris    == Zone("eu", 2, 4)
London   == Zone("eu", 0, 2)
NewYork  == Zone("us", -10, -8)
Adelaide == Zone("au", 19, 21)
Auckland == Zone("nz", 24, 26)
Kolkata  == Zone("none", 11, 11)

\* A window from half past ten at night for three hours, and one from one at night for two
Late  == [weekdays |-> {1, 3, 5, 6}, start |-> 45, duration |-> 6]
Early == [weekdays |-> {0, 5, 6}, start |-> 2, duration |-> 4]

\* Before weekends that set the clock, and before a leap day and a new year
MCStarts ==
  {From(London, 2028, 3, 25, 44, 5, FALSE, Late), From(Paris, 2027, 10, 30, 42, 5, TRUE, Early),
   From(NewYork, 2027, 3, 13, 55, 5, FALSE, Early), From(NewYork, 2027, 11, 6, 52, 5, TRUE, Late),
   From(Adelaide, 2027, 10, 2, 26, 5, FALSE, Late), From(Adelaide, 2028, 4, 1, 26, 5, TRUE, Early),
   From(Auckland, 2027, 9, 25, 22, 5, FALSE, Early), From(Auckland, 2028, 4, 1, 20, 5, TRUE, Late),
   From(Kolkata, 2028, 2, 28, 36, 0, FALSE, Late), From(Adelaide, 2027, 12, 31, 26, 4, TRUE, Early),
   From(Paris, 2100, 2, 28, 42, 6, FALSE, Early)}

\* In the hour that is skipped, and twice, in most zones; shortly before midnight; on Sundays
MCSettings ==
  {[schedule |-> "daily", time |-> 4, weekday |-> 0],
   [schedule |-> "daily", time |-> 3, weekday |-> 0],
   [schedule |-> "weekly", time |-> 47, weekday |-> 6]}

MCYears == 2026 .. 2101

AnyStart == StartsAt(CHOOSE s \in Starts : TRUE, CHOOSE c \in Settings : TRUE)
FirstIdentity == settings.method = "self_signed" /\ local = "fresh"

Boots      == AnyStart /\ FirstIdentity /\ Init /\ BootNext /\ UNCHANGED <<clockVars, vars>>
TimePasses == ~provider /\ BootInit /\ FirstIdentity /\ Init /\ ClockNext /\ UNCHANGED <<bootVars, vars>>
Certifies  == ~provider /\ BootInit /\ AnyStart /\ Next /\ UNCHANGED <<bootVars, clockVars>>

UpkeepInit == BootInit /\ ClockInit /\ Init
UpkeepNext == Boots \/ TimePasses \/ Certifies
UpkeepSpec == UpkeepInit /\ [][UpkeepNext]_<<bootVars, clockVars, vars>> /\ Fairness

\* The check stays where the code promises something.
InPromise == BootPromised /\ Promised
=============================================================================
