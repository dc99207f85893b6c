------------------------------- MODULE AcVoltage --------------------------------
(***************************************************************************)
(* The AC voltage driver (device_modules/grove_ac_voltage.py) and its      *)
(* calibration, by a portal request (iotmd_runtime.portal_action) that is  *)
(* saved with the modules, or by a module command that is not.             *)
(*                                                                         *)
(* A calibration scales the present factor by what a meter shows and what  *)
(* the driver read last.  That reading may be older than the signal, or    *)
(* than the factor.  Values are exact: rounding is left out.               *)
(***************************************************************************)
EXTENDS Integers

CONSTANTS
  Level,         \* what the sensor may see, in RMS counts
  Gain,          \* volts of a count: the factor a right calibration finds
  Default,       \* the factor of a module that was never calibrated
  Threshold,     \* threshold, in volts
  Hysteresis,    \* hysteresis
  MaxCalibrations

ASSUME VoltageAssumption ==
  /\ Level \subseteq Nat /\ {Gain, Default} \subseteq Nat \ {0} /\ MaxCalibrations \in Nat
  /\ Threshold \in Nat /\ Hysteresis \in 0 .. Threshold

VARIABLES
  level,       \* what the sensor sees
  offset,      \* the configured offset
  sensor,      \* the driver: its factor, voltage and threshold state, and that it last read well
  factor,      \* the calibration in the module settings
  editor,      \* the calibration in a module editor's page, if one is open
  taken,       \* what the voltage was read of, and by which factor (history)
  trusted,     \* a calibration has succeeded (history)
  tries,       \* calibrations
  acExposed    \* what the code does not promise and has happened (history)

acVars == <<level, offset, sensor, factor, editor, taken, trusted, tries, acExposed>>

AcPromised == acExposed = {}
NotRead == [num |-> 0, den |-> 0]
Exactly(n) == [num |-> n, den |-> 1]
Divides(g, n) == \E q \in 0 .. n : q * g = n

\* A fraction in its lowest terms
Ratio(n, d) ==
  LET g == CHOOSE g \in 1 .. d : /\ Divides(g, n) /\ Divides(g, d)
                                 /\ \A h \in g + 1 .. d : ~(Divides(h, n) /\ Divides(h, d))
  IN  [num |-> n \div g, den |-> d \div g]

\* read: the voltage of a level
VoltageOf(cal, l) == Ratio(cal.num * l + offset * cal.den, cal.den)
AtLeast(voltage, volts) == voltage.num >= volts * voltage.den
AtMost(voltage, volts)  == voltage.num <= volts * voltage.den

Started(cal) == [cal |-> cal, voltage |-> NotRead, present |-> "unknown", ok |-> TRUE]

AcInit ==
  /\ level \in Level /\ offset \in {0, 1}
  /\ factor = Exactly(Default) /\ sensor = Started(factor)
  /\ editor = NotRead /\ taken = [level |-> level, cal |-> factor]
  /\ trusted = FALSE /\ tries = 0 /\ acExposed = {}

Moves ==
  /\ level' \in Level \ {level}
  /\ UNCHANGED <<offset, sensor, factor, editor, taken, trusted, tries, acExposed>>

\* _threshold_value: on at the threshold, off only below it by the hysteresis
ThresholdValue(voltage) ==
  IF sensor.present = "present"
  THEN IF AtMost(voltage, Threshold - Hysteresis) THEN "absent" ELSE "present"
  ELSE IF AtLeast(voltage, Threshold) THEN "present" ELSE "absent"

\* measure_loop
Measures ==
  LET voltage == VoltageOf(sensor.cal, level)
  IN  /\ sensor' = [sensor EXCEPT !.voltage = voltage, !.present = ThresholdValue(voltage),
                                  !.ok = TRUE]
      /\ taken' = [level |-> level, cal |-> sensor.cal]
      /\ UNCHANGED <<level, offset, factor, editor, trusted, tries, acExposed>>

\* The voltage stays as it was read before.
MeasureFails ==
  /\ sensor.ok /\ sensor' = [sensor EXCEPT !.ok = FALSE]
  /\ UNCHANGED <<level, offset, factor, editor, taken, trusted, tries, acExposed>>

\* set_calibration; any number is accepted for the meter's.
Calibratable == sensor.voltage.num > 0 /\ tries < MaxCalibrations
Calibrated(known) ==
  Ratio(sensor.cal.num * known * sensor.voltage.den, sensor.cal.den * sensor.voltage.num)

CalibrationExposes(known) ==
  (IF known # Gain * level THEN {"mistyped"} ELSE {}) \cup
  (IF taken.level # level THEN {"moved"} ELSE {}) \cup
  (IF taken.cal # sensor.cal THEN {"compounded"} ELSE {}) \cup
  (IF offset # 0 THEN {"offset"} ELSE {})

Known == {Gain * level, 0}

\* portal_action 'calibrate'
PortalCalibrates ==
  \E known \in Known :
     /\ Calibratable /\ tries' = tries + 1
     /\ factor' = Calibrated(known) /\ sensor' = [sensor EXCEPT !.cal = Calibrated(known)]
     /\ trusted' = TRUE /\ acExposed' = acExposed \cup CalibrationExposes(known)
     /\ UNCHANGED <<level, offset, editor, taken>>

\* A calibration that could not be saved is undone.
\* Mutant: the driver keeps it.
KeepsUnsaved ==
  /\ Calibratable /\ tries' = tries + 1
  /\ sensor' = [sensor EXCEPT !.cal = Calibrated(Gain * level)]
  /\ UNCHANGED <<level, offset, factor, editor, taken, trusted, acExposed>>

SaveFails ==
  /\ Calibratable /\ tries' = tries + 1
  /\ UNCHANGED <<level, offset, sensor, factor, editor, taken, trusted, acExposed>>

\* A module command calibrates until the next start.
CommandCalibrates ==
  /\ Calibratable /\ tries' = tries + 1
  /\ sensor' = [sensor EXCEPT !.cal = Calibrated(Gain * level)]
  /\ trusted' = TRUE
  /\ acExposed' = acExposed \cup {"unsaved"} \cup CalibrationExposes(Gain * level)
  /\ UNCHANGED <<level, offset, factor, editor, taken>>

\* The module editor shows the document, and saves it as its page had it.
EditorOpens ==
  /\ editor # factor /\ editor' = factor
  /\ UNCHANGED <<level, offset, sensor, factor, taken, trusted, tries, acExposed>>

EditorSaves ==
  /\ editor # NotRead /\ factor' = editor /\ editor' = NotRead
  /\ acExposed' = acExposed \cup (IF editor # factor THEN {"overwritten"} ELSE {})
  /\ UNCHANGED <<level, offset, sensor, taken, trusted, tries>>

AcRestarts ==
  /\ sensor.voltage # NotRead /\ sensor' = Started(factor)
  /\ UNCHANGED <<level, offset, factor, editor, taken, trusted, tries, acExposed>>

AcNext ==
  \/ Moves \/ Measures \/ MeasureFails \/ AcRestarts
  \/ PortalCalibrates \/ SaveFails \/ CommandCalibrates \/ EditorOpens \/ EditorSaves

AcSpec == AcInit /\ [][AcNext]_acVars
-----------------------------------------------------------------------------
(* Properties                                                              *)

\* What was read of the signal as it is, by the factor in force
UpToDate == sensor.voltage # NotRead /\ taken = [level |-> level, cal |-> sensor.cal]
Volts == Gain * level

\* The factor in force is the saved one, whatever failed, was edited or was restarted, and after a
\* calibration it is the true one; from then on the presence that is published is that of the
\* mains, and it does not change while the voltage is between the threshold and its hysteresis.
\* (Without hysteresis a voltage that is the threshold is present and absent by turns.)
VoltageHolds ==
  [][AcPromised' =>
       /\ sensor'.cal = factor'
       /\ trusted' =>
            /\ sensor'.cal = Exactly(Gain)
            /\ UpToDate' => /\ Volts' >= Threshold /\ Volts' > Threshold - Hysteresis
                               => sensor'.present = "present"
                            /\ Volts' <= Threshold - Hysteresis /\ Volts' < Threshold
                               => sensor'.present = "absent"
            /\ (/\ UpToDate' /\ sensor'.present # sensor.present /\ sensor.present # "unknown"
                /\ taken.cal = sensor.cal)
               => (Volts' >= Threshold \/ Volts' <= Threshold - Hysteresis)]_acVars
=============================================================================
