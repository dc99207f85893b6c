-------------------------------- MODULE MCDrivers --------------------------------
(***************************************************************************)
(* Four drivers, for TLC: one that is given commands, one that only        *)
(* listens, one that is calibrated, and one that adds up what it reads.    *)
(* They have no variable in common, so one moves while the others stay as  *)
(* they began: their states are added up and not multiplied.               *)
(***************************************************************************)
EXTENDS Commands, EmsDriver, AcVoltage, WhesEnergy

Cmd(m, k, r, v) == [module |-> m, frame |-> [kind |-> k, reg |-> r, value |-> v]]

\* A write, a read of a polled register, and another driver's command.
MCCommand == {Cmd("bus", "write", "a", "on"), Cmd("bus", "read", "b", "on"),
              Cmd("plain", "write", "a", "on")}

Carrying(type, first, last, zero, missing) ==
  [type |-> type, first |-> first, last |-> last, zeroCrc |-> zero, missing |-> missing]

\* A whole telegram whose CRC is zero, and a fragment of another that begins within a value
MCTelegram ==
  {Carrying("fast", 0, 2, TRUE, {}), Carrying("plus", 2, 4, FALSE, {"flow"})}

MCLayout ==
  [fast |-> [temp |-> {1, 2}, power |-> {0}, flow |-> {2}],
   plus |-> [temp |-> {1, 2}, power |-> {3}, flow |-> {4}]]

\* Sun and none, with a load that is always there
MCPower == {[pv |-> 0, load |-> 1], [pv |-> 3, load |-> 1]}

Listening == EmsInit /\ port.irq
Silent    == AcInit /\ offset = 0 /\ level = 1
Dark      == WhesInit /\ day = 1 /\ actual.pv = 0

Executes == Listening /\ Silent /\ Dark /\ CommandNext /\ UNCHANGED <<emsVars, acVars, whesVars>>
Listens  == CommandInit /\ Silent /\ Dark /\ EmsNext /\ UNCHANGED <<commandVars, acVars, whesVars>>
Senses   == CommandInit /\ Listening /\ Dark /\ AcNext
            /\ UNCHANGED <<commandVars, emsVars, whesVars>>
AddsUp   == CommandInit /\ Listening /\ Silent /\ WhesNext
            /\ UNCHANGED <<commandVars, emsVars, acVars>>

\* The fairness of the commands; no command is under way while another driver moves.
OneBeginsElsewhere == (Silent /\ Dark) \/ (Listening /\ Dark) \/ (Listening /\ Silent)
DriversInit == CommandInit /\ EmsInit /\ AcInit /\ WhesInit /\ OneBeginsElsewhere
DriversNext == Executes \/ Listens \/ Senses \/ AddsUp
DriversVars == <<commandVars, emsVars, acVars, whesVars>>
DriversSpec == DriversInit /\ [][DriversNext]_DriversVars /\ CommandFairness

\* The drivers stay where the code promises something.
InPromise == Promised /\ AcPromised /\ WhesPromised
=============================================================================
