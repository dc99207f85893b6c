\* One slave with two polled registers, three commands, a queue of one; three telegrams on a
\* heating bus, with and without the interrupt of their breaks, and one frame kept for the loop;
\* four levels of a voltage, two calibrations; four ticks of power, wrapping after six, two days.
SPECIFICATION DriversSpec
CONSTANTS
  Register = {"a", "b"}
  Polled = {"a", "b"}
  Value = {"on"}
  Command <- MCCommand
  QueueLimit = 1
  OperationLimit = 2
  MaxCommands = 3
  MaxLine = 1
  Excused = {"reused", "late", "slow"}
  Telegram <- MCTelegram
  Key = {"temp", "power", "flow"}
  Layout <- MCLayout
  BufferLimit = 6
  FrameLimit = 1
  MaxTelegrams = 3
  Level = {0, 1, 2, 3}
  Gain = 2
  Default = 1
  Threshold = 5
  Hysteresis = 2
  MaxCalibrations = 2
  Power <- MCPower
  Period = 6
  Days = {1, 2}
  MaxTicks = 4
  MaxTroubles = 2
CONSTRAINT InPromise
INVARIANT ReadsTheBus
PROPERTIES OutcomesStand Answered VoltageHolds EnergyHolds
