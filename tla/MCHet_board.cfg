SPECIFICATION Spec
CONSTANTS
  Block = 6
  PollTries = 1
  TrigPolls = 3
  TrigMod = 2
  Burst = 1
  MaxData = 1
  MaxEvents = 3
  MaxFaults = 1
INVARIANTS CountsWhole RegistersRight
PROPERTIES EventsMatchFifo Drained
