SPECIFICATION RestFairSpec
CONSTANTS
  Retry = 2
  Uids = {"u1", "u2"}
  Refused = {"u2"}
  Snaps = {"s"}
  MaxCalls = 4
  MaxStrays = 2
INVARIANTS CleanMeansCleared SuccessMeansDone
PROPERTIES CallReturns
