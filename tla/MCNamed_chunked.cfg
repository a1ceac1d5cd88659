SPECIFICATION FairSpec
CONSTANTS
  MaxDigits = 2
  MaxRetries = 2
  MaxInbox = 2
  Bodies <- SomeBodies
  Codes = {200, 500}
  Faults = {"lose", "duplicate", "unsendable", "refuse", "cut"}
INVARIANTS TypeOK Reassembled BodyWhole CalledOnce LastRetryUnsent
PROPERTIES ImplementsRPC NamedPostReturns
