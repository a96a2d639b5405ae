SPECIFICATION Spec
CONSTANTS
  j1 = j1 c1 = c1 c2 = c2
  Jobs = {j1}
  Registered = {j1}
  Consumers = {c1, c2}
  NoConsumer = NoConsumer NoEntry = NoEntry
  Slots = 2
  MaxAttempts = 2 HeartbeatTTL = 2 ReclaimEvery = 1 MaxPending = 1
  FaultKinds = {"requeue"}
  MaxFaults = 1 MaxStops = 2 MaxRuns = 4
INVARIANT RetriedToTheEnd
