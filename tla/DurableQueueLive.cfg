SPECIFICATION LiveSpec
CONSTANTS
  j1 = j1 c1 = c1 c2 = c2
  Jobs = {j1}
  Registered = {j1}
  Consumers = {c1, c2}
  NoConsumer = NoConsumer NoEntry = NoEntry
  Slots = 2
  MaxAttempts = 2 HeartbeatTTL = 2 ReclaimEvery = 1 MaxPending = 1
  FaultKinds = {"crash", "connection", "enqueue", "requeue", "remove", "slow"}
  MaxFaults = 1 MaxStops = 1 MaxRuns = 5
PROPERTY EventuallySettled
