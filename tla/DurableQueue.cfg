SPECIFICATION Spec
CONSTANTS
  j1 = j1 j2 = j2 c1 = c1 c2 = c2
  Jobs = {j1, j2}
  Registered = {j1, j2}
  Consumers = {c1, c2}
  NoConsumer = NoConsumer NoEntry = NoEntry
  Slots = 2
  MaxAttempts = 2 HeartbeatTTL = 2 ReclaimEvery = 1 MaxPending = 1
  FaultKinds = {"crash", "connection", "enqueue", "pop", "requeue", "remove", "slow"}
  MaxFaults = 1 MaxStops = 2 MaxRuns = 3
SYMMETRY Interchangeable
INVARIANTS DurableUntilSettled OnceWithoutFaults
PROPERTIES GivenUpOnlyWhenExhausted
