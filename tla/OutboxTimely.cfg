SPECIFICATION LiveSpec
CONSTANTS
  e1 = e1
  e2 = e2
  mother = mother
  stranger = stranger
  phone = phone
  tablet = tablet
  here = here
  elsewhere = elsewhere
  w1 = w1
  w2 = w2
  Events = {e1, e2}
  Users = {mother, stranger}
  Tokens = {phone, tablet}
  Schools = {here, elsewhere}
  Workers = {w1, w2}
  SchoolOf <- MCSchoolOf
  SchoolOfEvent <- MCSchoolOfEvent
  Parents <- MCParents
  InitialDevices <- MCInitialDevices
  NoUser = NoUser
  NoWorker = NoWorker
  NoJob = NoJob
  BatchSize = 2
  MaxAttempts = 2
  Lease = 1
  Retention = 0
  BackoffBase = 1
  BackoffCap = 1
  Timely = TRUE
  MaxEvents = 1
  MaxFaults = 1
  MaxDeviceChanges = 1
INVARIANTS HolderOwnsLease NoStrandedRow SentWasAccepted DeadIsJustified DuplicatesAreFaults
PROPERTIES KeepsPromise EventuallySettled
