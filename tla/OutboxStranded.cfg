SPECIFICATION LiveSpec
CONSTANTS
  e1 = e1
  e2 = e2
  mother = mother
  stranger = stranger
  phone = phone
  tablet = tablet
  here = here
  elsewhere = elsewhere
  w1 = w1
  w2 = w2
  Events = {e1}
  Users = {mother}
  Tokens = {phone}
  Schools = {here, elsewhere}
  Workers = {w1, w2}
  SchoolOf <- OnlySchoolOf
  SchoolOfEvent <- OnlyHere
  Parents <- OneParent
  InitialDevices <- OnePhone
  NoUser = NoUser
  NoWorker = NoWorker
  NoJob = NoJob
  BatchSize = 2
  MaxAttempts = 3
  Lease = 1
  Retention = 0
  BackoffBase = 1
  BackoffCap = 1
  Timely = FALSE
  MaxEvents = 1
  MaxFaults = 1
  MaxDeviceChanges = 0
PROPERTY EventuallySettled
