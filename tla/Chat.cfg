SPECIFICATION LiveSpec
CONSTANTS
  wanda = wanda ann = ann tab = tab phone = phone
  Users = {wanda, ann}
  Tabs = {tab}
  Phones = {phone}
  Owner <- OwnerOf
  NoOne = NoOne
  NumSends = 2
  PollLimit = 1
  MaxChanges = 1
  MaxFaults = 1
INVARIANTS CursorIsExact PageMissesNothing
PROPERTIES KeepsLog EventuallyFetched EventuallyRead
CHECK_DEADLOCK FALSE
