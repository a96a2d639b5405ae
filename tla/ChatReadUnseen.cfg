SPECIFICATION Spec
CONSTANTS
  wanda = wanda ann = ann tab = tab phone = phone
  Users = {wanda, ann}
  Tabs = {tab}
  Phones = {}
  Owner <- OwnerOf
  NoOne = NoOne
  NumSends = 2
  PollLimit = 1
  MaxChanges = 0
  MaxFaults = 0
INVARIANT NothingIsReadUnseen
CHECK_DEADLOCK FALSE
