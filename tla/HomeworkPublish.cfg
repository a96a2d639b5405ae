SPECIFICATION LiveSpec
CONSTANTS
  teacher = teacher
  w1 = w1
  operator = operator
  Homeworks <- TwoHomeworks
  Requests = {teacher}
  Workers = {w1}
  Operators = {operator}
  NoHomework = NoHomework
  SweepBatch = 1
  LastDay = 1
  MaxEdits = 1
  MaxFaults = 1
INVARIANTS AnnouncedAtMostOnce MarkerIsTruthful
PROPERTIES NeverEarly NeverAfterDeletion EventuallyHandled
CHECK_DEADLOCK FALSE
