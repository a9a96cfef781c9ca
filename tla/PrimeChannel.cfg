SPECIFICATION FairSpec
CONSTANTS
  c1 = c1
  c2 = c2
  NoJob = NoJob
  Commands <- TwoCommands
  Strict = TRUE
  MaxExpiries = 1
  MaxFaults = 2
  MaxRefusals = 1
  MaxUnfinished = 2
INVARIANTS
  ExecutedAtMostTwice
  RefusedOncePerExpiry
  TaskWatched
PROPERTIES
  QuestionsEnd
CHECK_DEADLOCK FALSE
