SPECIFICATION FairSpec
CONSTANTS
  s1 = s1  s2 = s2  p1 = p1  p2 = p2
  Schedules = {s1, s2}
  Unscannable = {s2}
  Editable = {s1}
  Replicas = {p1, p2}
  StartTimes = {0}
  Interval = 2
  BatchSize = 1
  MaxClock = 3
  CrashPoints = {"insert", "advance"}
  MaxFaults = 1
  MaxEdits = 1
  None = None
CHECK_DEADLOCK FALSE
INVARIANT TypeOK
INVARIANT NoOccurrenceLost
INVARIANT OccurrencesOnGrid
PROPERTY NeverBackwards
PROPERTY DueIsEnqueued
