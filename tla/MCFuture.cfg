SPECIFICATION MCSpec
CONSTANTS
  o1 = o1
  o2 = o2
  w1 = w1
  w2 = w2
  t1 = t1
  t2 = t2
  t3 = t3
  s1 = s1
  s2 = s2
  Owners = {o1, o2}
  Workers = {w1, w2}
  MaxStarts = 2
  Waiters = {t1, t2, t3}
  Timed = {t3}
  Setters = {s1, s2}
  MaxWaits = 4
  MaxSets = 2
INVARIANTS
  OnePool
  JoinedMeansDone
  AbortOfThisCall
  CallOutlived
  MonitorOnce
PROPERTIES
  CallsReturn
  MonitorWakes
  SignalReleases
