CONSTANTS
  m1 = m1
  m2 = m2
  i1 = i1
  v1 = v1
  v2 = v2
  t1 = t1
  t2 = t2
  None = None
  Session = {s1}
  Handler = {h1}
  Task = {t1, t2, t3}
  Cap = 2
  Headroom = 1
SPECIFICATION SlotsSpec
INVARIANTS
  TypeOK
  SlotAccounting
  NoLostWakeup
PROPERTIES
  GrowsWithinLimit
  WaitersServed
  TasksEndAsAsked
CHECK_DEADLOCK FALSE
