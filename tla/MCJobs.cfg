CONSTANTS
  m1 = m1
  m2 = m2
  i1 = i1
  v1 = v1
  v2 = v2
  t1 = t1
  t2 = t2
  None = None
  Job = {m1, m2, i1}
  IsoJob = {i1}
  Vm = {v1, v2}
  VmOf <- SameVm
  Session = {s1}
  Task = {t1, t2}
  Handler = {h1}
  Cap = 1
  Headroom = 2
  MaxRestarts = 1
SPECIFICATION EitherSpec
INVARIANTS
  TypeOK
  BookkeepingAgrees
  CompletedIsServing
  WorkIsRecorded
  OneMigrationPerVm
PROPERTIES
  UsesGate
CHECK_DEADLOCK FALSE
SYMMETRY AlikeTasks
