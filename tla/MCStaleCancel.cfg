CONSTANTS
  m1 = m1
  m2 = m2
  i1 = i1
  v1 = v1
  v2 = v2
  t1 = t1
  t2 = t2
  None = None
  Job = {m1}
  IsoJob = {}
  Vm = {v1, v2}
  VmOf <- OwnVm
  Session = {s1}
  Task = {t1, t2}
  Handler = {h1}
  Cap = 1
  Headroom = 2
  MaxRestarts = 0
SPECIFICATION Spec
PROPERTIES
  CompletedStays
CHECK_DEADLOCK FALSE
