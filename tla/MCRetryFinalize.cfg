CONSTANTS
  j1 = j1
  j2 = j2
  b1 = b1
  b2 = b2
  d1 = d1
  None = None
  Named = Named
  Job = {j1}
  Disk = {b1, d1}
  BootOf <- MCBootOf
  DataOf <- MCDataOf
  Size <- AllAlike
  MaxFaults = 1
  MaxRestarts = 0
SPECIFICATION Spec
INVARIANTS
  FinalizeIdempotent
CHECK_DEADLOCK FALSE
