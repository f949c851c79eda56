CONSTANTS
  j1 = j1
  j2 = j2
  b1 = b1
  b2 = b2
  d1 = d1
  None = None
  Named = Named
  Job = {j1, j2}
  Disk = {b1, b2, d1}
  BootOf <- MCBootOf
  DataOf <- MCDataOf
  Size <- DataDiffers
  MaxFaults = 2
  MaxRestarts = 1
SPECIFICATION VolumesSpec
INVARIANTS
  CallsGo
  GuestAlone
  JobsEndWhole
  OwnVolume
PROPERTIES
  PairSettles
CHECK_DEADLOCK FALSE
