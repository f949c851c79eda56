CONSTANTS
  N = 4
  Depth = 2
  Exporter = e1
  NumParts = 3
  UploadFaults = 2
  Jobs = {j1, j2}
  LibraryFaults = 1
  Kinds = {"ova", "ovf", "vmdk", "qcow2"}
  MaxDisks = 2
  ImportFaults = 1
  MaxSectors = 5
  Grain = 2
  TableSize = 2
  MaxGuest = 3
  FileSize = 3
  MaxRange = 2
  BlockSize = 2
  ChunkRatio = 2
  Attempts = 2
  Maps = {"nutanix3", "nutanix4", "olvm", "proxmox", "aws", "none", "stream"}
  VolumeSize = 5
  PageSize = 2
  Gap = 1
  ChunkSize = 2
  NumKernels = 2
  NumGroups = 2
  MaxRoom = 3
SPECIFICATION ImagesSpec
INVARIANTS
  StreamKeepsOrder
  UploadsWhole
  LaunchedAsNeeded
  ImportWhole
  DisksReadBack
  GuestStaysWhole
PROPERTIES
  StreamImplementsDiskCopy
  StreamEnds
CHECK_DEADLOCK FALSE
