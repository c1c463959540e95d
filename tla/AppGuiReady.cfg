\* Three overlapping operations and the one install_started flag.
SPECIFICATION Spec
CONSTANTS
  Device = {d1}
  Hap = {h1}
  NoDevice = NoDevice
  NoHap = NoHap
  NoPhase = NoPhase
  ScanLists <- SingleList
  LocalMaterials = {TRUE}
  MayFail = {}
  MaxResigns = 3
  MaxInstalls = 4
SYMMETRY Symmetry
INVARIANT ReadyIsInstalled
