\* Two overlapping operations that share the output file.
SPECIFICATION Spec
CONSTANTS
  Device = {d1, d2}
  Hap = {h1}
  NoDevice = NoDevice
  NoHap = NoHap
  NoPhase = NoPhase
  ScanLists <- SingleList
  LocalMaterials = {TRUE}
  MayFail = {"scan", "resign", "install"}
  MaxResigns = 2
  MaxInstalls = 3
SYMMETRY Symmetry
INVARIANT RightDevice
