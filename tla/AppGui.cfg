\* One operation, with every login path and failure, and progress under fairness.
SPECIFICATION FairSpec
CONSTANTS
  Device = {d1, d2}
  Hap = {h1}
  NoDevice = NoDevice
  NoHap = NoHap
  NoPhase = NoPhase
  ScanLists = {{}, {d1}, {d1, d2}}
  LocalMaterials = {TRUE, FALSE}
  MayFail = {"scan", "resign", "install"}
  MaxResigns = 1
  MaxInstalls = 1
INVARIANTS TypeOK OneScan SelectionListed
PROPERTIES KeepsScanning OperationEnds ScansOneAtATime
