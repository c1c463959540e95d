\* A scan and an install thread, two targets that come and go, two attempts.
SPECIFICATION FairSpec
CONSTANTS
  Scanners = {s1}
  Installers = {i1}
  NoThread = NoThread
  Targets = {t1, t2}
  Attempts = 2
INVARIANTS TypeOK OutputIsOwn ScanHonest InstallHonest
PROPERTIES JobsEnd HdcUsable
