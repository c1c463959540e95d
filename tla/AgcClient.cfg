\* Two clients that register the same device and the same certificate name,
\* with the five look-ups of the code.
SPECIFICATION FairSpec
CONSTANTS
  Clients = {c1, c2}
  Udids = {u1}
  CertNames = {n1}
  LookupAttempts = 5
INVARIANTS TypeOK ReturnedIsReal SameAnswer
PROPERTY EveryCallEnds
