\* Crashes, errors, revocations, and files, passwords and certificates that are not
\* seen, between any two steps of one worker, and progress once they are over.
SPECIFICATION FairSpec
CONSTANTS
  Workers = {w1}
  Idents = {team, other}
  TeamIdent = team
  Bundles = {b1}
  Devices = {d1, d2}
  Overlooks = {"password", "p12", "listing"}
  Foreign = {0, 1, 3}
  MaxRequests = 4
  MaxFaults = 3
CHECK_DEADLOCK FALSE
INVARIANTS TypeOK PendingUnlocks OneCertificatePerKey SeenKeysKept WithinLimit ReuseNext
PROPERTIES KeyLife PreparedInTheEnd
