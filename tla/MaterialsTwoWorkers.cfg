\* Two workers of the same team at the same time.
SPECIFICATION Spec
CONSTANTS
  Workers = {w1, w2}
  Idents = {team, other}
  TeamIdent = team
  Bundles = {b1}
  Devices = {d1}
  Overlooks = {}
  Foreign = {0}
  MaxRequests = 2
  MaxFaults = 0
CHECK_DEADLOCK FALSE
INVARIANT PendingUnlocks
