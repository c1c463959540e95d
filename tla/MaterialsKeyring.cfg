\* A credential store that refuses a look-up, once.
SPECIFICATION Spec
CONSTANTS
  Workers = {w1}
  Idents = {team, other}
  TeamIdent = team
  Bundles = {b1}
  Devices = {d1}
  Overlooks = {"password"}
  Foreign = {0}
  MaxRequests = 3
  MaxFaults = 3
CHECK_DEADLOCK FALSE
INVARIANT LiveKeysKept
