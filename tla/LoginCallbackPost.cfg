\* A POST whose Content-Length is not its first header.
SPECIFICATION Spec
CONSTANTS
  Logins = {l1}
  Kinds = {"post"}
  Ports = {1}
  MaxQueue = 1
INVARIANT AnsweredTokenTaken
