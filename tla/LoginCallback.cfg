\* One login and every kind of request whose length can be seen.
SPECIFICATION FairSpec
CONSTANTS
  Logins = {l1}
  Kinds = {"get", "page", "query", "post_len"}
  Ports = {1}
  MaxQueue = 2
INVARIANTS TypeOK AnsweredTokenTaken TokenKept
PROPERTY LoginEnds
